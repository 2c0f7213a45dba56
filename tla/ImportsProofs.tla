----------------------------- MODULE ImportsProofs -----------------------------
(***************************************************************************)
(* What is proved of the import system for every file system, every script  *)
(* and every sys.path: an inductive invariant of the calls, the heap and     *)
(* the cache, the properties that follow from it, that the cache is the      *)
(* one of module ModuleCache as long as no request is overtaken, and where   *)
(* none is.                                                                  *)
(***************************************************************************)
EXTENDS ImportsProperties, WellFoundedInduction, TLAPS

-------------------------------------------------------------------------------
(* What `compile` of module Imports makes of every body, of any length.
   Induction over the statements of a body is a statement about a set of
   naturals that has 0 and every successor.                                  *)

(* Every set of naturals that is not empty has a least member. *)
LEMMA Least ==
  ASSUME NEW S \in SUBSET Nat, S # {}
  PROVE  \E m \in S : \A n \in S : m <= n
<1>1. IsWellFoundedOn({ss \in Nat \X Nat : ss[1] < ss[2]}, Nat)
  BY NatLessThanWellFounded DEF OpToRel
<1>2. PICK m \in S : \A n \in S : <<n, m>> \notin {ss \in Nat \X Nat : ss[1] < ss[2]}
  BY <1>1, WFMin
<1>3. ASSUME NEW n \in S  PROVE m <= n
  <2>1. m \in Nat /\ n \in Nat
    OBVIOUS
  <2>2. <<n, m>> \in Nat \X Nat /\ <<n, m>>[1] = n /\ <<n, m>>[2] = m
    BY <2>1
  <2>3. ~(n < m)
    BY <1>2, <2>2
  <2>4. QED
    BY <2>1, <2>3
<1>4. QED
  BY <1>3

(* A set of naturals with 0 and every successor is all of them: induction,
   as a statement about a set. *)
LEMMA Counting ==
  ASSUME NEW S, 0 \in S, \A n \in Nat : n \in S => n + 1 \in S
  PROVE  Nat \subseteq S
<1> SUFFICES ASSUME Nat \ S # {}  PROVE FALSE
  OBVIOUS
<1>1. PICK m \in Nat \ S : \A n \in Nat \ S : m <= n
  BY Least
<1>2. m - 1 \in Nat /\ m - 1 \notin Nat \ S
  BY <1>1
<1>3. QED
  BY <1>2

(* The function that the folds of FlattenSeq are made of exists. *)
LEMMA Exists ==
  ASSUME NEW ss, NEW N \in Nat
  PROVE  \E f : f = [i \in 1..N |-> IF i = 1 THEN ss[i] ELSE f[i-1] \o ss[i]]
<1> DEFINE Has(n) == \E f : f = [i \in 1..n |-> IF i = 1 THEN ss[i] ELSE f[i-1] \o ss[i]]
           Good == {n \in Nat : Has(n)}
<1>1. ASSUME NEW n \in Nat, Has(n)  PROVE Has(n+1)
  <2>1. PICK f : f = [i \in 1..n |-> IF i = 1 THEN ss[i] ELSE f[i-1] \o ss[i]]
    BY <1>1
  <2> DEFINE g == [i \in 1..n+1 |-> IF i = 1 THEN ss[i] ELSE f[i-1] \o ss[i]]
  <2>a. ASSUME NEW i \in 1..n  PROVE f[i] = IF i = 1 THEN ss[i] ELSE f[i-1] \o ss[i]
    BY <2>1
  <2>2. \A i \in 1..n : g[i] = f[i] 
    BY <2>a
  <2>3. g = [i \in 1..n+1 |-> IF i = 1 THEN ss[i] ELSE g[i-1] \o ss[i]]
    <3>1. ASSUME NEW i \in 1..n+1  PROVE g[i] = IF i = 1 THEN ss[i] ELSE g[i-1] \o ss[i]
      <4>1. CASE i = 1
        BY <4>1
      <4>2. CASE i # 1
        <5>1. i - 1 \in 1..n
          BY <4>2
        <5> QED BY <2>2, <4>2, <5>1
      <4> QED BY <4>1, <4>2
    <3> HIDE DEF g
    <3>2. g = [i \in 1..n+1 |-> g[i]]
      BY DEF g
    <3> QED BY <3>1, <3>2
  <2> HIDE DEF g
  <2>4. QED BY <2>3
<1>2. Has(0)
  <2>1. [i \in 1..0 |-> ss[i]] = [i \in 1..0 |-> IF i = 1 THEN ss[i] ELSE [k \in 1..0 |-> ss[k]][i-1] \o ss[i]]
    OBVIOUS
  <2>2. QED BY <2>1
<1> HIDE DEF Has
<1>3. Nat \subseteq Good
  <2>1. 0 \in Good /\ \A n \in Nat : n \in Good => n + 1 \in Good
    BY <1>1, <1>2
  <2> HIDE DEF Good
  <2>2. QED BY <2>1, Counting
<1>4. QED BY <1>3 DEF Has

Flattened(ss) == CHOOSE flatten :
   flatten = [i \in 1..Len(ss) |-> IF i = 1 THEN ss[i] ELSE flatten[i-1] \o ss[i]]
(* ... so that FlattenSeq is the concatenation, one sequence at a time. *)
LEMMA FlattenedUnfold ==
  ASSUME NEW ss, Len(ss) \in Nat
  PROVE  /\ \A i \in 1..Len(ss) : Flattened(ss)[i] = IF i = 1 THEN ss[i] ELSE Flattened(ss)[i-1] \o ss[i]
         /\ Len(ss) # 0 => FlattenSeq(ss) = Flattened(ss)[Len(ss)]
<1>1. \E f : f = [i \in 1..Len(ss) |-> IF i = 1 THEN ss[i] ELSE f[i-1] \o ss[i]]
  BY Exists
<1>2. Flattened(ss) = [i \in 1..Len(ss) |-> IF i = 1 THEN ss[i] ELSE Flattened(ss)[i-1] \o ss[i]]
  BY <1>1 DEF Flattened
<1>3. Len(ss) # 0 => FlattenSeq(ss) = Flattened(ss)[Len(ss)]
  BY DEF FlattenSeq, Flattened
<1> HIDE DEF Flattened
<1>4. ASSUME NEW i \in 1..Len(ss)
      PROVE  Flattened(ss)[i] = IF i = 1 THEN ss[i] ELSE Flattened(ss)[i-1] \o ss[i]
  BY <1>2
<1> QED BY <1>3, <1>4

(* A flattened sequence is reached one step at a time: what holds of
   nothing, and of each concatenation if it held before it, holds of the
   whole. *)
LEMMA FlattenReaches ==
  ASSUME NEW T, NEW ss \in Seq(Seq(T)), NEW G, << >> \in G[0],
         \A i \in 1..Len(ss) : \A c \in G[i - 1] : c \in Seq(T) => c \o ss[i] \in G[i]
  PROVE  FlattenSeq(ss) \in G[Len(ss)] /\ FlattenSeq(ss) \in Seq(T)
<1> DEFINE P(n) == Flattened(ss)[n] \in G[n] /\ Flattened(ss)[n] \in Seq(T)
           Good == {n \in Nat : n + 1 \in 1..Len(ss) => P(n + 1)}
<1>0. Len(ss) \in Nat /\ \A i \in 1..Len(ss) : ss[i] \in Seq(T)
  OBVIOUS
<1>1. 0 \in Good
  <2> SUFFICES ASSUME 1 \in 1..Len(ss)  PROVE P(1)
    OBVIOUS
  <2>1. Flattened(ss)[1] = ss[1]
    BY <1>0, FlattenedUnfold
  <2>2. << >> \o ss[1] = ss[1] /\ << >> \in Seq(T)
    BY <1>0
  <2>3. 1 - 1 = 0
    OBVIOUS
  <2>4. << >> \o ss[1] \in G[1]
    BY <2>2, <2>3
  <2> QED BY <1>0, <2>1, <2>2, <2>4
<1>2. ASSUME NEW n \in Nat, n \in Good  PROVE n + 1 \in Good
  <2> SUFFICES ASSUME n + 2 \in 1..Len(ss)  PROVE P(n + 2)
    OBVIOUS
  <2>1. P(n + 1)
    BY <1>2, <1>0
  <2>2. n + 2 # 1 /\ (n + 2) - 1 = n + 1
    OBVIOUS
  <2>3. Flattened(ss)[n + 2] = Flattened(ss)[n + 1] \o ss[n + 2]
    BY <1>0, <2>2, FlattenedUnfold
  <2>4. Flattened(ss)[n + 1] \o ss[n + 2] \in G[n + 2]
    BY <2>1, <2>2
  <2>5. Flattened(ss)[n + 1] \o ss[n + 2] \in Seq(T)
    BY <2>1, <1>0
  <2> QED BY <2>3, <2>4, <2>5
<1>3. Nat \subseteq Good
  <2> HIDE DEF Good
  <2> QED BY <1>1, <1>2, Counting
<1>4. CASE Len(ss) = 0
  <2>1. ss = << >>
    BY <1>4
  <2> QED BY <1>4, <2>1 DEF FlattenSeq
<1>5. CASE Len(ss) # 0
  <2>1. Len(ss) - 1 \in Nat /\ (Len(ss) - 1) + 1 = Len(ss) /\ Len(ss) \in 1..Len(ss)
    BY <1>0, <1>5
  <2>2. Len(ss) - 1 \in Good
    BY <1>3, <2>1
  <2>3. P(Len(ss))
    BY <2>1, <2>2
  <2>4. FlattenSeq(ss) = Flattened(ss)[Len(ss)]
    BY <1>0, <1>5, FlattenedUnfold
  <2> QED BY <2>3, <2>4
<1> QED BY <1>4, <1>5

-------------------------------------------------------------------------------
(* Code. *)
Constants == ({"int"} \X Nat) \cup {None, Names_, Plain} \cup Strings
Instructions ==
  ({"LOAD_CONST"} \X Constants)
  \cup ({"IMPORT_NAME"} \X Seq(Identifiers))
  \cup ({"LOAD_ATTR", "STORE_GLOBAL", "IMPORT_FROM"} \X Identifiers)
  \cup ({"POP_TOP", "RAISE", "IMPORT_STAR", "HALT"} \X {0})

Op(c, i) == c[i][1]

(* Behind instruction i the module imported last is on top of the stack; *)
Leaves(c, i) ==
  \/ Op(c, i) = "IMPORT_NAME"
  \/ i > 1 /\ Op(c, i) = "STORE_GLOBAL" /\ Op(c, i - 1) = "IMPORT_FROM"
(* ... something is. *)
Provides(c, i) == Op(c, i) \in {"LOAD_CONST", "LOAD_ATTR", "IMPORT_FROM"} \/ Leaves(c, i)
(* What instruction i takes from the stack. *)
NeedsModule(c, i) == Op(c, i) \in {"IMPORT_FROM", "IMPORT_STAR"}
NeedsValue(c, i) == Op(c, i) \in {"STORE_GLOBAL", "LOAD_ATTR", "POP_TOP"}

(* Code that may follow where pre is on top of the stack: an import has its two
   operands, and every instruction what it needs.                            *)
OnTop == {"nothing", "value", "module"}
Shaped(c, pre) == \A i \in 1..Len(c) :
  /\ Op(c, i) = "IMPORT_NAME" =>
       i > 2 /\ Op(c, i - 1) = "LOAD_CONST" /\ Op(c, i - 2) = "LOAD_CONST" /\ c[i - 2][2][2] \in Nat
  /\ NeedsModule(c, i) => (i = 1 /\ pre = "module") \/ (i > 1 /\ Leaves(c, i - 1))
  /\ NeedsValue(c, i) => (i = 1 /\ pre # "nothing") \/ (i > 1 /\ Provides(c, i - 1))

Unended(c) == \A i \in 1..Len(c) : Op(c, i) # "HALT"
Storing(c, x) == \E i \in 1..Len(c) : c[i] = <<"STORE_GLOBAL", x>>
Starring(c) == \E i \in 1..Len(c) : Op(c, i) = "IMPORT_STAR"

(* Code without an end that stores the names in X, and that imports a star or not. *)
Piece(c, pre, X, star) ==
  /\ c \in Seq(Instructions) /\ Shaped(c, pre) /\ Unended(c)
  /\ \A x : Storing(c, x) <=> x \in X
  /\ Starring(c) <=> star

(* A concatenation. *)
LEMMA Longer ==
  ASSUME NEW T, NEW P \in Seq(T), NEW s \in Seq(T), NEW Q, Q = P \o s
  PROVE  /\ Q \in Seq(T) /\ Len(Q) = Len(P) + Len(s)
         /\ Len(P) \in Nat /\ Len(s) \in Nat
         /\ \A k \in 1..Len(P) : Q[k] = P[k]
         /\ \A k \in 1..Len(s) : Q[Len(P) + k] = s[k]
  OBVIOUS

(* Two pieces of code in a row are a piece, when the first leaves what the
   second needs. *)
LEMMA Concat ==
  ASSUME NEW c, NEW d, NEW pre \in OnTop, NEW X, NEW Y, NEW a \in BOOLEAN, NEW b \in BOOLEAN, NEW q \in OnTop,
         Piece(c, pre, X, a), Piece(d, q, Y, b),
         q = "module" => (IF c = << >> THEN pre = "module" ELSE Leaves(c, Len(c))),
         q = "value" => (IF c = << >> THEN pre # "nothing" ELSE Provides(c, Len(c)))
  PROVE  Piece(c \o d, pre, X \cup Y, a \/ b)
<1> DEFINE e == c \o d
           n == Len(c)
           m == Len(d)
<1>1. c \in Seq(Instructions) /\ d \in Seq(Instructions)
  BY DEF Piece
<1>2. /\ e \in Seq(Instructions) /\ Len(e) = n + m /\ n \in Nat /\ m \in Nat
      /\ \A k \in 1..n : e[k] = c[k]
      /\ \A k \in 1..m : e[n + k] = d[k]
  <2>1. e = c \o d
    OBVIOUS
  <2> HIDE DEF e
  <2> QED BY <1>1, <2>1, Longer
<1>3. c = << >> \/ n > 0
  BY <1>1
<1> HIDE DEF e, n, m
<1>4. \A i \in 1..Len(e) : i \in 1..n \/ (i > n /\ i - n \in 1..m /\ e[i] = d[i - n] /\ i \in Nat)
  <2> SUFFICES ASSUME NEW i \in 1..Len(e), i \notin 1..n
               PROVE  i > n /\ i - n \in 1..m /\ e[i] = d[i - n] /\ i \in Nat
    OBVIOUS
  <2>1. i > n /\ i - n \in 1..m /\ n + (i - n) = i /\ i \in Nat
    BY <1>2
  <2> QED BY <2>1, <1>2
<1>5. Shaped(e, pre)
  <2> SUFFICES ASSUME NEW i \in 1..Len(e)
               PROVE /\ Op(e, i) = "IMPORT_NAME" =>
                           i > 2 /\ Op(e, i - 1) = "LOAD_CONST" /\ Op(e, i - 2) = "LOAD_CONST" /\ e[i - 2][2][2] \in Nat
                     /\ NeedsModule(e, i) => (i = 1 /\ pre = "module") \/ (i > 1 /\ Leaves(e, i - 1))
                     /\ NeedsValue(e, i) => (i = 1 /\ pre # "nothing") \/ (i > 1 /\ Provides(e, i - 1))
    BY DEF Shaped
  <2>1. CASE i \in 1..n
    <3>1. i \in Nat /\ i <= n /\ e[i] = c[i]
      BY <2>1, <1>2
    <3>2. \A j \in Nat : j > 0 /\ j < i => e[j] = c[j]
      BY <3>1, <1>2
    <3>3. /\ Op(c, i) = "IMPORT_NAME" =>
               i > 2 /\ Op(c, i - 1) = "LOAD_CONST" /\ Op(c, i - 2) = "LOAD_CONST" /\ c[i - 2][2][2] \in Nat
          /\ NeedsModule(c, i) => (i = 1 /\ pre = "module") \/ (i > 1 /\ Leaves(c, i - 1))
          /\ NeedsValue(c, i) => (i = 1 /\ pre # "nothing") \/ (i > 1 /\ Provides(c, i - 1))
      BY <2>1 DEF Piece, Shaped, n
    <3>4. /\ i > 1 => i - 1 \in Nat /\ i - 1 > 0 /\ i - 1 < i
          /\ i > 2 => i - 2 \in Nat /\ i - 2 > 0 /\ i - 2 < i /\ (i - 1) - 1 = i - 2
          /\ i > 1 /\ i - 1 > 1 => i > 2
      BY <3>1
    <3>5. i > 1 => (Leaves(c, i - 1) => Leaves(e, i - 1))
      BY <3>2, <3>4 DEF Leaves, Op
    <3>6. i > 1 => (Provides(c, i - 1) => Provides(e, i - 1))
      BY <3>2, <3>4, <3>5 DEF Provides, Op
    <3>7. Op(e, i) = Op(c, i) /\ (i > 2 => e[i - 1] = c[i - 1] /\ e[i - 2] = c[i - 2])
      BY <3>1, <3>2, <3>4 DEF Op
    <3> QED BY <3>3, <3>5, <3>6, <3>7 DEF Op, NeedsModule, NeedsValue
  <2>2. CASE i \notin 1..n
    <3> DEFINE k == i - n
    <3>1. i > n /\ k \in 1..m /\ e[i] = d[k] /\ i \in Nat /\ k \in Nat /\ i = n + k
      BY <2>2, <1>4, <1>2
    <3>2. \A j \in Nat : j > 0 /\ j < k => e[i - j] = d[k - j]
      <4> SUFFICES ASSUME NEW j \in Nat, j > 0, j < k  PROVE e[i - j] = d[k - j]
        OBVIOUS
      <4>1. k - j \in 1..m /\ n + (k - j) = i - j
        BY <3>1, <1>2
      <4> QED BY <4>1, <1>2
    <3>3. /\ Op(d, k) = "IMPORT_NAME" =>
               k > 2 /\ Op(d, k - 1) = "LOAD_CONST" /\ Op(d, k - 2) = "LOAD_CONST" /\ d[k - 2][2][2] \in Nat
          /\ NeedsModule(d, k) => (k = 1 /\ q = "module") \/ (k > 1 /\ Leaves(d, k - 1))
          /\ NeedsValue(d, k) => (k = 1 /\ q # "nothing") \/ (k > 1 /\ Provides(d, k - 1))
      BY <3>1 DEF Piece, Shaped, m
    <3> HIDE DEF k
    <3>4. /\ k > 1 => i > 1 /\ e[i - 1] = d[k - 1]
          /\ k > 2 => i > 2 /\ e[i - 2] = d[k - 2]
      BY <3>1, <3>2, <1>2
    <3>5. k > 1 => (Leaves(d, k - 1) => Leaves(e, i - 1))
      <4>1. (k - 1) - 1 = k - 2 /\ (i - 1) - 1 = i - 2
        BY <3>1
      <4>2. k > 1 /\ k - 1 > 1 => k > 2 /\ i - 1 > 1
        BY <3>1, <3>4
      <4> QED BY <3>4, <4>1, <4>2 DEF Leaves, Op
    <3>6. k > 1 => (Provides(d, k - 1) => Provides(e, i - 1))
      BY <3>4, <3>5 DEF Provides, Op
    <3>7. Op(e, i) = Op(d, k) /\ (k = 1 => ~(Op(d, k) = "IMPORT_NAME"))
      BY <3>1, <3>3 DEF Op
    <3>8. CASE k # 1
      <4>1. k > 1 /\ (k > 2 => e[i - 1] = d[k - 1] /\ e[i - 2] = d[k - 2])
        BY <3>1, <3>4, <3>8
      <4>2. Op(e, i) = "IMPORT_NAME" =>
               i > 2 /\ Op(e, i - 1) = "LOAD_CONST" /\ Op(e, i - 2) = "LOAD_CONST" /\ e[i - 2][2][2] \in Nat
        BY <3>3, <3>4, <3>7, <4>1 DEF Op
      <4>3. NeedsModule(e, i) => i > 1 /\ Leaves(e, i - 1)
        BY <3>3, <3>4, <3>5, <3>7, <3>8, <4>1 DEF NeedsModule
      <4>4. NeedsValue(e, i) => i > 1 /\ Provides(e, i - 1)
        BY <3>3, <3>4, <3>6, <3>7, <3>8, <4>1 DEF NeedsValue
      <4> QED BY <4>2, <4>3, <4>4
    <3>9. CASE k = 1
      <4>1. c = << >> => n = 0 /\ i = 1
        BY <3>1, <3>9 DEF n
      <4>2. c # << >> => n > 0 /\ i - 1 = n /\ n \in 1..n /\ (n > 1 => n - 1 \in 1..n)
        BY <3>1, <3>9, <1>2, <1>3
      <4>3. c # << >> => (Leaves(c, n) => Leaves(e, i - 1))
        BY <4>2, <1>2 DEF Leaves, Op
      <4>4. c # << >> => (Provides(c, n) => Provides(e, i - 1))
        BY <4>2, <4>3, <1>2 DEF Provides, Op
      <4>5. c # << >> => i > 1
        BY <4>2
      <4>6. CASE q = "module"
        <5>1. IF c = << >> THEN pre = "module" ELSE Leaves(c, n)
          BY <4>6 DEF n
        <5>2. Leaves(c, n) => Provides(c, n)
          BY DEF Provides
        <5>3. "module" # "nothing"
          OBVIOUS
        <5> QED BY <5>1, <5>2, <5>3, <3>7, <3>9, <4>1, <4>3, <4>4, <4>5
      <4>7. CASE q = "value"
        <5>1. IF c = << >> THEN pre # "nothing" ELSE Provides(c, n)
          BY <4>7 DEF n
        <5>2. ~NeedsModule(d, k)
          BY <3>3, <3>9, <4>7
        <5> QED BY <5>1, <5>2, <3>7, <3>9, <4>1, <4>4, <4>5 DEF NeedsModule
      <4>8. CASE q = "nothing"
        <5>1. ~NeedsModule(d, k) /\ ~NeedsValue(d, k)
          BY <3>3, <3>9, <4>8
        <5> QED BY <5>1, <3>7, <3>9 DEF NeedsModule, NeedsValue
      <4> QED BY <4>6, <4>7, <4>8 DEF OnTop
    <3> QED BY <3>8, <3>9
  <2> QED BY <2>1, <2>2
<1>6. Unended(e)
  <2>1. \A i \in 1..n : c[i][1] # "HALT"
    BY DEF Piece, Unended, Op, n
  <2>2. \A i \in 1..m : d[i][1] # "HALT"
    BY DEF Piece, Unended, Op, m
  <2>3. ASSUME NEW i \in 1..Len(e)  PROVE e[i][1] # "HALT"
    <3>1. CASE i \in 1..n
      BY <3>1, <2>1, <1>2
    <3>2. CASE i \notin 1..n
      BY <3>2, <2>2, <1>4
    <3> QED BY <3>1, <3>2
  <2> QED BY <2>3 DEF Unended, Op
<1>7. \A i \in 1..n : i \in 1..Len(e)
  BY <1>2
<1>8. \A i \in 1..m : n + i \in 1..Len(e)
  BY <1>2
<1>9. \A x : Storing(e, x) <=> x \in X \cup Y
  <2>1. \A x : Storing(e, x) <=> Storing(c, x) \/ Storing(d, x)
    <3>1. ASSUME NEW x, Storing(e, x)  PROVE Storing(c, x) \/ Storing(d, x)
      BY <3>1, <1>2, <1>4 DEF Storing, n, m
    <3>2. ASSUME NEW x, Storing(c, x)  PROVE Storing(e, x)
      BY <3>2, <1>2, <1>7 DEF Storing, n
    <3>3. ASSUME NEW x, Storing(d, x)  PROVE Storing(e, x)
      BY <3>3, <1>2, <1>8 DEF Storing, m
    <3> QED BY <3>1, <3>2, <3>3
  <2> QED BY <2>1 DEF Piece
<1>10. Starring(e) <=> a \/ b
  <2>1. Starring(e) => Starring(c) \/ Starring(d)
    <3> SUFFICES ASSUME Starring(e)  PROVE Starring(c) \/ Starring(d)
      OBVIOUS
    <3>1. PICK i \in 1..Len(e) : Op(e, i) = "IMPORT_STAR"
      BY DEF Starring
    <3>2. CASE i \in 1..n
      BY <3>1, <3>2, <1>2 DEF Starring, n, Op
    <3>3. CASE i \notin 1..n
      BY <3>1, <3>3, <1>4 DEF Starring, m, Op
    <3> QED BY <3>2, <3>3
  <2>2. Starring(c) => Starring(e)
    BY <1>2, <1>7 DEF Starring, n, Op
  <2>3. Starring(d) => Starring(e)
    BY <1>2, <1>8 DEF Starring, m, Op
  <2> QED BY <2>1, <2>2, <2>3 DEF Piece
<1> QED BY <1>2, <1>5, <1>6, <1>9, <1>10 DEF Piece, e

(* An instruction that stores nothing is a piece. *)
LEMMA Single ==
  ASSUME NEW h \in Instructions, h[1] \notin {"IMPORT_NAME", "HALT", "STORE_GLOBAL"},
         NEW pre \in OnTop, NeedsModule(<<h>>, 1) => pre = "module", NeedsValue(<<h>>, 1) => pre # "nothing"
  PROVE  Piece(<<h>>, pre, {}, h[1] = "IMPORT_STAR")
<1>1. <<h>> \in Seq(Instructions) /\ Len(<<h>>) = 1 /\ <<h>>[1] = h /\ Op(<<h>>, 1) = h[1]
  BY DEF Op
<1>2. \A i \in 1..1 : i = 1
  OBVIOUS
<1> DEFINE c == <<h>>
<1> HIDE DEF c
<1>3. c \in Seq(Instructions) /\ Len(c) = 1 /\ c[1] = h /\ Op(c, 1) = h[1]
  BY <1>1 DEF c
<1>4. Shaped(c, pre) /\ Unended(c)
  BY <1>2, <1>3 DEF Shaped, Unended, c
<1>5. \A x : ~Storing(c, x)
  BY <1>2, <1>3 DEF Storing, Op
<1>6. Starring(c) <=> h[1] = "IMPORT_STAR"
  BY <1>2, <1>3 DEF Starring
<1> QED BY <1>3, <1>4, <1>5, <1>6 DEF Piece, c

(* A store is a piece that binds its name. *)
LEMMA StorePiece ==
  ASSUME NEW x \in Identifiers
  PROVE  Piece(Store(x), "value", {x}, FALSE)
<1> DEFINE c == Store(x)
<1>1. c \in Seq(Instructions) /\ Len(c) = 1 /\ c[1] = <<"STORE_GLOBAL", x>>
  BY DEF Store, Instructions
<1>2. \A i \in 1..1 : i = 1
  OBVIOUS
<1> HIDE DEF c
<1>3. Shaped(c, "value") /\ Unended(c) /\ ~Starring(c)
  BY <1>1, <1>2 DEF Shaped, Unended, Starring, Op, NeedsModule, NeedsValue
<1>4. \A y : Storing(c, y) <=> y \in {x}
  BY <1>1, <1>2 DEF Storing
<1> QED BY <1>1, <1>3, <1>4 DEF Piece, c

(* An IMPORT_NAME and its two operands are a piece that leaves a module. *)
LEMMA ConstsPiece ==
  ASSUME NEW level \in Nat, NEW fromlist \in {None, Names_}, NEW name \in Seq(Identifiers)
  PROVE  LET c == ImportConsts(level, fromlist, name)
         IN Piece(c, "nothing", {}, FALSE) /\ c # << >> /\ Leaves(c, Len(c))
<1> DEFINE c == ImportConsts(level, fromlist, name)
<1>1. c = << <<"LOAD_CONST", <<"int", level>> >>, <<"LOAD_CONST", fromlist>>, <<"IMPORT_NAME", name>> >>
  BY DEF ImportConsts, Int_
<1>2. c \in Seq(Instructions) /\ Len(c) = 3
  BY <1>1 DEF Instructions, Constants
<1>3. c[1] = <<"LOAD_CONST", <<"int", level>> >> /\ c[2][1] = "LOAD_CONST" /\ c[3][1] = "IMPORT_NAME"
  BY <1>1
<1> HIDE DEF c
<1>4. \A i \in 1..3 : i = 1 \/ i = 2 \/ i = 3
  OBVIOUS
<1>5. Shaped(c, "nothing")
  BY <1>2, <1>3, <1>4 DEF Shaped, Op, NeedsModule, NeedsValue
<1>6. Unended(c) /\ ~Starring(c) /\ Leaves(c, Len(c))
  BY <1>2, <1>3, <1>4 DEF Unended, Starring, Op, Leaves
<1>7. \A x : ~Storing(c, x)
  BY <1>2, <1>3, <1>4 DEF Storing
<1>8. c # << >>
  <2>1. Len(c) # 0
    BY <1>2
  <2> QED BY <2>1
<1> QED BY <1>2, <1>5, <1>6, <1>7, <1>8 DEF Piece, c

(* The code of an import statement binds the name that Bound says. *)
LEMMA ImportPiece ==
  ASSUME NEW name \in Seq(Identifiers) \ {<< >>}, NEW asname \in Identifiers
  PROVE  Piece(compile_import(name, asname), "nothing",
               {IF asname = "" THEN Head(name) ELSE asname}, FALSE)
<1> DEFINE A == ImportConsts(0, None, name)
<1>1. /\ name \in Seq(Identifiers) /\ name # << >>
      /\ Len(name) \in Nat /\ Len(name) # 0 /\ Head(name) \in Identifiers
  OBVIOUS
<1>2. Piece(A, "nothing", {}, FALSE) /\ A # << >> /\ Leaves(A, Len(A))
  BY <1>1, ConstsPiece
<1> HIDE DEF A
<1>3. CASE asname = ""
  <2>1. Piece(A \o Store(Head(name)), "nothing", {} \cup {Head(name)}, FALSE \/ FALSE)
    <3>1. Provides(A, Len(A))
      BY <1>2 DEF Provides
    <3> QED BY <1>1, <1>2, <3>1, StorePiece, Concat DEF OnTop
  <2>2. compile_import(name, asname) = A \o Store(Head(name)) /\ {} \cup {Head(name)} = {Head(name)}
    BY <1>3 DEF compile_import, A
  <2> QED BY <1>3, <2>1, <2>2
<1>4. CASE asname # ""
  <2> DEFINE B == [i \in 1..Len(name) - 1 |-> <<"LOAD_ATTR", name[i + 1]>>]
             n == Len(name) - 1
  <2>1. n \in Nat
    BY <1>1
  <2>2. ASSUME NEW i \in 1..n  PROVE <<"LOAD_ATTR", name[i + 1]>> \in Instructions
    <3>1. i + 1 \in 1..Len(name)
      BY <2>1, <1>1
    <3>2. name[i + 1] \in Identifiers
      BY <3>1, <1>1
    <3> QED BY <3>2 DEF Instructions
  <2>3. B \in Seq(Instructions) /\ Len(B) = n /\ \A i \in 1..n : B[i][1] = "LOAD_ATTR"
    BY <2>1, <2>2
  <2>4. A \o B \o Store(asname) = A \o (B \o Store(asname))
    <3>1. Store(asname) \in Seq(Instructions) /\ A \in Seq(Instructions)
      BY <1>2, StorePiece DEF Piece
    <3> HIDE DEF B
    <3> QED BY <2>3, <3>1
  <2>5. compile_import(name, asname) = A \o (B \o Store(asname))
    BY <1>4 DEF compile_import, A
  <2> HIDE DEF B, n
  <2>6. Piece(B, "value", {}, FALSE)
    <3>1. Shaped(B, "value")
      <4>1. \A i \in 1..n : i > 1 => i - 1 \in 1..n
        BY <2>1
      <4>2. \A i \in 1..n : i = 1 \/ i > 1
        BY <2>1
      <4> QED BY <2>3, <4>1, <4>2 DEF Shaped, Op, NeedsModule, NeedsValue, Provides
    <3>2. Unended(B) /\ ~Starring(B)
      BY <2>3 DEF Unended, Starring, Op
    <3>3. \A x : ~Storing(B, x)
      BY <2>3 DEF Storing
    <3> QED BY <2>3, <3>1, <3>2, <3>3 DEF Piece
  <2>7. Piece(B \o Store(asname), "value", {} \cup {asname}, FALSE \/ FALSE)
    <3>1. B # << >> => Len(B) \in 1..n
      BY <2>1, <2>3
    <3>2. B # << >> => Provides(B, Len(B))
      BY <2>3, <3>1 DEF Provides, Op
    <3> QED BY <2>6, <3>2, StorePiece, Concat DEF OnTop
  <2>8. Piece(A \o (B \o Store(asname)), "nothing", {} \cup ({} \cup {asname}), FALSE \/ (FALSE \/ FALSE))
    <3>1. Provides(A, Len(A))
      BY <1>2 DEF Provides
    <3>2. (FALSE \/ FALSE) = FALSE
      OBVIOUS
    <3>3. Piece(B \o Store(asname), "value", {} \cup {asname}, FALSE)
      BY <2>7, <3>2
    <3>4. Piece(A \o (B \o Store(asname)), "nothing", {} \cup ({} \cup {asname}), FALSE \/ FALSE)
      <4> DEFINE d == B \o Store(asname)
                 Y == {} \cup {asname}
      <4>1. Piece(d, "value", Y, FALSE)
        BY <3>3
      <4> HIDE DEF d, Y
      <4>2. Piece(A \o d, "nothing", {} \cup Y, FALSE \/ FALSE)
        BY <1>2, <3>1, <4>1, Concat DEF OnTop
      <4> QED BY <4>2 DEF d, Y
    <3> QED BY <3>2, <3>4
  <2>9. {} \cup ({} \cup {asname}) = {asname}
    OBVIOUS
  <2> QED BY <1>4, <2>5, <2>8, <2>9
<1> QED BY <1>3, <1>4

(* The other instructions that end a statement. *)
LEMMA PopPiece ==
  /\ Piece(<< <<"POP_TOP", 0>> >>, "value", {}, FALSE)
  /\ Piece(<< <<"RAISE", 0>> >>, "nothing", {}, FALSE)
  /\ Piece(<< <<"IMPORT_STAR", 0>> >>, "module", {}, TRUE)
  /\ \A v \in Constants : Piece(<< <<"LOAD_CONST", v>> >>, "nothing", {}, FALSE)
<1> DEFINE pop == <<"POP_TOP", 0>>
           raise == <<"RAISE", 0>>
           star == <<"IMPORT_STAR", 0>>
           load(v) == <<"LOAD_CONST", v>>
<1>1. /\ pop \in Instructions /\ raise \in Instructions /\ star \in Instructions
      /\ pop[1] = "POP_TOP" /\ raise[1] = "RAISE" /\ star[1] = "IMPORT_STAR"
      /\ \A v \in Constants : load(v) \in Instructions /\ load(v)[1] = "LOAD_CONST"
  BY DEF Instructions
<1>2. \A h : <<h>>[1] = h
  OBVIOUS
<1> HIDE DEF pop, raise, star, load
<1>3. \A h : Op(<<h>>, 1) = h[1]
  BY <1>2 DEF Op
<1>4. Piece(<<pop>>, "value", {}, pop[1] = "IMPORT_STAR")
  BY <1>1, <1>3, Single DEF NeedsModule, OnTop
<1>5. Piece(<<raise>>, "nothing", {}, raise[1] = "IMPORT_STAR")
  BY <1>1, <1>3, Single DEF NeedsModule, NeedsValue, OnTop
<1>6. Piece(<<star>>, "module", {}, star[1] = "IMPORT_STAR")
  BY <1>1, <1>3, Single DEF NeedsValue, OnTop
<1>7. \A v \in Constants : Piece(<<load(v)>>, "nothing", {}, load(v)[1] = "IMPORT_STAR")
  BY <1>1, <1>3, Single DEF NeedsModule, NeedsValue, OnTop
<1>8. /\ Piece(<<pop>>, "value", {}, FALSE) /\ Piece(<<raise>>, "nothing", {}, FALSE)
      /\ Piece(<<star>>, "module", {}, TRUE)
      /\ \A v \in Constants : Piece(<<load(v)>>, "nothing", {}, FALSE)
  BY <1>1, <1>4, <1>5, <1>6, <1>7 DEF Piece
<1> QED BY <1>8 DEF pop, raise, star, load

Pair(alias) == << <<"IMPORT_FROM", alias[1]>>, <<"STORE_GLOBAL", alias[2]>> >>

(* One alias of a from-import takes a module and leaves it. *)
LEMMA PairPiece ==
  ASSUME NEW alias \in Identifiers \X Identifiers
  PROVE  Piece(Pair(alias), "module", {alias[2]}, FALSE) /\ Pair(alias) # << >> /\ Leaves(Pair(alias), Len(Pair(alias)))
<1> DEFINE c == Pair(alias)
<1>1. c \in Seq(Instructions) /\ Len(c) = 2
  BY DEF Pair, Instructions
<1>2. c[1] = <<"IMPORT_FROM", alias[1]>> /\ c[2] = <<"STORE_GLOBAL", alias[2]>>
  BY DEF Pair
<1> HIDE DEF c
<1>3. \A i \in 1..2 : i = 1 \/ i = 2
  OBVIOUS
<1>4. Shaped(c, "module")
  BY <1>1, <1>2, <1>3 DEF Shaped, Op, NeedsModule, NeedsValue, Provides
<1>5. Unended(c) /\ ~Starring(c) /\ Leaves(c, Len(c))
  BY <1>1, <1>2, <1>3 DEF Unended, Starring, Op, Leaves
<1>6. \A x : Storing(c, x) <=> x \in {alias[2]}
  BY <1>1, <1>2, <1>3 DEF Storing
<1>7. c # << >>
  BY <1>1
<1> QED BY <1>1, <1>4, <1>5, <1>6, <1>7 DEF Piece, c

(* A concatenation leaves what its second part leaves. *)
LEMMA ConcatLeaves ==
  ASSUME NEW c \in Seq(Instructions), NEW d \in Seq(Instructions), d # << >>, Leaves(d, Len(d))
  PROVE  c \o d # << >> /\ Leaves(c \o d, Len(c \o d))
<1> DEFINE e == c \o d
           n == Len(c)
           m == Len(d)
<1>0. d # << >> => m > 0
  OBVIOUS
<1>1. /\ e \in Seq(Instructions) /\ Len(e) = n + m /\ n \in Nat /\ m \in Nat
      /\ \A k \in 1..m : e[n + k] = d[k]
  <2>1. e = c \o d
    OBVIOUS
  <2> HIDE DEF e
  <2> QED BY <2>1, Longer
<1>2. Leaves(d, m)
  OBVIOUS
<1> HIDE DEF e, n, m
<1>3. m \in 1..m /\ (m > 1 => m - 1 \in 1..m /\ n + (m - 1) = (n + m) - 1 /\ n + m > 1)
  BY <1>0, <1>1
<1>4. Leaves(e, n + m)
  BY <1>1, <1>2, <1>3 DEF Leaves, Op
<1>5. e # << >>
  <2>1. Len(e) # 0
    BY <1>0, <1>1
  <2> QED BY <2>1
<1> QED BY <1>1, <1>4, <1>5 DEF e

(* ... and so do all of them. *)
LEMMA PairsPiece ==
  ASSUME NEW aliases \in Seq(Identifiers \X Identifiers)
  PROVE  LET c == FlattenSeq([i \in DOMAIN aliases |-> Pair(aliases[i])])
         IN /\ Piece(c, "module", {aliases[i][2] : i \in DOMAIN aliases}, FALSE)
            /\ c # << >> => Leaves(c, Len(c))
<1> DEFINE ss == [i \in DOMAIN aliases |-> Pair(aliases[i])]
           n == Len(aliases)
           X(k) == {aliases[i][2] : i \in 1..k}
           G == [k \in 0..n |-> {c \in Seq(Instructions) :
                   Piece(c, "module", X(k), FALSE) /\ (c # << >> => Leaves(c, Len(c)))}]
<1>1. n \in Nat /\ DOMAIN aliases = 1..n /\ \A i \in 1..n : aliases[i] \in Identifiers \X Identifiers
  OBVIOUS
<1>2. \A i \in 1..n : Pair(aliases[i]) \in Seq(Instructions)
  BY <1>1, PairPiece DEF Piece
<1>3. ss \in Seq(Seq(Instructions)) /\ Len(ss) = n /\ \A i \in 1..n : ss[i] = Pair(aliases[i])
  BY <1>1, <1>2
<1>4. << >> \in G[0]
  <2>1. Piece(<< >>, "module", X(0), FALSE)
    BY DEF Piece, Shaped, Unended, Storing, Starring
  <2>2. 0 \in 0..n /\ << >> \in Seq(Instructions)
    BY <1>1
  <2> HIDE DEF X
  <2>3. G[0] = {c \in Seq(Instructions) : Piece(c, "module", X(0), FALSE) /\ (c # << >> => Leaves(c, Len(c)))}
    BY <2>2
  <2> HIDE DEF G
  <2> QED BY <2>1, <2>2, <2>3
<1>5. ASSUME NEW i \in 1..n, NEW c \in G[i - 1]
      PROVE  c \o ss[i] \in G[i]
  <2>1. i - 1 \in 0..n /\ i \in 0..n
    BY <1>1
  <2>2. c \in Seq(Instructions) /\ Piece(c, "module", X(i - 1), FALSE) /\ (c # << >> => Leaves(c, Len(c)))
    BY <2>1
  <2>3. /\ Piece(ss[i], "module", {aliases[i][2]}, FALSE) /\ ss[i] \in Seq(Instructions)
        /\ ss[i] # << >> /\ Leaves(ss[i], Len(ss[i]))
    BY <1>1, <1>2, <1>3, PairPiece
  <2>4. X(i - 1) \cup {aliases[i][2]} = X(i)
    <3>1. \A j : j \in 1..i <=> j \in 1..i - 1 \/ j = i
      BY <1>1
    <3> QED BY <3>1
  <2> HIDE DEF X, ss
  <2>5. Piece(c \o ss[i], "module", X(i - 1) \cup {aliases[i][2]}, FALSE \/ FALSE)
    BY <2>2, <2>3, Concat DEF OnTop
  <2>6. c \o ss[i] # << >> /\ Leaves(c \o ss[i], Len(c \o ss[i]))
    BY <2>2, <2>3, ConcatLeaves
  <2>7. c \o ss[i] \in Seq(Instructions)
    BY <2>5 DEF Piece
  <2> QED BY <2>1, <2>4, <2>5, <2>6, <2>7
<1> HIDE DEF ss, G
<1>6. FlattenSeq(ss) \in G[n]
  BY <1>3, <1>4, <1>5, FlattenReaches
<1>7. n \in 0..n
  BY <1>1
<1>8. /\ Piece(FlattenSeq(ss), "module", X(n), FALSE)
      /\ FlattenSeq(ss) # << >> => Leaves(FlattenSeq(ss), Len(FlattenSeq(ss)))
  BY <1>6, <1>7 DEF G
<1> QED BY <1>1, <1>8 DEF ss

(* The code of a from-import binds its aliases. *)
LEMMA FromPiece ==
  ASSUME NEW level \in Nat, NEW name \in Seq(Identifiers), NEW aliases \in Seq(Identifiers \X Identifiers)
  PROVE  Piece(compile_import_from(level, name, aliases), "nothing",
               {aliases[i][2] : i \in DOMAIN aliases}, FALSE)
<1> DEFINE A == ImportConsts(level, Names_, name)
           F == FlattenSeq([i \in DOMAIN aliases |-> Pair(aliases[i])])
           E == << <<"POP_TOP", 0>> >>
           X == {aliases[i][2] : i \in DOMAIN aliases}
<1>1. Piece(A, "nothing", {}, FALSE) /\ A # << >> /\ Leaves(A, Len(A))
  BY ConstsPiece
<1>2. Piece(F, "module", X, FALSE) /\ (F # << >> => Leaves(F, Len(F)))
  BY PairsPiece
<1>3. Piece(E, "value", {}, FALSE)
  BY PopPiece
<1>4. compile_import_from(level, name, aliases) = (A \o F) \o E
  BY DEF compile_import_from, Pair
<1> HIDE DEF A, F, E, X
<1>5. Piece(A \o F, "nothing", {} \cup X, FALSE \/ FALSE)
  BY <1>1, <1>2, Concat DEF OnTop
<1>8. A \o F # << >> /\ Leaves(A \o F, Len(A \o F))
  <2>1. A \in Seq(Instructions) /\ F \in Seq(Instructions)
    BY <1>1, <1>2 DEF Piece
  <2>2. CASE F = << >>
    BY <1>1, <2>1, <2>2
  <2>3. CASE F # << >>
    BY <1>2, <2>1, <2>3, ConcatLeaves
  <2> QED BY <2>2, <2>3
<1>6. Piece((A \o F) \o E, "nothing", ({} \cup X) \cup {}, (FALSE \/ FALSE) \/ FALSE)
  <2> DEFINE c == A \o F
             Y == {} \cup X
  <2>1. Piece(c, "nothing", Y, FALSE) /\ c # << >> /\ Provides(c, Len(c))
    BY <1>5, <1>8 DEF Provides
  <2> HIDE DEF c, Y
  <2>2. Piece(c \o E, "nothing", Y \cup {}, FALSE \/ FALSE)
    BY <1>3, <2>1, Concat DEF OnTop
  <2> QED BY <2>2 DEF c, Y
<1>7. ({} \cup X) \cup {} = X
  OBVIOUS
<1> QED BY <1>4, <1>6, <1>7 DEF X

(* The code of every statement is a piece, and stores exactly what the
   statement binds. *)
LEMMA StmtPiece ==
  ASSUME NEW s \in Statements
  PROVE  Piece(compile_stmt(s), "nothing", Bound(s), s.op = "star")
<1>1. CASE s \in [op : {"import"}, name : Seq(Identifiers) \ {<< >>}, asname : Identifiers]
  <2>1. s.op = "import" /\ s.name \in Seq(Identifiers) \ {<< >>} /\ s.asname \in Identifiers
    BY <1>1
  <2>2. compile_stmt(s) = compile_import(s.name, s.asname)
    BY <2>1 DEF compile_stmt
  <2>3. Bound(s) = {IF s.asname = "" THEN Head(s.name) ELSE s.asname} /\ (s.op = "star") = FALSE
    BY <2>1 DEF Bound
  <2> QED BY <2>1, <2>2, <2>3, ImportPiece
<1>2. CASE s \in [op : {"from"}, level : Nat, name : Seq(Identifiers), aliases : Seq(Identifiers \X Identifiers)]
  <2>1. /\ s.op = "from" /\ s.level \in Nat
        /\ s.name \in Seq(Identifiers) /\ s.aliases \in Seq(Identifiers \X Identifiers)
    BY <1>2
  <2>2. compile_stmt(s) = compile_import_from(s.level, s.name, s.aliases)
    BY <2>1 DEF compile_stmt
  <2>3. Bound(s) = {s.aliases[i][2] : i \in DOMAIN s.aliases} /\ (s.op = "star") = FALSE
    BY <2>1 DEF Bound
  <2> QED BY <2>1, <2>2, <2>3, FromPiece
<1>3. CASE s \in [op : {"star"}, level : Nat, name : Seq(Identifiers)]
  <2>1. s.op = "star" /\ s.level \in Nat /\ s.name \in Seq(Identifiers)
    BY <1>3
  <2> DEFINE A == ImportConsts(s.level, Names_, s.name)
             E == << <<"IMPORT_STAR", 0>> >>
  <2>2. compile_stmt(s) = A \o E
    BY <2>1 DEF compile_stmt
  <2>3. Bound(s) = {} /\ (s.op = "star") = TRUE
    BY <2>1 DEF Bound
  <2>4. Piece(A, "nothing", {}, FALSE) /\ A # << >> /\ Leaves(A, Len(A))
    BY <2>1, ConstsPiece
  <2>5. Piece(E, "module", {}, TRUE)
    BY PopPiece
  <2> HIDE DEF A, E
  <2>6. Piece(A \o E, "nothing", {} \cup {}, FALSE \/ TRUE)
    BY <2>4, <2>5, Concat DEF OnTop
  <2> QED BY <2>2, <2>3, <2>6
<1>4. CASE s \in [op : {"assign"}, target : Identifiers, value : {None, Plain} \cup Literals]
  <2>1. s.op = "assign" /\ s.target \in Identifiers /\ s.value \in Constants
    BY <1>4 DEF Constants, Literals
  <2> DEFINE A == << <<"LOAD_CONST", s.value>> >>
  <2>2. compile_stmt(s) = A \o Store(s.target)
    BY <2>1 DEF compile_stmt
  <2>3. Bound(s) = {s.target} /\ (s.op = "star") = FALSE
    BY <2>1 DEF Bound
  <2>4. Piece(A, "nothing", {}, FALSE) /\ Piece(Store(s.target), "value", {s.target}, FALSE)
    BY <2>1, PopPiece, StorePiece
  <2>5. A # << >> /\ Provides(A, Len(A))
    BY DEF Provides, Op
  <2> HIDE DEF A
  <2>6. Piece(A \o Store(s.target), "nothing", {} \cup {s.target}, FALSE \/ FALSE)
    BY <2>4, <2>5, Concat DEF OnTop
  <2>7. {} \cup {s.target} = {s.target}
    OBVIOUS
  <2> QED BY <2>2, <2>3, <2>6, <2>7
<1>5. CASE s \in [op : {"raise"}]
  <2>1. s.op = "raise"
    BY <1>5
  <2>2. compile_stmt(s) = << <<"RAISE", 0>> >>
    BY <2>1 DEF compile_stmt
  <2>3. Bound(s) = {} /\ (s.op = "star") = FALSE
    BY <2>1 DEF Bound
  <2> QED BY <2>2, <2>3, PopPiece
<1> QED BY <1>1, <1>2, <1>3, <1>4, <1>5 DEF Statements

(* The code of a list of statements, without the HALT behind it. *)
LEMMA BodyPiece ==
  ASSUME NEW body \in Seq(Statements)
  PROVE  Piece(FlattenSeq([i \in DOMAIN body |-> compile_stmt(body[i])]), "nothing",
               BoundBy(body), Stars(body))
<1> DEFINE ss == [i \in DOMAIN body |-> compile_stmt(body[i])]
           n == Len(body)
           X(k) == UNION {Bound(body[i]) : i \in 1..k}
           a(k) == \E i \in 1..k : body[i].op = "star"
           G == [k \in 0..n |-> {c \in Seq(Instructions) : Piece(c, "nothing", X(k), a(k))}]
<1>1. n \in Nat /\ DOMAIN body = 1..n /\ \A i \in 1..n : body[i] \in Statements
  OBVIOUS
<1>2. \A i \in 1..n : compile_stmt(body[i]) \in Seq(Instructions)
  BY <1>1, StmtPiece DEF Piece
<1>3. ss \in Seq(Seq(Instructions)) /\ Len(ss) = n /\ \A i \in 1..n : ss[i] = compile_stmt(body[i])
  BY <1>1, <1>2
<1>4. << >> \in G[0]
  <2>1. Piece(<< >>, "nothing", X(0), a(0))
    BY DEF Piece, Shaped, Unended, Storing, Starring
  <2>2. 0 \in 0..n /\ << >> \in Seq(Instructions)
    BY <1>1
  <2> HIDE DEF X, a
  <2>3. G[0] = {c \in Seq(Instructions) : Piece(c, "nothing", X(0), a(0))}
    BY <2>2
  <2> HIDE DEF G
  <2> QED BY <2>1, <2>2, <2>3
<1>5. ASSUME NEW i \in 1..n, NEW c \in G[i - 1]
      PROVE  c \o ss[i] \in G[i]
  <2>1. i - 1 \in 0..n /\ i \in 0..n
    BY <1>1
  <2>2. c \in Seq(Instructions) /\ Piece(c, "nothing", X(i - 1), a(i - 1))
    BY <2>1
  <2>3. Piece(ss[i], "nothing", Bound(body[i]), body[i].op = "star") /\ ss[i] \in Seq(Instructions)
    BY <1>1, <1>2, <1>3, StmtPiece
  <2>4. \A j : j \in 1..i <=> j \in 1..i - 1 \/ j = i
    BY <1>1
  <2>5. X(i - 1) \cup Bound(body[i]) = X(i)
    BY <2>4
  <2>6. a(i) = (a(i - 1) \/ body[i].op = "star")
    BY <2>4
  <2>7. a(i - 1) \in BOOLEAN /\ (body[i].op = "star") \in BOOLEAN
    OBVIOUS
  <2> DEFINE p == a(i - 1)
             q == (body[i].op = "star")
             d == ss[i]
  <2>8. Piece(c \o ss[i], "nothing", X(i - 1) \cup Bound(body[i]), a(i - 1) \/ body[i].op = "star")
    <3>1. /\ Piece(c, "nothing", X(i - 1), p) /\ Piece(d, "nothing", Bound(body[i]), q)
          /\ p \in BOOLEAN /\ q \in BOOLEAN
      BY <2>2, <2>3, <2>7
    <3> HIDE DEF X, a, ss, p, q, d
    <3>2. Piece(c \o d, "nothing", X(i - 1) \cup Bound(body[i]), p \/ q)
      <4>1. "nothing" \in OnTop /\ "nothing" # "module" /\ "nothing" # "value"
        BY DEF OnTop
      <4> QED BY <3>1, <4>1, Concat
    <3> QED BY <3>2 DEF p, q, d
  <2> HIDE DEF X, a, ss
  <2>9. Piece(c \o ss[i], "nothing", X(i), a(i)) /\ c \o ss[i] \in Seq(Instructions)
    BY <2>5, <2>6, <2>8 DEF Piece
  <2> QED BY <2>1, <2>9
<1> HIDE DEF ss, G
<1>6. FlattenSeq(ss) \in G[n]
  BY <1>3, <1>4, <1>5, FlattenReaches
<1>7. n \in 0..n
  BY <1>1
<1>8. Piece(FlattenSeq(ss), "nothing", X(n), a(n))
  BY <1>6, <1>7 DEF G
<1>9. X(n) = BoundBy(body) /\ a(n) = Stars(body)
  BY <1>1 DEF BoundBy, Stars
<1> HIDE DEF X, a
<1> QED BY <1>8, <1>9 DEF ss

(* The code of a body. *)
Code(c, body) ==
  /\ c \in Seq(Instructions) /\ Len(c) > 0
  /\ \A i \in 1..Len(c) : Op(c, i) = "HALT" <=> i = Len(c)
  /\ Shaped(c, "nothing")
  /\ \A x : Storing(c, x) <=> x \in BoundBy(body)
  /\ Starring(c) <=> Stars(body)

(* What compile makes of every body: each import has its operands, each
   instruction finds on the stack what it needs, the code ends in its only
   HALT, and it stores exactly the names the body binds. *)
LEMMA CompiledCode ==
  ASSUME NEW body \in Seq(Statements)
  PROVE  Code(compile(body), body)
<1> DEFINE C == FlattenSeq([i \in DOMAIN body |-> compile_stmt(body[i])])
           h == <<"HALT", 0>>
           c == C \o <<h>>
           n == Len(C)
<1>1. Piece(C, "nothing", BoundBy(body), Stars(body))
  BY BodyPiece
<1>2. C \in Seq(Instructions) /\ h \in Instructions /\ compile(body) = c /\ h[1] = "HALT"
  BY <1>1 DEF Piece, compile, Instructions
<1> HIDE DEF C, h
<1>3. /\ c \in Seq(Instructions) /\ Len(c) = n + 1 /\ n \in Nat /\ c[n + 1] = h
      /\ \A i \in 1..n : c[i] = C[i]
  BY <1>2
<1> HIDE DEF c, n
<1>4. Len(c) > 0 /\ \A i \in 1..Len(c) : i \in 1..n \/ i = n + 1
  BY <1>3
<1>5. \A i \in 1..Len(c) : Op(c, i) = "HALT" <=> i = Len(c)
  BY <1>1, <1>2, <1>3, <1>4 DEF Piece, Unended, Op, n
<1>6. Shaped(c, "nothing")
  <2> SUFFICES ASSUME NEW i \in 1..Len(c)
               PROVE /\ Op(c, i) = "IMPORT_NAME" =>
                           i > 2 /\ Op(c, i - 1) = "LOAD_CONST" /\ Op(c, i - 2) = "LOAD_CONST" /\ c[i - 2][2][2] \in Nat
                     /\ NeedsModule(c, i) => i > 1 /\ Leaves(c, i - 1)
                     /\ NeedsValue(c, i) => i > 1 /\ Provides(c, i - 1)
    BY DEF Shaped
  <2>1. CASE i = n + 1
    BY <2>1, <1>2, <1>3 DEF Op, NeedsModule, NeedsValue
  <2>2. CASE i \in 1..n
    <3>1. c[i] = C[i] /\ i \in Nat /\ (i > 1 => c[i - 1] = C[i - 1]) /\ (i > 2 => c[i - 2] = C[i - 2])
      BY <2>2, <1>3
    <3>2. /\ Op(C, i) = "IMPORT_NAME" =>
                 i > 2 /\ Op(C, i - 1) = "LOAD_CONST" /\ Op(C, i - 2) = "LOAD_CONST" /\ C[i - 2][2][2] \in Nat
          /\ NeedsModule(C, i) => i > 1 /\ Leaves(C, i - 1)
          /\ NeedsValue(C, i) => i > 1 /\ Provides(C, i - 1)
      BY <2>2, <1>1 DEF Piece, Shaped, n
    <3>3. i > 1 => (Leaves(C, i - 1) => Leaves(c, i - 1))
      <4>1. i > 1 /\ i - 1 > 1 => i > 2 /\ (i - 1) - 1 = i - 2
        BY <3>1
      <4> QED BY <3>1, <4>1 DEF Leaves, Op
    <3>4. i > 2 => i > 1
      BY <3>1
    <3>5. i > 1 => (Provides(C, i - 1) => Provides(c, i - 1))
      BY <3>1, <3>3 DEF Provides, Op
    <3> QED BY <3>1, <3>2, <3>3, <3>4, <3>5 DEF Op, NeedsModule, NeedsValue
  <2> QED BY <2>1, <2>2, <1>4
<1>7. \A i \in 1..n : i \in 1..Len(c)
  BY <1>3
<1>8. \A x : Storing(c, x) <=> Storing(C, x)
  <2>1. ASSUME NEW x, Storing(c, x)  PROVE Storing(C, x)
    <3>1. PICK i \in 1..Len(c) : c[i] = <<"STORE_GLOBAL", x>>
      BY <2>1 DEF Storing
    <3>2. i # n + 1
      BY <3>1, <1>2, <1>3
    <3> QED BY <3>1, <3>2, <1>3, <1>4 DEF Storing, n
  <2>2. ASSUME NEW x, Storing(C, x)  PROVE Storing(c, x)
    BY <2>2, <1>3, <1>7 DEF Storing, n
  <2> QED BY <2>1, <2>2
<1>9. Starring(c) <=> Starring(C)
  BY <1>2, <1>3, <1>4, <1>7 DEF Starring, n, Op
<1> QED BY <1>1, <1>2, <1>3, <1>4, <1>5, <1>6, <1>8, <1>9 DEF Code, Piece

-------------------------------------------------------------------------------
(* The inductive invariant. Values, namespaces and modules are those of a heap. *)
Tags == {"unset", "none", "value", "tuple", "int", "module"}
Values == {v \in Tags \X Nat : v[1] = "module" => v[2] \in 1..Len(modules)} \cup Strings
Namespaces == UNION {[D -> Values] : D \in SUBSET Identifiers}
Records == [name : Seq(Identifiers), file : Seq(Identifiers),
            initialized : BOOLEAN, globals : Namespaces]
Requests == [kind : {"resolve"}, name : Seq(Identifiers), waiting : BOOLEAN]
Bodies == [kind : {"body"}, name : Seq(Identifiers), module : 0..Len(modules), parent : 0..Len(modules),
           code : Seq(Instructions), ip : Nat, stack : Seq(Values), asked : Seq(Identifiers)]

(* The heap and the files of its modules. *)
HeapTyped ==
  /\ globals \in Namespaces /\ modules \in Seq(Records)
  /\ \A n \in DOMAIN sys_modules : n \in Seq(Identifiers) \ {<< >>}
  /\ \A m \in 2..Len(modules) : modules[m].file \in DOMAIN files

(* What waits on top of the stack for the instruction that comes next. *)
StackFits(c) ==
  /\ c.ip > 1 /\ Provides(c.code, c.ip - 1) => Len(c.stack) > 0
  /\ c.ip > 1 /\ Op(c.code, c.ip - 1) = "LOAD_CONST" =>
       Len(c.stack) > 0 /\ c.stack[Len(c.stack)] = c.code[c.ip - 1][2]
  /\ c.ip > 2 /\ Op(c.code, c.ip - 1) = "LOAD_CONST" /\ Op(c.code, c.ip - 2) = "LOAD_CONST" =>
       Len(c.stack) > 1 /\ c.stack[Len(c.stack) - 1] = c.code[c.ip - 2][2]
  /\ c.ip > 1 /\ Leaves(c.code, c.ip - 1) =>
       Len(c.stack) > 0 /\ IsModule(c.stack[Len(c.stack)])
  /\ c.ip > 1 /\ Op(c.code, c.ip - 1) = "IMPORT_FROM" =>
       Len(c.stack) > 1 /\ IsModule(c.stack[Len(c.stack) - 1])

(* The body of a module: whose it is, and what it has bound so far. *)
Child(name, parent) ==
  IF Len(name) = 1 THEN parent = 0
  ELSE parent # 0 /\ modules[parent].name = Parent(name)
OfModule(c) ==
  /\ c.name # << >> /\ c.name \in DOMAIN sys_modules
  /\ modules[c.module].name = c.name /\ Child(c.name, c.parent)
  /\ c.module # 1
  /\ Code(c.code, BodyOf(c.module))
  /\ \A i \in 1..c.ip - 1 :
       Op(c.code, i) = "STORE_GLOBAL" => c.code[i][2] \in DOMAIN modules[c.module].globals
OfScript(c) == c.name = << >> /\ c.parent = 0 /\ \E body \in Seq(Statements) : Code(c.code, body)

(* A call that fits. *)
BodyFits(c) ==
  /\ c \in Bodies /\ c.ip \in 1..Len(c.code) /\ StackFits(c)
  /\ IF c.module = 0 THEN OfScript(c) ELSE OfModule(c)
CallFits(c) == IF c.kind = "resolve" THEN c \in Requests /\ c.name # << >> ELSE BodyFits(c)

(* The name a call has asked for: a body keeps it. *)
Opcode(c) == Op(c.code, c.ip)
TopOf(c) == c.stack[Len(c.stack)]
Asked(c) ==
  IF c.kind = "resolve" THEN Parent(c.name) ELSE c.asked
Waits(c) == IF c.kind = "resolve" THEN c.waiting /\ Len(c.name) > 1
            ELSE Opcode(c) \in {"IMPORT_NAME", "IMPORT_FROM"}

(* The script is the first call, and every call but the last has asked for the
   name of the one above it.                                                 *)
CallsFit ==
  /\ calls \in Seq(Requests \cup Bodies) /\ Len(calls) > 0
  /\ \A i \in 1..Len(calls) : CallFits(calls[i])
  /\ calls[1].kind = "body" /\ calls[1].module = 0
  /\ \A i \in 2..Len(calls) : calls[i].kind = "body" => calls[i].module # 0
  /\ \A i \in 1..Len(calls) - 1 : Waits(calls[i]) /\ calls[i + 1].name = Asked(calls[i])

(* What the call that waits is told. *)
ReplyFits ==
  /\ reply[1] = "module" =>
       Waits(top) /\ modules[reply[2]].name = Asked(top) /\ Asked(top) \in DOMAIN sys_modules
  /\ Failed(reply) /\ top.kind = "resolve" => Waits(top)
  /\ reply # Err("internal")

(* Bodies nest in the order of their modules, and none is initialized. *)
BodiesNest ==
  /\ \A i, j \in 1..Len(calls) :
       i < j /\ calls[i].kind = "body" /\ calls[j].kind = "body" =>
         calls[i].module < calls[j].module
  /\ \A i \in 2..Len(calls) : calls[i].kind = "body" => ~modules[calls[i].module].initialized

(* The cache has the name of every module, and the first segment of every name. *)
CacheClosed ==
  /\ Len(modules) > 0
  /\ \A m \in 1..Len(modules) : modules[m].name \in DOMAIN sys_modules
  /\ \A n \in DOMAIN sys_modules : <<n[1]>> \in DOMAIN sys_modules

(* An initialized module has bound what its body binds. *)
RunsBound ==
  \A m \in 2..Len(modules) :
    modules[m].initialized => BoundBy(BodyOf(m)) \subseteq DOMAIN modules[m].globals

ImportInv == /\ TypeOK /\ HeapTyped /\ CallsFit /\ ReplyFits
             /\ BodiesNest /\ CacheClosed /\ RunsBound

-------------------------------------------------------------------------------
(* A value that is a module is one of the heap. *)
LEMMA ModuleOfHeap ==
  ASSUME NEW v \in Values, IsModule(v)
  PROVE  v[2] \in 1..Len(modules)
<1>1. \A w \in Strings : w[1] = "str"
  BY DEF Strings
<1>2. v \notin Strings
  BY <1>1 DEF IsModule
<1> QED BY <1>2 DEF Values, IsModule

(* Sequences that are changed at a place, grow at their end or lose it. *)
LEMMA SeqGrows ==
  ASSUME NEW S, NEW T, S \subseteq T, NEW s \in Seq(S)
  PROVE  s \in Seq(T)
OBVIOUS

(* An element replaced at m: its place alone differs. *)
LEMMA SeqSet ==
  ASSUME NEW T, NEW s \in Seq(T), NEW m \in 1..Len(s), NEW x \in T,
         NEW q, q = [s EXCEPT ![m] = x]
  PROVE  /\ q \in Seq(T) /\ Len(q) = Len(s) /\ q[m] = x
         /\ \A i \in 1..Len(s) : i # m => q[i] = s[i]
OBVIOUS

(* An element pushed: the others stay in place. *)
LEMMA SeqPush ==
  ASSUME NEW T, NEW s \in Seq(T), NEW x \in T, NEW q, q = Append(s, x)
  PROVE  /\ q \in Seq(T) /\ Len(q) = Len(s) + 1 /\ q[Len(s) + 1] = x
         /\ \A i \in 1..Len(s) : q[i] = s[i]
         /\ Len(s) \in Nat
OBVIOUS

(* The last n elements dropped: the others stay in place. *)
LEMMA SeqTrim ==
  ASSUME NEW T, NEW s \in Seq(T), NEW n \in Nat, n <= Len(s),
         NEW q, q = SubSeq(s, 1, Len(s) - n)
  PROVE  /\ q \in Seq(T) /\ Len(q) = Len(s) - n
         /\ \A i \in 1..Len(s) - n : q[i] = s[i]
         /\ Len(s) \in Nat
OBVIOUS

(* A sequence is the function of its places. *)
LEMMA SeqFunction ==
  ASSUME NEW T, NEW q \in Seq(T), NEW n \in Nat, Len(q) = n
  PROVE  q = [i \in 1..n |-> q[i]]
OBVIOUS

(* A name of several parts has a part and not just one. *)
LEMMA MoreThanOne ==
  ASSUME NEW k \in Nat
  PROVE  k > 1 <=> k > 0 /\ k # 1
OBVIOUS

-------------------------------------------------------------------------------
(* What no step takes back. *)
Grows ==
  /\ files' = files
  /\ Len(modules') >= Len(modules)
  /\ \A m \in 1..Len(modules) :
       /\ modules'[m].name = modules[m].name /\ modules'[m].file = modules[m].file
       /\ DOMAIN modules[m].globals \subseteq DOMAIN modules'[m].globals
  /\ DOMAIN sys_modules \subseteq DOMAIN sys_modules'

(* A heap that grows keeps every value, namespace, module and call that is
   in it. *)
LEMMA SetsGrow ==
  ASSUME Len(modules) \in Nat, Len(modules') \in Nat, Len(modules') >= Len(modules)
  PROVE  /\ Values \subseteq Values' /\ Namespaces \subseteq Namespaces'
         /\ Records \subseteq Records' /\ Requests = Requests'
         /\ Bodies \subseteq Bodies'
<1>1. 1..Len(modules) \subseteq 1..Len(modules') /\ 0..Len(modules) \subseteq 0..Len(modules')
  OBVIOUS
<1>2. Values \subseteq Values'
  BY <1>1 DEF Values
<1>3. Namespaces \subseteq Namespaces'
  <2>1. ASSUME NEW g \in Namespaces  PROVE g \in Namespaces'
    <3>1. PICK D \in SUBSET Identifiers : g \in [D -> Values]
      BY DEF Namespaces
    <3>2. g \in [D -> Values']
      BY <1>2, <3>1
    <3> QED BY <3>2 DEF Namespaces
  <2> QED BY <2>1
<1>4. Records \subseteq Records'
  BY <1>3 DEF Records
<1>5. Seq(Values) \subseteq Seq(Values')
  BY <1>2, SeqGrows
<1>6. Bodies \subseteq Bodies'
  BY <1>1, <1>5 DEF Bodies
<1> QED BY <1>2, <1>3, <1>4, <1>6 DEF Requests

(* What is known of a namespace ... *)
LEMMA NamespaceType ==
  ASSUME NEW g \in Namespaces
  PROVE  /\ DOMAIN g \subseteq Identifiers /\ g \in [DOMAIN g -> Values]
         /\ \A x \in DOMAIN g : g[x] \in Values
<1>1. PICK D \in SUBSET Identifiers : g \in [D -> Values]
  BY DEF Namespaces
<1> QED BY <1>1

(* ... what makes one ... *)
LEMMA NamespaceWhen ==
  ASSUME NEW D \in SUBSET Identifiers, NEW g \in [D -> Values]
  PROVE  g \in Namespaces
BY DEF Namespaces

(* ... and one that grows. *)
LEMMA InsertType ==
  ASSUME NEW g \in Namespaces, NEW x \in Identifiers, NEW v \in Values
  PROVE  /\ Insert(g, x, v) \in Namespaces
         /\ DOMAIN Insert(g, x, v) = DOMAIN g \cup {x}
<1>1. DOMAIN g \cup {x} \in SUBSET Identifiers /\ \A y \in DOMAIN g : g[y] \in Values
  BY NamespaceType
<1>2. Insert(g, x, v) \in [DOMAIN g \cup {x} -> Values]
  BY <1>1 DEF Insert
<1> QED BY <1>1, <1>2, NamespaceWhen DEF Insert

(* The facts about a call that has its operands. *)
LEMMA HasOperands ==
  ASSUME HeapTyped, NEW c, CallFits(c), c.kind = "body"
  PROVE  /\ c \in Bodies /\ c.code \in Seq(Instructions) /\ c.stack \in Seq(Values)
         /\ c.ip \in 1..Len(c.code) /\ c.code[c.ip] \in Instructions
         /\ c.name \in Seq(Identifiers) /\ c.module \in 0..Len(modules) /\ c.parent \in 0..Len(modules)
         /\ StackFits(c) /\ Shaped(c.code, "nothing")
         /\ Opcode(c) = "HALT" <=> c.ip = Len(c.code)
<1>1. BodyFits(c) /\ c \in Bodies
  BY DEF CallFits, BodyFits
<1>2. Shaped(c.code, "nothing") /\ \A i \in 1..Len(c.code) : Op(c.code, i) = "HALT" <=> i = Len(c.code)
  <2>1. PICK body : Code(c.code, body)
    BY <1>1 DEF BodyFits, OfScript, OfModule
  <2> QED BY <2>1 DEF Code
<1>3. /\ c.code \in Seq(Instructions) /\ c.stack \in Seq(Values) /\ c.ip \in 1..Len(c.code)
      /\ c.name \in Seq(Identifiers) /\ c.module \in 0..Len(modules) /\ c.parent \in 0..Len(modules)
  BY <1>1 DEF BodyFits, Bodies
<1>4. c.code[c.ip] \in Instructions
  BY <1>3
<1>5. Opcode(c) = "HALT" <=> c.ip = Len(c.code)
  BY <1>2, <1>3 DEF Opcode
<1> QED BY <1>1, <1>2, <1>3, <1>4, <1>5 DEF BodyFits

(* A call that waits has what it asks for on the stack and in the code. *)
LEMMA AskedBy ==
  ASSUME HeapTyped, NEW c, CallFits(c), c.kind = "body", Waits(c)
  PROVE  /\ Opcode(c) = "IMPORT_NAME" =>
              /\ Len(c.stack) > 1
              /\ c.stack[Len(c.stack) - 1] = c.code[c.ip - 2][2]
              /\ c.stack[Len(c.stack) - 1][2] \in Nat
              /\ c.code[c.ip][2] \in Seq(Identifiers)
         /\ Opcode(c) = "IMPORT_FROM" =>
              /\ Len(c.stack) > 0 /\ IsModule(TopOf(c)) /\ TopOf(c)[2] \in 1..Len(modules)
              /\ c.code[c.ip][2] \in Identifiers
<1>1. /\ c.code \in Seq(Instructions) /\ c.stack \in Seq(Values) /\ c.ip \in 1..Len(c.code)
      /\ c.code[c.ip] \in Instructions /\ StackFits(c) /\ Shaped(c.code, "nothing")
  BY HasOperands
<1>2. ASSUME Opcode(c) = "IMPORT_NAME"
      PROVE  /\ Len(c.stack) > 1
             /\ c.stack[Len(c.stack) - 1] = c.code[c.ip - 2][2]
             /\ c.stack[Len(c.stack) - 1][2] \in Nat
             /\ c.code[c.ip][2] \in Seq(Identifiers)
  <2>1. /\ c.ip > 2 /\ Op(c.code, c.ip - 1) = "LOAD_CONST"
        /\ Op(c.code, c.ip - 2) = "LOAD_CONST" /\ c.code[c.ip - 2][2][2] \in Nat
    BY <1>1, <1>2 DEF Shaped, Opcode
  <2>2. Len(c.stack) > 1 /\ c.stack[Len(c.stack) - 1] = c.code[c.ip - 2][2]
    BY <1>1, <2>1 DEF StackFits
  <2>3. c.code[c.ip][2] \in Seq(Identifiers)
    BY <1>1, <1>2 DEF Instructions, Opcode, Op
  <2> QED BY <2>1, <2>2, <2>3
<1>3. ASSUME Opcode(c) = "IMPORT_FROM"
      PROVE  /\ Len(c.stack) > 0 /\ IsModule(TopOf(c)) /\ TopOf(c)[2] \in 1..Len(modules)
             /\ c.code[c.ip][2] \in Identifiers
  <2>1. c.ip > 1 /\ Leaves(c.code, c.ip - 1)
    BY <1>1, <1>3 DEF Shaped, Opcode, NeedsModule
  <2>2. Len(c.stack) > 0 /\ IsModule(TopOf(c))
    BY <1>1, <2>1 DEF StackFits, TopOf
  <2>3. TopOf(c) \in Values
    BY <1>1, <2>2 DEF TopOf
  <2>4. TopOf(c)[2] \in 1..Len(modules)
    BY <2>2, <2>3, ModuleOfHeap
  <2>5. c.code[c.ip][2] \in Identifiers
    BY <1>1, <1>3 DEF Instructions, Opcode, Op
  <2> QED BY <2>2, <2>4, <2>5
<1> QED BY <1>2, <1>3

(* ... so that the name it waits for stays the same while the heap grows. *)
LEMMA AskedStays ==
  ASSUME NEW c
  PROVE  Asked(c)' = Asked(c)
BY DEF Asked, Parent

(* What fits goes on to fit. *)
LEMMA FitsOn ==
  ASSUME HeapTyped, HeapTyped', Grows, NEW c, CallFits(c)
  PROVE  CallFits(c)'
<1>0. Len(modules) \in Nat /\ Len(modules') \in Nat
  BY DEF HeapTyped
<1>1. CASE c.kind = "resolve"
  BY <1>1 DEF CallFits, Requests
<1>2. CASE c.kind # "resolve"
  <2>1. BodyFits(c) /\ c \in Bodies
    BY <1>2 DEF CallFits, BodyFits
  <2>2. c \in Bodies'
    BY <1>0, <2>1, SetsGrow DEF Grows
  <2>3. c.module \in 0..Len(modules) /\ c.parent \in 0..Len(modules)
    BY <2>1 DEF Bodies
  <2>4. StackFits(c)'
    BY <2>1 DEF BodyFits, StackFits
  <2>5. CASE c.module = 0
    BY <1>2, <2>1, <2>2, <2>4, <2>5 DEF CallFits, BodyFits, OfScript
  <2>6. CASE c.module # 0
    <3>1. OfModule(c)
      BY <2>1, <2>6 DEF BodyFits
    <3>2. Child(c.name, c.parent)'
      <4>1. Child(c.name, c.parent)
        BY <3>1 DEF OfModule
      <4>2. CASE Len(c.name) = 1
        BY <4>1, <4>2 DEF Child
      <4>3. CASE Len(c.name) # 1
        <5>1. c.parent \in 1..Len(modules) /\ modules[c.parent].name = Parent(c.name)
          BY <4>1, <4>3, <2>3, <1>0 DEF Child
        <5>2. modules'[c.parent].name = modules[c.parent].name
          BY <5>1 DEF Grows
        <5> QED BY <5>1, <5>2, <4>3 DEF Child, Parent
      <4> QED BY <4>2, <4>3
    <3>3. c.module \in 1..Len(modules)
      BY <2>3, <2>6, <1>0
    <3>4. /\ modules'[c.module].name = modules[c.module].name
          /\ modules'[c.module].file = modules[c.module].file
          /\ DOMAIN modules[c.module].globals \subseteq DOMAIN modules'[c.module].globals
      BY <3>3 DEF Grows
    <3>5. BodyOf(c.module)' = BodyOf(c.module)
      BY <3>4 DEF BodyOf, Grows
    <3>6. /\ c.name # << >> /\ c.name \in DOMAIN sys_modules' /\ c.module # 1
          /\ modules'[c.module].name = c.name
      BY <3>1, <3>4 DEF OfModule, Grows
    <3>7. Code(c.code, BodyOf(c.module)')
      BY <3>1, <3>5 DEF OfModule
    <3>8. \A i \in 1..c.ip - 1 :
            Op(c.code, i) = "STORE_GLOBAL" => c.code[i][2] \in DOMAIN modules'[c.module].globals
      BY <3>1, <3>4 DEF OfModule
    <3>9. OfModule(c)'
      BY <3>2, <3>6, <3>7, <3>8 DEF OfModule
    <3> QED BY <1>2, <2>1, <2>2, <2>4, <2>6, <3>9 DEF CallFits, BodyFits
  <2> QED BY <2>5, <2>6
<1> QED BY <1>1, <1>2

-------------------------------------------------------------------------------
(* The calls fit after a step that leaves those below the k-th alone, puts d
   in its place, and above it has at most one request. *)
LEMMA CallsStep ==
  ASSUME HeapTyped, HeapTyped', Grows, CallsFit, NEW k \in 1..Len(calls),
         calls' \in Seq((Requests \cup Bodies)'),
         \A i \in 1..k - 1 : calls'[i] = calls[i],
         NEW d, calls'[k] = d, CallFits(d)', d.name = calls[k].name,
         k = 1 => d.kind = "body" /\ d.module = 0,
         k > 1 /\ d.kind = "body" => d.module # 0,
         \/ Len(calls') = k
         \/ /\ Len(calls') = k + 1 /\ Waits(d) /\ calls'[k + 1].kind = "resolve"
            /\ CallFits(calls[k + 1])' /\ calls'[k + 1].name = Asked(d)'
  PROVE  CallsFit'
<1>0. k \in Nat /\ k > 0 /\ Len(calls') \in {k, k + 1} /\ Len(calls) \in Nat
  BY DEF CallsFit
<1>1. ASSUME NEW i \in 1..k - 1
      PROVE  /\ CallFits(calls[i])' /\ Waits(calls'[i])
             /\ calls'[i + 1].name = Asked(calls[i])'
  <2>0. i \in 1..Len(calls) /\ i \in 1..Len(calls) - 1 /\ (i + 1 \in 1..k - 1 \/ i + 1 = k)
    BY <1>0
  <2> PICK c : c = calls[i]
    OBVIOUS
  <2>1. CallFits(c) /\ Waits(c) /\ calls[i + 1].name = Asked(c)
    BY <2>0 DEF CallsFit
  <2>2. CallFits(c)' /\ Asked(c)' = Asked(c)
    BY <2>1, FitsOn, AskedStays
  <2>3. calls'[i] = c
    OBVIOUS
  <2>4. calls'[i + 1].name = calls[i + 1].name
    BY <2>0
  <2> QED BY <2>1, <2>2, <2>3, <2>4
<1>2. ASSUME NEW i \in 1..Len(calls')  PROVE CallFits(calls[i])'
  <2>1. i \in 1..k - 1 \/ i = k \/ (i = k + 1 /\ Len(calls') = k + 1)
    BY <1>0
  <2> QED BY <2>1, <1>1
<1>3. calls'[1].kind = "body" /\ calls'[1].module = 0
  <2>1. CASE k = 1
    BY <2>1
  <2>2. CASE k # 1
    <3>1. 1 \in 1..k - 1
      BY <2>2, <1>0
    <3> QED BY <3>1 DEF CallsFit
  <2> QED BY <2>1, <2>2
<1>4. ASSUME NEW i \in 2..Len(calls'), calls'[i].kind = "body"  PROVE calls'[i].module # 0
  <2>1. i \in 1..k - 1 \/ i = k \/ (i = k + 1 /\ Len(calls') = k + 1)
    BY <1>0
  <2>2. CASE i \in 1..k - 1
    <3>1. calls'[i] = calls[i] /\ i \in 2..Len(calls)
      BY <2>2, <1>0
    <3> QED BY <3>1, <1>4 DEF CallsFit
  <2>3. CASE i = k
    BY <2>3, <1>4
  <2>4. CASE i = k + 1 /\ Len(calls') = k + 1
    BY <2>4, <1>4, <1>0
  <2> QED BY <2>1, <2>2, <2>3, <2>4
<1>5. ASSUME NEW i \in 1..Len(calls') - 1
      PROVE  Waits(calls'[i]) /\ calls'[i + 1].name = Asked(calls[i])'
  <2>1. i \in 1..k - 1 \/ (i = k /\ Len(calls') = k + 1)
    BY <1>0
  <2>2. CASE i \in 1..k - 1
    BY <2>2, <1>1
  <2>3. CASE i = k /\ Len(calls') = k + 1
    BY <2>3, <1>0
  <2> QED BY <2>1, <2>2, <2>3
<1>6. Len(calls') > 0
  BY <1>0
<1>7. /\ \A i \in 1..Len(calls') : CallFits(calls[i])'
      /\ \A i \in 2..Len(calls') : calls'[i].kind = "body" => calls'[i].module # 0
      /\ \A i \in 1..Len(calls') - 1 : Waits(calls'[i]) /\ calls'[i + 1].name = Asked(calls[i])'
  BY <1>2, <1>4, <1>5
<1> QED BY <1>3, <1>6, <1>7 DEF CallsFit

(* Bodies nest after a step that begins none and marks none that runs as
   initialized. *)
LEMMA BodiesStep ==
  ASSUME BodiesNest, Len(calls) \in Nat, Len(calls') \in Nat,
         \A i \in 1..Len(calls') :
           calls'[i].kind = "body" =>
             i \in 1..Len(calls) /\ calls[i].kind = "body" /\ calls'[i].module = calls[i].module,
         \A i \in 2..Len(calls') :
           calls'[i].kind = "body" =>
             modules'[calls'[i].module].initialized = modules[calls'[i].module].initialized
  PROVE  BodiesNest'
<1>1. ASSUME NEW i \in 1..Len(calls'), NEW j \in 1..Len(calls'), i < j,
             calls'[i].kind = "body", calls'[j].kind = "body"
      PROVE  calls'[i].module < calls'[j].module
  BY <1>1 DEF BodiesNest
<1>2. ASSUME NEW i \in 2..Len(calls'), calls'[i].kind = "body"
      PROVE  ~modules'[calls'[i].module].initialized
  <2>1. i \in 1..Len(calls')
    OBVIOUS
  <2>2. calls[i].kind = "body" /\ calls'[i].module = calls[i].module /\ i \in 2..Len(calls)
    BY <2>1, <1>2
  <2>3. ~modules[calls[i].module].initialized
    BY <2>2 DEF BodiesNest
  <2>4. modules'[calls'[i].module].initialized = modules[calls'[i].module].initialized
    BY <1>2
  <2> QED BY <2>2, <2>3, <2>4
<1> QED BY <1>1, <1>2 DEF BodiesNest

-------------------------------------------------------------------------------
(* Steps that begin no module, and those of them that mark none as initialized. *)
Calm ==
  /\ Grows /\ HeapTyped' /\ Len(modules') = Len(modules)
  /\ sys_modules' = sys_modules /\ heap_lost' \in BOOLEAN
Quiet ==
  /\ Calm /\ Grows /\ HeapTyped' /\ Len(modules') = Len(modules)
  /\ \A m \in 1..Len(modules) : modules'[m].initialized = modules[m].initialized

(* A step that leaves the modules alone is quiet, even if it loses the heap. *)
LEMMA LostQuiet ==
  ASSUME ImportInv, UNCHANGED <<files, globals, modules, sys_modules>>, heap_lost' \in BOOLEAN
  PROVE  Quiet
<1>1. UNCHANGED <<files, globals, modules, sys_modules>> /\ HeapTyped
  BY DEF ImportInv
<1>2. HeapTyped'
  BY <1>1 DEF HeapTyped, Records, Namespaces, Values
<1> QED BY <1>1, <1>2 DEF Quiet, Calm, Grows, HeapTyped

(* A step that leaves the heap alone is quiet. *)
LEMMA StillQuiet ==
  ASSUME ImportInv, UNCHANGED <<files, heap>>
  PROVE  Quiet
<1>1. UNCHANGED <<files, globals, modules, sys_modules, heap_lost>> /\ heap_lost \in BOOLEAN
  BY DEF heap, ImportInv, TypeOK
<1> QED BY <1>1, LostQuiet

(* A calm step keeps the cache closed. *)
LEMMA CalmKeeps ==
  ASSUME ImportInv, Calm
  PROVE  /\ CacheClosed' /\ FilesTyped'
         /\ \A n \in DOMAIN sys_modules' : /\ sys_modules'[n] \in DOMAIN modules'
                                           /\ modules'[sys_modules'[n]].name = n
         /\ heap_lost' \in BOOLEAN
<1>1. /\ TypeOK /\ HeapTyped /\ HeapTyped' /\ Grows /\ CacheClosed /\ RunsBound
      /\ DOMAIN modules = 1..Len(modules) /\ DOMAIN modules' = 1..Len(modules)
      /\ sys_modules' = sys_modules /\ heap_lost' \in BOOLEAN
      /\ Len(modules') = Len(modules)
  BY DEF Calm, ImportInv, HeapTyped
<1>2. CacheClosed'
  BY <1>1 DEF CacheClosed, Grows
<1>4. FilesTyped'
  BY <1>1 DEF TypeOK, FilesTyped, Grows
<1>5. \A n \in DOMAIN sys_modules' : /\ sys_modules'[n] \in DOMAIN modules'
                                     /\ modules'[sys_modules'[n]].name = n
  BY <1>1 DEF TypeOK, Grows
<1> QED BY <1>1, <1>2, <1>4, <1>5

(* A quiet step keeps what an initialized module has bound. *)
LEMMA QuietKeeps ==
  ASSUME ImportInv, Quiet
  PROVE  RunsBound'
<1>1. /\ HeapTyped /\ HeapTyped' /\ Grows /\ RunsBound
      /\ \A m \in 1..Len(modules) : modules'[m].initialized = modules[m].initialized
      /\ Len(modules') = Len(modules)
  BY DEF Quiet, ImportInv
<1>2. RunsBound'
  <2> SUFFICES ASSUME NEW m \in 2..Len(modules), modules'[m].initialized
               PROVE  BoundBy(BodyOf(m)') \subseteq DOMAIN modules'[m].globals
    BY <1>1 DEF RunsBound
  <2>1. m \in 1..Len(modules)
    OBVIOUS
  <2>2. BodyOf(m)' = BodyOf(m) /\ DOMAIN modules[m].globals \subseteq DOMAIN modules'[m].globals
    BY <1>1, <2>1 DEF Grows, BodyOf
  <2>3. BoundBy(BodyOf(m)) \subseteq DOMAIN modules[m].globals
    BY <1>1, <2>1 DEF RunsBound
  <2> QED BY <2>2, <2>3
<1> QED BY <1>2

(* The type invariant, from its parts. *)
Statuses == {"running", "done", "error", "panic", "overflow"}

(* The type invariant follows from the parts of the inductive one. *)
LEMMA TypeWhen ==
  ASSUME HeapTyped', CallsFit', FilesTyped',
         \A n \in DOMAIN sys_modules' : /\ sys_modules'[n] \in DOMAIN modules'
                                        /\ modules'[sys_modules'[n]].name = n,
         heap_lost' \in BOOLEAN, reply' \in Results', status' \in Statuses
  PROVE  TypeOK'
<1>1. \A m \in DOMAIN modules' : modules'[m].initialized \in BOOLEAN
  <2>1. \A m \in DOMAIN modules' : modules'[m] \in Records'
    BY DEF HeapTyped
  <2> QED BY <2>1 DEF Records
<1>2. DOMAIN modules' = 1..Len(modules') /\ Len(modules') \in Nat
  BY DEF HeapTyped
<1>3. calls' # << >> /\ DOMAIN calls' = 1..Len(calls')
  BY DEF CallsFit
<1>4. ASSUME NEW i \in DOMAIN calls'
      PROVE  \/ calls'[i].kind = "resolve" /\ calls'[i].waiting \in BOOLEAN
             \/ /\ calls'[i].kind = "body"
                /\ calls'[i].module \in DOMAIN modules' \cup {0}
                /\ calls'[i].parent \in DOMAIN modules' \cup {0}
  <2>1. CallFits(calls[i])'
    BY <1>3 DEF CallsFit
  <2>2. CASE calls'[i].kind = "resolve"
    <3>1. calls'[i] \in Requests'
      BY <2>1, <2>2 DEF CallFits
    <3> QED BY <2>2, <3>1 DEF Requests
  <2>3. CASE calls'[i].kind # "resolve"
    <3>1. calls'[i] \in Bodies'
      BY <2>1, <2>3 DEF CallFits, BodyFits
    <3>2. /\ calls'[i].kind = "body" /\ calls'[i].module \in 0..Len(modules')
          /\ calls'[i].parent \in 0..Len(modules')
      BY <3>1 DEF Bodies
    <3>3. 0..Len(modules') = DOMAIN modules' \cup {0}
      BY <1>2
    <3> QED BY <3>2, <3>3
  <2> QED BY <2>2, <2>3
<1> QED BY <1>1, <1>3, <1>4 DEF TypeOK, Statuses

(* The replies that fit: none, an Err, and the module that the call below
   asked for. *)
LEMMA ReplyStep ==
  ASSUME \/ reply' = Unset
         \/ \E e \in Errors \ {"internal"} :
              reply' = Err(e) /\ (calls'[Len(calls')].kind = "resolve" => Waits(calls'[Len(calls')]))
         \/ \E m \in DOMAIN modules' :
              /\ reply' = Module(m) /\ Waits(calls'[Len(calls')])
              /\ modules'[m].name = Asked(calls[Len(calls)])'
              /\ modules'[m].name \in DOMAIN sys_modules'
  PROVE  ReplyFits' /\ reply' \in Results'
<1>1. CASE reply' = Unset
  BY <1>1 DEF ReplyFits, Results, Unset, Failed, Err
<1>2. ASSUME NEW e \in Errors \ {"internal"}, reply' = Err(e),
             calls'[Len(calls')].kind = "resolve" => Waits(calls'[Len(calls')])
      PROVE  ReplyFits' /\ reply' \in Results'
  <2>1. reply'[1] = "err" /\ reply' # <<"err", "internal">> /\ reply' \in {"err"} \X Errors
    BY <1>2 DEF Err
  <2> QED BY <1>2, <2>1 DEF ReplyFits, Results, Err, top
<1>3. ASSUME NEW m \in DOMAIN modules', reply' = Module(m), Waits(calls'[Len(calls')]),
             modules'[m].name = Asked(calls[Len(calls)])', modules'[m].name \in DOMAIN sys_modules'
      PROVE  ReplyFits' /\ reply' \in Results'
  <2>1. reply' = <<"module", m>> /\ reply'[1] = "module" /\ reply'[2] = m
    BY <1>3 DEF Module
  <2>2. reply' # <<"err", "internal">> /\ reply' \in {"module"} \X DOMAIN modules'
    BY <2>1
  <2> QED BY <1>3, <2>1, <2>2 DEF ReplyFits, Results, Err, top, Failed
<1> QED BY <1>1, <1>2, <1>3

(* What is left to show of a quiet step. *)
LEMMA QuietStep ==
  ASSUME ImportInv, Quiet, CallsFit', BodiesNest', ReplyFits', reply' \in Results',
         status' \in Statuses
  PROVE  ImportInv'
BY CalmKeeps, QuietKeeps, TypeWhen DEF ImportInv, Quiet

(* The call that runs. *)
LEMMA TopFits ==
  ASSUME ImportInv
  PROVE  /\ Len(calls) \in Nat /\ Len(calls) > 0 /\ Len(calls) \in 1..Len(calls)
         /\ calls \in Seq(Requests \cup Bodies) /\ top \in Requests \cup Bodies
         /\ CallFits(top) /\ HeapTyped /\ CallsFit /\ BodiesNest
         /\ status \in Statuses /\ reply \in Results /\ heap_lost \in BOOLEAN
         /\ Len(modules) \in Nat /\ DOMAIN modules = 1..Len(modules)
         /\ top.kind = "resolve" \/ top.kind = "body"
<1>1. /\ Len(calls) \in Nat /\ Len(calls) > 0 /\ calls \in Seq(Requests \cup Bodies)
      /\ \A i \in 1..Len(calls) : CallFits(calls[i])
  BY DEF ImportInv, CallsFit
<1>2. Len(calls) \in 1..Len(calls)
  BY <1>1
<1>3. top \in Requests \cup Bodies /\ CallFits(top)
  BY <1>1, <1>2 DEF top
<1>4. top.kind = "resolve" \/ top.kind = "body"
  BY <1>3 DEF Requests, Bodies
<1> QED BY <1>1, <1>2, <1>3, <1>4 DEF ImportInv, TypeOK, Statuses, HeapTyped

(* The call that runs is replaced by one that goes on, or stays. *)
LEMMA Going ==
  ASSUME ImportInv, Quiet, NEW d, CallFits(d)', d \in (Requests \cup Bodies)',
         d.kind = top.kind, d.name = top.name,
         d.kind = "body" => d.module = top.module,
         \/ calls' = WithTop(d)
         \/ \E r : /\ calls' = Append(WithTop(d), r) /\ Waits(d) /\ r \in Requests'
                   /\ CallFits(r)' /\ r.kind = "resolve" /\ r.name = Asked(d)'
  PROVE  /\ CallsFit' /\ BodiesNest'
         /\ calls' = WithTop(d) => Len(calls') = Len(calls) /\ calls'[Len(calls')] = d
<1> PICK n : n = Len(calls)
  OBVIOUS
<1> DEFINE T == (Requests \cup Bodies)'
           q == [calls EXCEPT ![n] = d]
<1>1. /\ n \in Nat /\ n \in 1..n /\ calls \in Seq(Requests \cup Bodies)
      /\ HeapTyped /\ HeapTyped' /\ Grows /\ CallsFit /\ BodiesNest
      /\ Len(modules) \in Nat /\ Len(modules') = Len(modules) /\ n > 0
  BY TopFits DEF Quiet
<1>2. calls \in Seq(T)
  <2>1. Requests \cup Bodies \subseteq T
    BY <1>1, SetsGrow
  <2> HIDE DEF T
  <2> QED BY <1>1, <2>1, SeqGrows
<1>3. d \in T
  OBVIOUS
<1>4. WithTop(d) = q
  BY DEF WithTop
<1> HIDE DEF T, q
<1>5. q \in Seq(T) /\ Len(q) = n /\ q[n] = d /\ \A i \in 1..n : i # n => q[i] = calls[i]
  BY <1>1, <1>2, <1>3, SeqSet DEF q
<1>6. \A i \in 1..n - 1 : i \in 1..n /\ i # n
  BY <1>1
<1>7. /\ n = 1 => d.kind = "body" /\ d.module = 0
      /\ n > 1 /\ d.kind = "body" => d.module # 0
  <2>1. n = 1 => top.kind = "body" /\ top.module = 0
    BY <1>1 DEF CallsFit, top
  <2>2. n > 1 /\ top.kind = "body" => top.module # 0
    <3>1. n > 1 => n \in 2..n
      BY <1>1
    <3> QED BY <3>1, <1>1 DEF CallsFit, top
  <2> QED BY <2>1, <2>2
<1>8. /\ calls' \in Seq(T) /\ \A i \in 1..n - 1 : calls'[i] = calls[i]
      /\ calls'[n] = d
      /\ \/ Len(calls') = n
         \/ /\ Len(calls') = n + 1 /\ Waits(d) /\ calls'[n + 1].kind = "resolve"
            /\ CallFits(calls[n + 1])' /\ calls'[n + 1].name = Asked(d)'
  <2>1. CASE calls' = WithTop(d)
    BY <2>1, <1>4, <1>5, <1>6
  <2>2. CASE calls' # WithTop(d)
    <3>0. PICK r : /\ calls' = Append(WithTop(d), r) /\ Waits(d) /\ r \in Requests'
                   /\ CallFits(r)' /\ r.kind = "resolve" /\ r.name = Asked(d)'
      BY <2>2
    <3>1. r \in T
      BY <3>0 DEF T
    <3>2. /\ calls' \in Seq(T) /\ Len(calls') = n + 1 /\ calls'[n + 1] = r
          /\ \A i \in 1..n : calls'[i] = q[i]
      BY <3>0, <1>4, <1>5, <3>1, SeqPush
    <3>3. n \in 1..n /\ \A i \in 1..n - 1 : i \in 1..n
      BY <1>1
    <3>4. CallFits(calls[n + 1])'
      BY <3>0, <3>2
    <3> QED BY <3>0, <3>2, <3>3, <3>4, <1>5, <1>6
  <2> QED BY <2>1, <2>2
<1>9. d.name = calls[n].name /\ n \in 1..Len(calls)
  BY <1>1 DEF top
<1>10. CallsFit'
  BY <1>1, <1>7, <1>8, <1>9, CallsStep DEF T
<1>11. BodiesNest'
  <2>0. Len(calls') \in {n, n + 1} /\ (Len(calls') = n + 1 => calls'[n + 1].kind = "resolve")
    BY <1>8
  <2>1. ASSUME NEW i \in 1..Len(calls'), calls'[i].kind = "body"
        PROVE  i \in 1..Len(calls) /\ calls[i].kind = "body" /\ calls'[i].module = calls[i].module
    <3>1. i \in 1..n - 1 \/ i = n
      <4>1. i \in 1..n - 1 \/ i = n \/ i = n + 1
        BY <2>0, <1>1
      <4>2. "body" # "resolve"
        OBVIOUS
      <4>3. i = n + 1 => Len(calls') = n + 1
        BY <2>0, <1>1
      <4> QED BY <2>0, <2>1, <4>1, <4>2, <4>3
    <3>2. CASE i \in 1..n - 1
      BY <3>2, <2>1, <1>1, <1>8
    <3>3. CASE i = n
      BY <3>3, <2>1, <1>1, <1>8 DEF top
    <3> QED BY <3>1, <3>2, <3>3
  <2>2. ASSUME NEW i \in 2..Len(calls'), calls'[i].kind = "body"
        PROVE  modules'[calls'[i].module].initialized = modules[calls'[i].module].initialized
    <3>1. i \in 1..Len(calls')
      OBVIOUS
    <3>2. i \in 1..Len(calls) /\ calls[i].kind = "body" /\ calls'[i].module = calls[i].module
      BY <2>1, <2>2, <3>1
    <3>3. CallFits(calls[i])
      BY <3>2, <1>1 DEF CallsFit
    <3>4. calls[i].module \in 0..Len(modules)
      BY <3>2, <3>3, <1>1, HasOperands
    <3>5. i \in 2..Len(calls)
      BY <3>1, <3>2
    <3>6. calls[i].module # 0
      BY <3>2, <3>5, <1>1 DEF CallsFit
    <3>7. calls[i].module \in 1..Len(modules)
      BY <3>4, <3>6, <1>1
    <3> QED BY <3>2, <3>7 DEF Quiet
  <2>3. Len(calls') \in Nat /\ Len(calls) \in Nat
    BY <2>0, <1>1
  <2> QED BY <2>1, <2>2, <2>3, <1>1, BodiesStep
<1>12. calls' = WithTop(d) => Len(calls') = Len(calls) /\ calls'[Len(calls')] = d
  BY <1>4, <1>5
<1> QED BY <1>10, <1>11, <1>12

(* A body that goes on to its next instruction. *)
LEMMA Advancing ==
  ASSUME ImportInv, Quiet, top.kind = "body", Opcode(top) # "HALT",
         NEW s, s \in Seq(Values'),
         NEW d, d = [top EXCEPT !.ip = @ + 1, !.stack = s], StackFits(d),
         top.module # 0 /\ Opcode(top) = "STORE_GLOBAL" =>
           top.code[top.ip][2] \in DOMAIN modules'[top.module].globals,
         calls' = WithTop(d), reply' = Unset, status' = status
  PROVE  ImportInv'
<1> PICK c : c = top
  OBVIOUS
<1>1. /\ HeapTyped /\ HeapTyped' /\ Grows /\ CallFits(c) /\ c.kind = "body" /\ Len(modules) \in Nat
      /\ status \in Statuses /\ Len(modules') = Len(modules)
  BY TopFits DEF Quiet
<1>2. CallFits(c)'
  BY <1>1, FitsOn
<1>3. BodyFits(c)' /\ c \in Bodies'
  BY <1>1, <1>2 DEF CallFits, BodyFits
<1>4. /\ d.kind = c.kind /\ d.name = c.name /\ d.module = c.module /\ d.parent = c.parent
      /\ d.code = c.code /\ d.ip = c.ip + 1 /\ d.stack = s
  BY <1>3 DEF Bodies
<1>5. d \in Bodies'
  <2>1. c.ip + 1 \in Nat
    BY <1>3 DEF Bodies
  <2> QED BY <1>3, <2>1 DEF Bodies
<1>6. d.ip \in 1..Len(d.code)
  <2>1. c.ip \in 1..Len(c.code) /\ c.ip # Len(c.code) /\ c.code \in Seq(Instructions)
    BY <1>1, HasOperands
  <2> QED BY <1>4, <2>1
<1>7. BodyFits(d)'
  <2>1. StackFits(d)'
    BY DEF StackFits
  <2>2. CASE c.module = 0
    <3>1. OfScript(c)'
      BY <1>3, <2>2 DEF BodyFits
    <3>2. OfScript(d)'
      BY <3>1, <1>4 DEF OfScript
    <3> QED BY <1>4, <1>5, <1>6, <2>1, <2>2, <3>2 DEF BodyFits
  <2>3. CASE c.module # 0
    <3>1. OfModule(c)'
      BY <1>3, <2>3 DEF BodyFits
    <3>2. ASSUME NEW i \in 1..c.ip, Op(c.code, i) = "STORE_GLOBAL"
          PROVE  c.code[i][2] \in DOMAIN modules'[c.module].globals
      <4>1. CASE i = c.ip
        BY <4>1, <3>2, <2>3 DEF Opcode
      <4>2. CASE i # c.ip
        <5>1. i \in 1..c.ip - 1
          BY <4>2, <1>1, HasOperands
        <5> QED BY <5>1, <3>1, <3>2 DEF OfModule
      <4> QED BY <4>1, <4>2
    <3>3. 1..(c.ip + 1) - 1 = 1..c.ip
      BY <1>1, HasOperands
    <3>4. OfModule(d)'
      BY <3>1, <3>2, <3>3, <1>4 DEF OfModule
    <3> QED BY <1>4, <1>5, <1>6, <2>1, <2>3, <3>4 DEF BodyFits
  <2> QED BY <2>2, <2>3
<1>8. CallFits(d)'
  BY <1>1, <1>4, <1>7 DEF CallFits
<1>9. CallsFit' /\ BodiesNest'
  BY <1>4, <1>5, <1>8, Going
<1>10. ReplyFits' /\ reply' \in Results'
  BY ReplyStep
<1> QED BY <1>1, <1>9, <1>10, QuietStep

(* A step that leaves the calls alone. *)
LEMMA Stays ==
  ASSUME ImportInv, Quiet, calls' = calls
  PROVE  /\ CallsFit' /\ BodiesNest'
         /\ Waits(top) => Asked(calls[Len(calls)])' = Asked(top)
<1> PICK c : c = top
  OBVIOUS
<1>1. /\ HeapTyped /\ HeapTyped' /\ Grows /\ CallFits(c) /\ c \in Requests \cup Bodies
      /\ Len(modules) \in Nat /\ Len(modules') = Len(modules) /\ calls \in Seq(Requests \cup Bodies)
      /\ Len(calls) \in 1..Len(calls)
  BY TopFits DEF Quiet
<1>2. CallFits(c)' /\ c \in (Requests \cup Bodies)'
  BY <1>1, FitsOn, SetsGrow
<1>3. calls' = WithTop(c)
  BY <1>1 DEF WithTop, top
<1>4. CallsFit' /\ BodiesNest'
  BY <1>2, <1>3, Going
<1>5. Waits(c) => Asked(c)' = Asked(c)
  BY <1>1, AskedStays
<1>6. Waits(top) => Asked(calls[Len(calls)])' = Asked(top)
  BY <1>5 DEF top
<1> QED BY <1>4, <1>6

(* A step that leaves everything alone except the status. *)
LEMMA Still ==
  ASSUME ImportInv, UNCHANGED <<files, heap, calls, reply>>, status' \in Statuses
  PROVE  ImportInv'
<1>1. Quiet
  BY StillQuiet
<1>2. CallsFit' /\ BodiesNest' /\ (Waits(top) => Asked(calls[Len(calls)])' = Asked(top))
  BY <1>1, Stays
<1>3. /\ ReplyFits /\ modules' = modules /\ sys_modules' = sys_modules /\ calls' = calls
      /\ reply' = reply /\ reply \in Results
  BY TopFits DEF ImportInv, heap
<1>4. reply' \in Results'
  BY <1>3 DEF Results
<1>5. ReplyFits'
  BY <1>2, <1>3 DEF ReplyFits, top
<1> QED BY <1>1, <1>2, <1>4, <1>5, QuietStep

(* An Err inside the body that runs. *)
LEMMA Failing ==
  ASSUME ImportInv, UNCHANGED <<files, heap, status>>, top.kind = "body",
         NEW e \in Errors \ {"internal"}, Fail(e)
  PROVE  ImportInv'
<1>1. Quiet /\ calls' = calls /\ reply' = Err(e) /\ status' \in Statuses
  BY StillQuiet, TopFits DEF Fail
<1>2. CallsFit' /\ BodiesNest'
  BY <1>1, Stays
<1>3. calls'[Len(calls')].kind = "body"
  BY <1>1 DEF top
<1>4. ReplyFits' /\ reply' \in Results'
  BY <1>1, <1>3, ReplyStep
<1> QED BY <1>1, <1>2, <1>4, QuietStep

(* A request for a name fits. *)
LEMMA ResolveFits ==
  ASSUME NEW name \in Seq(Identifiers), name # << >>
  PROVE  /\ Resolve(name) \in Requests' /\ CallFits(Resolve(name))'
         /\ Resolve(name).kind = "resolve" /\ Resolve(name).name = name
<1>1. /\ Resolve(name) = [kind |-> "resolve", name |-> name, waiting |-> FALSE]
  BY DEF Resolve
<1>2. Resolve(name) \in Requests'
  BY <1>1 DEF Requests
<1> QED BY <1>1, <1>2 DEF CallFits

(* A call that asks for a name, and waits from then on. *)
LEMMA Asking ==
  ASSUME ImportInv, UNCHANGED <<files, heap, status>>, reply = Unset, reply' = reply,
         NEW d, CallFits(d)', d \in (Requests \cup Bodies)',
         d.kind = top.kind, d.name = top.name, d.kind = "body" => d.module = top.module,
         Waits(d), NEW name \in Seq(Identifiers), name # << >>, Asked(d)' = name,
         calls' = Append(WithTop(d), Resolve(name))
  PROVE  ImportInv'
<1>1. Quiet /\ status' \in Statuses
  BY StillQuiet, TopFits
<1>2. /\ Resolve(name) \in Requests' /\ CallFits(Resolve(name))'
      /\ Resolve(name).kind = "resolve" /\ Resolve(name).name = name
  BY ResolveFits
<1>3. CallsFit' /\ BodiesNest'
  <2> PICK r : r = Resolve(name)
    OBVIOUS
  <2>1. /\ calls' = Append(WithTop(d), r) /\ r \in Requests'
        /\ CallFits(r)' /\ r.kind = "resolve" /\ r.name = Asked(d)'
    BY <1>2
  <2> QED BY <1>1, <2>1, Going
<1>4. ReplyFits' /\ reply' \in Results'
  BY ReplyStep
<1> QED BY <1>1, <1>3, <1>4, QuietStep

(* The call that runs returns to the one below it, which has asked for it. *)
LEMMA Returned ==
  ASSUME ImportInv, HeapTyped', Grows, top.kind = "resolve" \/ top.module # 0,
         calls' = Below
  PROVE  /\ CallsFit'
         /\ Len(calls') = Len(calls) - 1 /\ Len(calls') > 0
         /\ \A i \in 1..Len(calls') : calls'[i] = calls[i] /\ i \in 1..Len(calls) - 1
         /\ Waits(calls'[Len(calls')]) /\ Asked(calls[Len(calls)])' = top.name
<1> PICK n : n = Len(calls)
  OBVIOUS
<1> DEFINE k == n - 1
           T == (Requests \cup Bodies)'
<1>1. /\ n \in Nat /\ n > 0 /\ HeapTyped /\ CallsFit /\ calls \in Seq(Requests \cup Bodies)
      /\ Len(modules) \in Nat /\ top = calls[n]
  BY TopFits DEF top
<1>2. n # 1
  BY <1>1 DEF CallsFit
<1>3. k \in 1..n /\ k \in 1..n - 1 /\ k + 1 = n /\ k \in Nat /\ k > 0
  BY <1>1, <1>2
<1>4. Below \in Seq(Requests \cup Bodies) /\ Len(Below) = k /\ \A i \in 1..k : Below[i] = calls[i]
  BY <1>1, <1>3, SeqTrim DEF Below
<1>5. calls' \in Seq(T)
  <2>1. Requests \cup Bodies \subseteq T
    <3>1. Len(modules') \in Nat /\ Len(modules') >= Len(modules)
      BY DEF HeapTyped, Grows
    <3> QED BY <1>1, <3>1, SetsGrow
  <2> HIDE DEF T
  <2> QED BY <1>4, <2>1, SeqGrows
<1> HIDE DEF k, T
<1> PICK d : d = calls[k]
  OBVIOUS
<1>6. CallFits(d) /\ Waits(d) /\ calls[n].name = Asked(d)
  BY <1>1, <1>3 DEF CallsFit
<1>7. CallFits(d)' /\ Asked(d)' = Asked(d)
  BY <1>1, <1>6, FitsOn, AskedStays
<1>8. calls'[k] = d /\ Len(calls') = k /\ \A i \in 1..k - 1 : calls'[i] = calls[i]
  <2>1. k \in 1..k /\ \A i \in 1..k - 1 : i \in 1..k
    BY <1>3
  <2> QED BY <1>4, <2>1
<1>9. /\ k = 1 => d.kind = "body" /\ d.module = 0
      /\ k > 1 /\ d.kind = "body" => d.module # 0
  <2>1. k > 1 => k \in 2..Len(calls)
    BY <1>3
  <2> QED BY <1>1, <2>1 DEF CallsFit
<1>10. CallsFit'
  <2>1. k \in 1..Len(calls) /\ d.name = calls[k].name
    BY <1>3
  <2> QED BY <1>1, <1>5, <1>7, <1>8, <1>9, <2>1, CallsStep DEF T
<1>11. \A i \in 1..k : i \in 1..n - 1
  BY <1>3
<1>12. Asked(calls[Len(calls)])' = top.name
  BY <1>1, <1>6, <1>7, <1>8
<1> QED BY <1>3, <1>4, <1>6, <1>8, <1>10, <1>11, <1>12 DEF k

(* ... with an Err, or with the module it has been asked for. *)
LEMMA Returning ==
  ASSUME ImportInv, Quiet, top.kind = "resolve" \/ top.module # 0, status' = status,
         calls' = Below,
         \/ \E e \in Errors \ {"internal"} : reply' = Err(e)
         \/ \E m \in DOMAIN modules' : /\ reply' = Module(m) /\ modules'[m].name = top.name
                                       /\ top.name \in DOMAIN sys_modules'
  PROVE  ImportInv'
<1>1. /\ HeapTyped /\ HeapTyped' /\ Grows /\ CallsFit /\ BodiesNest /\ Len(calls) \in Nat
      /\ status' \in Statuses /\ Len(modules) \in Nat
  BY TopFits DEF Quiet
<1>2. /\ CallsFit'
      /\ Len(calls') = Len(calls) - 1 /\ Len(calls') > 0
      /\ \A i \in 1..Len(calls') : calls'[i] = calls[i] /\ i \in 1..Len(calls) - 1
      /\ Waits(calls'[Len(calls')]) /\ Asked(calls[Len(calls)])' = top.name
  BY <1>1, Returned
<1>3. ReplyFits' /\ reply' \in Results'
  BY <1>2, ReplyStep
<1>4. BodiesNest'
  <2>1. \A i \in 1..Len(calls') : i \in 1..Len(calls) /\ calls'[i] = calls[i]
    BY <1>1, <1>2
  <2>2. ASSUME NEW i \in 2..Len(calls'), calls'[i].kind = "body"
        PROVE  modules'[calls'[i].module].initialized = modules[calls'[i].module].initialized
    <3>1. i \in 1..Len(calls')
      OBVIOUS
    <3>2. i \in 2..Len(calls) /\ i \in 1..Len(calls) /\ calls'[i] = calls[i]
      BY <2>1, <3>1
    <3>3. CallFits(calls[i]) /\ calls[i].module # 0
      BY <2>2, <3>2, <1>1 DEF CallsFit
    <3>4. calls[i].module \in 0..Len(modules)
      BY <2>2, <3>2, <3>3, <1>1, HasOperands
    <3> QED BY <3>2, <3>3, <3>4, <1>1 DEF Quiet
  <2>3. Len(calls') \in Nat
    BY <1>1, <1>2
  <2> QED BY <1>1, <2>1, <2>2, <2>3, BodiesStep
<1> QED BY <1>1, <1>2, <1>3, <1>4, QuietStep

(* What a call that failed is told. *)
LEMMA ReplyFailed ==
  ASSUME ImportInv, Failed(reply)
  PROVE  \E e \in Errors \ {"internal"} : reply = Err(e)
<1>1. reply \in Results /\ reply # <<"err", "internal">> /\ reply[1] = "err"
  BY DEF ImportInv, TypeOK, ReplyFits, Failed, Err
<1>2. reply \in {"err"} \X Errors
  BY <1>1 DEF Results, Unset
<1>3. reply[2] \in Errors /\ reply = <<"err", reply[2]>>
  BY <1>2
<1> PICK e : e = reply[2]
  OBVIOUS
<1>4. e # "internal"
  BY <1>1, <1>3
<1> QED BY <1>3, <1>4 DEF Err

(* ... and what one that succeeded is. *)
LEMMA ReplyFound ==
  ASSUME ImportInv, ~Failed(reply), reply # Unset
  PROVE  /\ reply[2] \in 1..Len(modules) /\ reply = Module(reply[2]) /\ reply[1] = "module"
         /\ Waits(top) /\ modules[reply[2]].name = Asked(top) /\ Asked(top) \in DOMAIN sys_modules
         /\ Len(modules) \in Nat
<1>1. reply \in {"module"} \X DOMAIN modules
  BY DEF ImportInv, TypeOK, Results, Failed
<1>2. DOMAIN modules = 1..Len(modules) /\ Len(modules) \in Nat
  BY TopFits
<1>3. reply[1] = "module" /\ reply[2] \in DOMAIN modules /\ reply = <<"module", reply[2]>>
  BY <1>1
<1> QED BY <1>2, <1>3 DEF ImportInv, ReplyFits, Module

-------------------------------------------------------------------------------
(* Instructions. *)
LEMMA Fetched ==
  ASSUME ImportInv, top.kind = "body"
  PROVE  /\ Opcode(top) = Instr[1] /\ Arg = top.code[top.ip][2] /\ Instr \in Instructions
         /\ top.stack \in Seq(Values) /\ Len(top.stack) \in Nat
         /\ top.ip \in Nat /\ top.ip > 0 /\ top.ip \in 1..Len(top.code)
         /\ top \in Bodies /\ StackFits(top) /\ Shaped(top.code, "nothing")
         /\ top.module \in 0..Len(modules) /\ (top.module # 0 => top.module \in 1..Len(modules))
<1> PICK c : c = top
  OBVIOUS
<1>1. HeapTyped /\ CallFits(c) /\ Len(modules) \in Nat
  BY TopFits
<1>2. /\ c \in Bodies /\ c.stack \in Seq(Values) /\ c.ip \in 1..Len(c.code)
      /\ c.code[c.ip] \in Instructions /\ c.code \in Seq(Instructions)
      /\ StackFits(c) /\ Shaped(c.code, "nothing") /\ c.module \in 0..Len(modules)
  BY <1>1, HasOperands
<1> QED BY <1>1, <1>2 DEF Opcode, Op, Instr, Arg

(* The stack fits at the next instruction. *)
LEMMA NextFits ==
  ASSUME NEW c \in Bodies, NEW s, NEW d, d = [c EXCEPT !.ip = @ + 1, !.stack = s],
         Provides(c.code, c.ip) => Len(s) > 0,
         Opcode(c) = "LOAD_CONST" => Len(s) > 0 /\ s[Len(s)] = c.code[c.ip][2],
         c.ip > 1 /\ Opcode(c) = "LOAD_CONST" /\ Op(c.code, c.ip - 1) = "LOAD_CONST" =>
           Len(s) > 1 /\ s[Len(s) - 1] = c.code[c.ip - 1][2],
         Leaves(c.code, c.ip) => Len(s) > 0 /\ IsModule(s[Len(s)]),
         Opcode(c) = "IMPORT_FROM" => Len(s) > 1 /\ IsModule(s[Len(s) - 1])
  PROVE  StackFits(d)
<1>1. d.ip = c.ip + 1 /\ d.code = c.code /\ d.stack = s /\ c.ip \in Nat
  BY DEF Bodies
<1>2. d.ip - 1 = c.ip /\ d.ip - 2 = c.ip - 1 /\ (d.ip > 2 => c.ip > 1)
  BY <1>1
<1>3. Opcode(c) = Op(d.code, d.ip - 1)
  BY <1>1, <1>2 DEF Opcode
<1>4. d.ip > 1 /\ Provides(d.code, d.ip - 1) => Len(d.stack) > 0
  BY <1>1, <1>2
<1>5. d.ip > 1 /\ Op(d.code, d.ip - 1) = "LOAD_CONST" =>
        Len(d.stack) > 0 /\ d.stack[Len(d.stack)] = d.code[d.ip - 1][2]
  BY <1>1, <1>2, <1>3
<1>6. d.ip > 2 /\ Op(d.code, d.ip - 1) = "LOAD_CONST" /\ Op(d.code, d.ip - 2) = "LOAD_CONST" =>
        Len(d.stack) > 1 /\ d.stack[Len(d.stack) - 1] = d.code[d.ip - 2][2]
  BY <1>1, <1>2, <1>3
<1>7. d.ip > 1 /\ Leaves(d.code, d.ip - 1) => Len(d.stack) > 0 /\ IsModule(d.stack[Len(d.stack)])
  BY <1>1, <1>2
<1>8. d.ip > 1 /\ Op(d.code, d.ip - 1) = "IMPORT_FROM" =>
        Len(d.stack) > 1 /\ IsModule(d.stack[Len(d.stack) - 1])
  BY <1>1, <1>2, <1>3
<1> QED BY <1>4, <1>5, <1>6, <1>7, <1>8 DEF StackFits

(* Values stay values. *)
LEMMA SeqValues ==
  ASSUME ImportInv, Quiet
  PROVE  Seq(Values) \subseteq Seq(Values') /\ Values \subseteq Values'
<1>1. Values \subseteq Values'
  BY TopFits, SetsGrow DEF Quiet
<1> QED BY <1>1, SeqGrows

(* The constants of the code are values. *)
LEMMA ConstantsAreValues ==
  ASSUME NEW v \in Constants
  PROVE  v \in Values
<1>1. CASE v \in {"int"} \X Nat
  BY <1>1 DEF Values, Tags
<1>2. CASE v \in {None, Names_, Plain}
  BY <1>2 DEF Values, Tags, None, Names_, Plain
<1>3. CASE v \in Strings
  BY <1>3 DEF Values
<1> QED BY <1>1, <1>2, <1>3 DEF Constants

(* Each instruction keeps the invariant. *)
LEMMA StepLOAD_CONST ==
  ASSUME ImportInv, LOAD_CONST
  PROVE  ImportInv'
<1> PICK s : s = Append(top.stack, Arg)
  OBVIOUS
<1> PICK d : d = [top EXCEPT !.ip = @ + 1, !.stack = s]
  OBVIOUS
<1>1. /\ top.kind = "body" /\ Instr[1] = "LOAD_CONST" /\ calls' = WithTop(d) /\ reply' = Unset
      /\ UNCHANGED <<files, heap, status>>
  BY DEF LOAD_CONST, Fetch, Advance
<1>2. Quiet
  BY <1>1, StillQuiet
<1>3. Opcode(top) = "LOAD_CONST" /\ Arg \in Values
  <2>1. Opcode(top) = "LOAD_CONST" /\ Arg \in Constants
    BY <1>1, Fetched DEF Instructions, Arg
  <2> QED BY <2>1, ConstantsAreValues
<1>4. /\ s \in Seq(Values) /\ Len(s) = Len(top.stack) + 1 /\ s[Len(s)] = Arg /\ Len(top.stack) \in Nat
      /\ \A i \in 1..Len(top.stack) : s[i] = top.stack[i]
  BY <1>1, <1>3, Fetched, SeqPush
<1>5. StackFits(d)
  <2>1. Len(s) > 0 /\ s[Len(s)] = top.code[top.ip][2]
    BY <1>1, <1>4, Fetched
  <2>2. ASSUME top.ip > 1, Op(top.code, top.ip - 1) = "LOAD_CONST"
        PROVE  Len(s) > 1 /\ s[Len(s) - 1] = top.code[top.ip - 1][2]
    <3>1. Len(top.stack) > 0 /\ top.stack[Len(top.stack)] = top.code[top.ip - 1][2]
      BY <1>1, <2>2, Fetched DEF StackFits
    <3>2. Len(top.stack) \in 1..Len(top.stack) /\ Len(s) - 1 = Len(top.stack)
      BY <1>4, <3>1
    <3> QED BY <1>4, <3>1, <3>2
  <2>3. ~Leaves(top.code, top.ip)
    BY <1>3 DEF Leaves, Opcode
  <2>4. top \in Bodies
    BY <1>1, Fetched
  <2> QED BY <1>3, <2>1, <2>2, <2>3, <2>4, NextFits
<1>6. s \in Seq(Values')
  BY <1>2, <1>4, SeqValues
<1> QED BY <1>1, <1>2, <1>3, <1>5, <1>6, Advancing

(* A namespace that grows. *)
LEMMA SetQuiet ==
  ASSUME ImportInv, UNCHANGED <<files, sys_modules, heap_lost>>,
         NEW m \in 0..Len(modules), NEW g \in Namespaces, DOMAIN Namespace(m) \subseteq DOMAIN g,
         SetNamespace(m, g)
  PROVE  Quiet /\ (m # 0 => DOMAIN modules'[m].globals = DOMAIN g)
<1>1. HeapTyped /\ Len(modules) \in Nat /\ modules \in Seq(Records) /\ heap_lost \in BOOLEAN
  BY TopFits DEF HeapTyped
<1>2. CASE m = 0
  <2>1. globals' = g /\ modules' = modules
    BY <1>2 DEF SetNamespace
  <2>2. HeapTyped'
    <3>1. Values' = Values
      BY <2>1 DEF Values
    <3>2. Namespaces' = Namespaces
      BY <3>1 DEF Namespaces
    <3>3. Records' = Records
      BY <3>2 DEF Records
    <3> QED BY <1>1, <2>1, <3>2, <3>3 DEF HeapTyped
  <2> QED BY <1>1, <1>2, <2>1, <2>2 DEF Quiet, Calm, Grows
<1>3. CASE m # 0
  <2> DEFINE r == [modules[m] EXCEPT !.globals = g]
  <2>0. m \in 1..Len(modules) /\ modules[m] \in Records
    BY <1>1, <1>3
  <2>1. modules' = [modules EXCEPT ![m] = r] /\ globals' = globals
    BY <1>3 DEF SetNamespace
  <2>2. /\ r \in Records /\ r.name = modules[m].name /\ r.file = modules[m].file
        /\ r.initialized = modules[m].initialized
        /\ r.globals = g
    BY <2>0 DEF Records
  <2> HIDE DEF r
  <2>3. /\ modules' \in Seq(Records) /\ Len(modules') = Len(modules) /\ modules'[m] = r
        /\ \A i \in 1..Len(modules) : i # m => modules'[i] = modules[i]
    BY <1>1, <2>0, <2>1, <2>2, SeqSet
  <2>4. DOMAIN modules[m].globals \subseteq DOMAIN g
    BY <1>3 DEF Namespace
  <2>5. Grows
    <3>1. ASSUME NEW i \in 1..Len(modules)
          PROVE  /\ modules'[i].name = modules[i].name /\ modules'[i].file = modules[i].file
                 /\ DOMAIN modules[i].globals \subseteq DOMAIN modules'[i].globals
                 /\ modules'[i].initialized = modules[i].initialized
      BY <2>2, <2>3, <2>4
    <3> QED BY <1>1, <2>3, <3>1 DEF Grows
  <2>6. \A i \in 1..Len(modules) : modules'[i].initialized = modules[i].initialized
    BY <2>2, <2>3
  <2>7. HeapTyped'
    <3>1. Values' = Values
      BY <2>3 DEF Values
    <3>2. Namespaces' = Namespaces
      BY <3>1 DEF Namespaces
    <3>3. Records' = Records
      BY <3>2 DEF Records
    <3>4. \A i \in 2..Len(modules') : i \in 1..Len(modules)
      BY <1>1, <2>3
    <3>5. \A i \in 2..Len(modules') : modules'[i].file \in DOMAIN files'
      BY <1>1, <2>3, <2>5, <3>4 DEF HeapTyped, Grows
    <3>6. globals' \in Namespaces' /\ modules' \in Seq(Records')
      BY <1>1, <2>1, <2>3, <3>2, <3>3 DEF HeapTyped
    <3>7. \A n \in DOMAIN sys_modules' : n \in Seq(Identifiers) \ {<< >>}
      BY <1>1 DEF HeapTyped
    <3> QED BY <3>5, <3>6, <3>7 DEF HeapTyped
  <2> QED BY <1>1, <2>2, <2>3, <2>5, <2>6, <2>7 DEF Quiet, Calm
<1> QED BY <1>2, <1>3

(* The namespace of a body. *)
LEMMA NamespaceTyped ==
  ASSUME ImportInv, NEW m \in 0..Len(modules)
  PROVE  Namespace(m) \in Namespaces
<1>1. HeapTyped /\ Len(modules) \in Nat /\ modules \in Seq(Records)
  BY TopFits DEF HeapTyped
<1>2. CASE m # 0
  <2>1. modules[m] \in Records
    BY <1>1, <1>2
  <2> QED BY <1>2, <2>1 DEF Records, Namespace
<1> QED BY <1>1, <1>2 DEF Namespace, HeapTyped

(* What is on the stack. *)
LEMMA HasValue ==
  ASSUME ImportInv, top.kind = "body", NeedsValue(top.code, top.ip) \/ NeedsModule(top.code, top.ip)
  PROVE  /\ Len(top.stack) > 0 /\ Operand(0) \in Values /\ Operand(0) = top.stack[Len(top.stack)]
         /\ NeedsModule(top.code, top.ip) =>
              IsModule(Operand(0)) /\ Operand(0)[2] \in 1..Len(modules)
         /\ Popped(1) \in Seq(Values) /\ Len(Popped(1)) = Len(top.stack) - 1
         /\ \A i \in 1..Len(top.stack) - 1 : Popped(1)[i] = top.stack[i]
<1>1. /\ top.stack \in Seq(Values) /\ Len(top.stack) \in Nat /\ StackFits(top)
      /\ Shaped(top.code, "nothing") /\ top.ip \in 1..Len(top.code)
  BY Fetched
<1>2. NeedsValue(top.code, top.ip) => Len(top.stack) > 0
  <2>1. NeedsValue(top.code, top.ip) => top.ip > 1 /\ Provides(top.code, top.ip - 1)
    BY <1>1 DEF Shaped
  <2> QED BY <2>1, <1>1 DEF StackFits
<1>3. NeedsModule(top.code, top.ip) =>
        Len(top.stack) > 0 /\ IsModule(top.stack[Len(top.stack)])
  <2>1. NeedsModule(top.code, top.ip) => top.ip > 1 /\ Leaves(top.code, top.ip - 1)
    BY <1>1 DEF Shaped
  <2> QED BY <2>1, <1>1 DEF StackFits
<1>4. Len(top.stack) > 0 /\ Operand(0) = top.stack[Len(top.stack)] /\ Operand(0) \in Values
  BY <1>1, <1>2, <1>3 DEF Operand
<1>5. NeedsModule(top.code, top.ip) => IsModule(Operand(0)) /\ Operand(0)[2] \in 1..Len(modules)
  BY <1>3, <1>4, ModuleOfHeap
<1>6. /\ Popped(1) \in Seq(Values) /\ Len(Popped(1)) = Len(top.stack) - 1
      /\ \A i \in 1..Len(top.stack) - 1 : Popped(1)[i] = top.stack[i]
  BY <1>1, <1>4, SeqTrim DEF Popped
<1> QED BY <1>4, <1>5, <1>6

(* The name that is stored is from then on bound in the body's module. *)
LEMMA StepSTORE_GLOBAL ==
  ASSUME ImportInv, STORE_GLOBAL
  PROVE  ImportInv'
<1> PICK s : s = Popped(1)
  OBVIOUS
<1> PICK d : d = [top EXCEPT !.ip = @ + 1, !.stack = s]
  OBVIOUS
<1> DEFINE g == Insert(Namespace(top.module), Arg, Operand(0))
<1>1. /\ top.kind = "body" /\ Instr[1] = "STORE_GLOBAL" /\ calls' = WithTop(d) /\ reply' = Unset
      /\ UNCHANGED <<files, sys_modules, heap_lost, status>> /\ SetNamespace(top.module, g)
  BY DEF STORE_GLOBAL, Fetch, Advance
<1>2. Opcode(top) = "STORE_GLOBAL" /\ Arg \in Identifiers
  BY <1>1, Fetched DEF Instructions, Arg
<1>4. NeedsValue(top.code, top.ip)
  BY <1>2 DEF NeedsValue, Opcode
<1>5. /\ Len(top.stack) > 0 /\ Operand(0) \in Values /\ s \in Seq(Values) /\ Len(s) = Len(top.stack) - 1
      /\ \A i \in 1..Len(top.stack) - 1 : s[i] = top.stack[i]
  BY <1>1, <1>4, HasValue
<1>6. g \in Namespaces /\ DOMAIN g = DOMAIN Namespace(top.module) \cup {Arg}
  BY <1>1, <1>2, <1>5, Fetched, NamespaceTyped, InsertType
<1>7. Quiet /\ (top.module # 0 => DOMAIN modules'[top.module].globals = DOMAIN g)
  <2> HIDE DEF g
  <2> QED BY <1>1, <1>6, Fetched, SetQuiet
<1>8. StackFits(d)
  <2>1. Leaves(top.code, top.ip) => Len(s) > 0 /\ IsModule(s[Len(s)])
    <3> SUFFICES ASSUME Leaves(top.code, top.ip)  PROVE Len(s) > 0 /\ IsModule(s[Len(s)])
      OBVIOUS
    <3>1. top.ip > 1 /\ Op(top.code, top.ip - 1) = "IMPORT_FROM"
      BY <1>2 DEF Leaves, Opcode
    <3>2. Len(top.stack) > 1 /\ IsModule(top.stack[Len(top.stack) - 1])
      BY <1>1, <3>1, Fetched DEF StackFits
    <3>3. Len(s) \in 1..Len(top.stack) - 1 /\ Len(s) > 0
      BY <1>1, <1>5, <3>2, Fetched
    <3> QED BY <1>5, <3>2, <3>3
  <2>2. Provides(top.code, top.ip) => Leaves(top.code, top.ip)
    BY <1>2 DEF Provides, Opcode
  <2>3. top \in Bodies
    BY <1>1, Fetched
  <2> QED BY <1>2, <2>1, <2>2, <2>3, NextFits
<1>9. s \in Seq(Values')
  BY <1>5, <1>7, SeqValues
<1>10. top.module # 0 => top.code[top.ip][2] \in DOMAIN modules'[top.module].globals
  BY <1>1, <1>6, <1>7, Fetched
<1> QED BY <1>1, <1>2, <1>7, <1>8, <1>9, <1>10, Advancing

(* An instruction that leaves the heap alone and goes on. *)
LEMMA Stepping ==
  ASSUME ImportInv, UNCHANGED <<files, heap, status>>, top.kind = "body",
         Opcode(top) # "HALT", Opcode(top) # "STORE_GLOBAL", Opcode(top) # "LOAD_CONST",
         NEW s \in Seq(Values),
         Provides(top.code, top.ip) => Len(s) > 0,
         Opcode(top) = "IMPORT_NAME" => Len(s) > 0 /\ IsModule(s[Len(s)]),
         Opcode(top) = "IMPORT_FROM" => Len(s) > 1 /\ IsModule(s[Len(s) - 1]),
         Advance(s)
  PROVE  ImportInv'
<1> PICK d : d = [top EXCEPT !.ip = @ + 1, !.stack = s]
  OBVIOUS
<1>1. Quiet /\ calls' = WithTop(d) /\ reply' = Unset /\ status' = status
  BY StillQuiet DEF Advance
<1>2. s \in Seq(Values')
  BY <1>1, SeqValues
<1>3. Leaves(top.code, top.ip) => Opcode(top) = "IMPORT_NAME"
  BY DEF Leaves, Opcode
<1>4. top \in Bodies
  BY Fetched
<1>5. StackFits(d)
  BY <1>3, <1>4, NextFits
<1> QED BY <1>1, <1>2, <1>5, Advancing

(* An attribute of a module is a value; any other value has none. *)
LEMMA StepLOAD_ATTR ==
  ASSUME ImportInv, LOAD_ATTR
  PROVE  ImportInv'
<1>1. top.kind = "body" /\ Instr[1] = "LOAD_ATTR" /\ UNCHANGED <<files, heap, status>>
  BY DEF LOAD_ATTR, Fetch
<1>2. Opcode(top) = "LOAD_ATTR" /\ NeedsValue(top.code, top.ip)
  BY <1>1, Fetched DEF NeedsValue, Opcode
<1>3. CASE IsModule(Operand(0)) /\ Arg \in DOMAIN modules[Operand(0)[2]].globals
  <2>1. Operand(0) \in Values /\ Popped(1) \in Seq(Values)
    BY <1>1, <1>2, HasValue
  <2>2. Operand(0)[2] \in 1..Len(modules)
    BY <1>3, <2>1, ModuleOfHeap
  <2> PICK v : v = modules[Operand(0)[2]].globals[Arg]
    OBVIOUS
  <2>3. v \in Values
    <3>1. modules[Operand(0)[2]] \in Records
      BY <2>2, TopFits DEF HeapTyped
    <3>2. modules[Operand(0)[2]].globals \in Namespaces
      BY <3>1 DEF Records
    <3> QED BY <1>3, <3>2, NamespaceType
  <2> PICK s : s = Append(Popped(1), v)
    OBVIOUS
  <2>4. s \in Seq(Values) /\ Len(s) > 0
    <3>1. s \in Seq(Values) /\ Len(s) = Len(Popped(1)) + 1 /\ Len(Popped(1)) \in Nat
      BY <2>1, <2>3, SeqPush
    <3> QED BY <3>1
  <2>5. Advance(s)
    BY <1>3 DEF LOAD_ATTR
  <2> QED BY <1>1, <1>2, <2>4, <2>5, Stepping
<1>4. CASE ~(IsModule(Operand(0)) /\ Arg \in DOMAIN modules[Operand(0)[2]].globals)
  <2>1. Fail("NoAttribute")
    BY <1>4 DEF LOAD_ATTR
  <2>2. "NoAttribute" \in Errors \ {"internal"}
    BY DEF Errors
  <2> QED BY <1>1, <2>1, <2>2, Failing
<1> QED BY <1>3, <1>4

(* There is a value to drop. *)
LEMMA StepPOP_TOP ==
  ASSUME ImportInv, POP_TOP
  PROVE  ImportInv'
<1>1. /\ top.kind = "body" /\ Instr[1] = "POP_TOP" /\ UNCHANGED <<files, heap, status>>
      /\ Advance(Popped(1))
  BY DEF POP_TOP, Fetch
<1>2. Opcode(top) = "POP_TOP" /\ NeedsValue(top.code, top.ip) /\ ~Provides(top.code, top.ip)
  BY <1>1, Fetched DEF NeedsValue, Opcode, Provides, Leaves
<1>3. Popped(1) \in Seq(Values)
  BY <1>1, <1>2, HasValue
<1> PICK s : s = Popped(1)
  OBVIOUS
<1> QED BY <1>1, <1>2, <1>3, Stepping

(* The body fails. *)
LEMMA StepRAISE ==
  ASSUME ImportInv, RAISE
  PROVE  ImportInv'
<1>1. top.kind = "body" /\ UNCHANGED <<files, heap, status>> /\ Fail("raised")
  BY DEF RAISE, Fetch
<1>2. "raised" \in Errors \ {"internal"}
  BY DEF Errors
<1> QED BY <1>1, <1>2, Failing

(* A module is a value. *)
LEMMA ModuleValue ==
  ASSUME NEW m \in 1..Len(modules), Len(modules) \in Nat
  PROVE  Module(m) \in Values /\ IsModule(Module(m))
<1>1. Module(m) = <<"module", m>> /\ m \in Nat
  BY DEF Module
<1>2. <<"module", m>> \in Tags \X Nat /\ <<"module", m>>[1] = "module" /\ <<"module", m>>[2] = m
  BY <1>1 DEF Tags
<1> QED BY <1>1, <1>2 DEF Values, IsModule

(* The package that a namespace says it is of, as its segments. *)
LEMMA PartsTyped ==
  ASSUME ImportInv, NEW m \in 0..Len(modules), Package(m) # None, Package(m)[1] = "str"
  PROVE  /\ "__package__" \in DOMAIN Namespace(m) /\ Package(m) \in Strings
         /\ Parts(m) \in Seq(Identifiers)
<1>1. "__package__" \in DOMAIN Namespace(m) /\ Package(m) = Namespace(m)["__package__"]
  BY DEF Package
<1>2. Package(m) \in Values
  BY <1>1, NamespaceTyped, NamespaceType
<1>3. Package(m) \in Strings
  BY <1>2 DEF Values, Tags
<1> PICK p : p = Package(m)[2]
  OBVIOUS
<1>4. p \in Seq(Identifiers) /\ p # << >>
  BY <1>3 DEF Strings
<1>5. Tail(p) \in Seq(Identifiers)
  BY <1>4
<1>6. Parts(m) \in Seq(Identifiers)
  BY <1>4, <1>5 DEF Parts
<1> QED BY <1>1, <1>3, <1>6

(* The name an IMPORT_NAME asks for. *)
LEMMA AbsoluteName ==
  ASSUME ImportInv, top.kind = "body", Instr[1] = "IMPORT_NAME"
  PROVE  /\ Len(top.stack) > 1 /\ Waits(top)
         /\ RelativeError(top.module, Level) = "none" => Absolute \in Seq(Identifiers)
         /\ Absolute # << >>
         /\ RelativeError(top.module, Level) \in (Errors \ {"internal"}) \cup {"none"}
         /\ Level \in Nat /\ Arg \in Seq(Identifiers)
<1>1. /\ Opcode(top) = "IMPORT_NAME" /\ Arg = top.code[top.ip][2] /\ Len(top.stack) \in Nat
      /\ top.module \in 0..Len(modules)
      /\ HeapTyped /\ CallFits(top)
  BY Fetched, TopFits DEF HeapTyped
<1>2. Waits(top)
  BY <1>1 DEF Waits
<1>3. /\ Len(top.stack) > 1 /\ top.stack[Len(top.stack) - 1][2] \in Nat /\ Arg \in Seq(Identifiers)
  <2> PICK c : c = top
    OBVIOUS
  <2>1. /\ Len(c.stack) > 1 /\ c.stack[Len(c.stack) - 1][2] \in Nat /\ c.code[c.ip][2] \in Seq(Identifiers)
    BY <1>1, <1>2, AskedBy
  <2> QED BY <1>1, <2>1
<1>4. Level \in Nat /\ Level = top.stack[Len(top.stack) - 1][2]
  BY <1>3 DEF Level, Operand
<1>5. Empty \in Identifiers
  BY DEF Identifiers
<1>6. RelativeError(top.module, Level) \in (Errors \ {"internal"}) \cup {"none"}
  BY DEF RelativeError, Errors
<1>7. ASSUME RelativeError(top.module, Level) = "none", Level # 0
      PROVE  Parts(top.module) \in Seq(Identifiers) /\ Level - 1 <= Len(Parts(top.module))
  <2> PICK m : m = top.module
    OBVIOUS
  <2> PICK k : k = Level - 1
    OBVIOUS
  <2>1. Package(m) # None /\ Package(m)[1] = "str" /\ ~(k > Len(Parts(m)))
    BY <1>7 DEF RelativeError
  <2>2. m \in 0..Len(modules) /\ k \in Nat
    BY <1>1, <1>4, <1>7
  <2>3. Parts(m) \in Seq(Identifiers)
    BY <2>1, <2>2, PartsTyped
  <2> QED BY <2>1, <2>2, <2>3
<1>8. ASSUME RelativeError(top.module, Level) = "none"  PROVE Absolute \in Seq(Identifiers)
  <2>1. CASE Level = 0
    BY <1>3, <1>5, <2>1 DEF Absolute, resolve_relative_name
  <2>2. CASE Level # 0
    <3> PICK P : P = Parts(top.module)
      OBVIOUS
    <3> PICK k : k = Level - 1
      OBVIOUS
    <3>1. k \in Nat /\ k <= Len(P) /\ P \in Seq(Identifiers)
      BY <1>4, <1>7, <1>8, <2>2
    <3> PICK p : p = SubSeq(P, 1, Len(P) - k)
      OBVIOUS
    <3>2. p \in Seq(Identifiers)
      BY <3>1, SeqTrim
    <3>3. p \o Arg \in Seq(Identifiers)
      BY <1>3, <3>2
    <3>4. Absolute = IF p \o Arg = << >> THEN <<Empty>> ELSE p \o Arg
      BY <2>2 DEF Absolute, resolve_relative_name
    <3> QED BY <1>5, <3>3, <3>4
  <2> QED BY <2>1, <2>2
<1>9. Absolute # << >>
  BY DEF Absolute, resolve_relative_name
<1> QED BY <1>2, <1>3, <1>4, <1>6, <1>8, <1>9

(* An instruction that asks for a name. *)
LEMMA AskingTop ==
  ASSUME ImportInv, UNCHANGED <<files, heap, status>>, reply = Unset, top.kind = "body",
         Waits(top), NEW name \in Seq(Identifiers), name # << >>, Ask(name)
  PROVE  ImportInv'
<1> PICK c : c = top
  OBVIOUS
<1> PICK d : d = [c EXCEPT !.asked = name]
  OBVIOUS
<1>1. /\ HeapTyped /\ CallFits(c) /\ c \in Requests \cup Bodies /\ Len(modules) \in Nat
  BY TopFits
<1>2. HeapTyped' /\ Grows /\ Len(modules') = Len(modules)
  BY StillQuiet DEF Quiet
<1>3. CallFits(c)' /\ c.kind = "body"
  BY <1>1, <1>2, FitsOn
<1>4. BodyFits(c)' /\ c \in Bodies'
  BY <1>3 DEF CallFits, BodyFits
<1>5. /\ d.kind = c.kind /\ d.name = c.name /\ d.module = c.module /\ d.parent = c.parent
      /\ d.code = c.code /\ d.ip = c.ip /\ d.stack = c.stack /\ d.asked = name
  BY <1>4 DEF Bodies
<1>6. d \in Bodies'
  BY <1>4 DEF Bodies
<1>7. BodyFits(d)'
  <2>1. StackFits(d)'
    BY <1>4, <1>5 DEF BodyFits, StackFits
  <2>2. c.module = 0 => OfScript(d)'
    BY <1>4, <1>5 DEF BodyFits, OfScript
  <2>3. c.module # 0 => OfModule(d)'
    BY <1>4, <1>5 DEF BodyFits, OfModule
  <2> QED BY <1>4, <1>5, <1>6, <2>1, <2>2, <2>3 DEF BodyFits
<1>8. CallFits(d)' /\ d \in (Requests \cup Bodies)'
  BY <1>3, <1>5, <1>6, <1>7 DEF CallFits
<1>9. Waits(d) /\ Asked(d)' = name
  BY <1>3, <1>5 DEF Waits, Opcode, Asked
<1>10. calls' = Append(WithTop(d), Resolve(name)) /\ reply' = reply
  BY DEF Ask
<1> QED BY <1>3, <1>5, <1>8, <1>9, <1>10, Asking

(* The import fails, or asks for the absolute name. *)
LEMMA StepIMPORT_NAME ==
  ASSUME ImportInv, IMPORT_NAME
  PROVE  ImportInv'
<1>1. /\ top.kind = "body" /\ Instr[1] = "IMPORT_NAME" /\ UNCHANGED <<files, heap, status>>
      /\ reply = Unset
  BY DEF IMPORT_NAME, Fetch, Running
<1>2. CASE RelativeError(top.module, Level) # "none"
  <2> PICK e : e = RelativeError(top.module, Level)
    OBVIOUS
  <2>1. e \in Errors \ {"internal"} /\ Fail(e)
    BY <1>1, <1>2, AbsoluteName DEF IMPORT_NAME
  <2> QED BY <1>1, <2>1, Failing
<1>3. CASE RelativeError(top.module, Level) = "none"
  <2> PICK name : name = Absolute
    OBVIOUS
  <2>1. Ask(name) /\ name # << >> /\ name \in Seq(Identifiers) /\ Waits(top)
    BY <1>1, <1>3, AbsoluteName DEF IMPORT_NAME
  <2> QED BY <1>1, <2>1, AskingTop
<1> QED BY <1>2, <1>3

(* The first segment of a name that has been resolved is in the cache, so
   that this is no internal error. *)
LEMMA StepIMPORT_NAME_returns ==
  ASSUME ImportInv, IMPORT_NAME_returns
  PROVE  ImportInv'
<1>1. /\ top.kind = "body" /\ Instr[1] = "IMPORT_NAME" /\ UNCHANGED <<files, heap, status>>
      /\ reply # Unset /\ ~Failed(reply)
  BY DEF IMPORT_NAME_returns, Answered
<1>2. /\ reply[2] \in 1..Len(modules) /\ reply = Module(reply[2])
      /\ Asked(top) \in DOMAIN sys_modules /\ Len(modules) \in Nat
  BY <1>1, ReplyFound
<1>3. /\ Len(top.stack) > 1 /\ Asked(top) = top.asked /\ Opcode(top) = "IMPORT_NAME"
      /\ top.stack \in Seq(Values)
  BY <1>1, AbsoluteName, Fetched DEF Asked
<1>4. Popped(2) \in Seq(Values)
  BY <1>3, SeqTrim DEF Popped
<1>5. ASSUME NEW m \in 1..Len(modules), Advance(Append(Popped(2), Module(m)))
      PROVE  ImportInv'
  <2> PICK v : v = Module(m)
    OBVIOUS
  <2>1. v \in Values /\ IsModule(v)
    BY <1>2, ModuleValue
  <2> PICK s : s = Append(Popped(2), v)
    OBVIOUS
  <2>2. s \in Seq(Values) /\ Len(s) = Len(Popped(2)) + 1 /\ Len(Popped(2)) \in Nat /\ s[Len(s)] = v
    BY <1>4, <2>1, SeqPush
  <2>3. Advance(s) /\ Len(s) > 0
    BY <1>5, <2>2
  <2> QED BY <1>1, <1>3, <2>1, <2>2, <2>3, Stepping
<1>6. CASE Operand(0) # None
  <2>1. Advance(Append(Popped(2), reply))
    BY <1>6 DEF IMPORT_NAME_returns
  <2> QED BY <1>2, <1>5, <2>1
<1>7. CASE Operand(0) = None
  <2> PICK name : name = top.asked
    OBVIOUS
  <2>1. name \in DOMAIN sys_modules /\ name \in Seq(Identifiers) /\ name # << >>
    BY <1>2, <1>3 DEF ImportInv, HeapTyped
  <2>2. Head(name) = name[1] /\ <<Head(name)>> \in DOMAIN sys_modules
    BY <2>1 DEF ImportInv, CacheClosed
  <2>3. sys_modules[<<Head(name)>>] \in 1..Len(modules)
    BY <2>2, TopFits DEF ImportInv, TypeOK
  <2>4. Advance(Append(Popped(2), Module(sys_modules[<<Head(name)>>])))
    BY <1>7, <2>2 DEF IMPORT_NAME_returns
  <2> QED BY <1>5, <2>3, <2>4
<1> QED BY <1>6, <1>7

(* The module an IMPORT_FROM reads from. *)
LEMMA FromModule ==
  ASSUME ImportInv, top.kind = "body", Instr[1] = "IMPORT_FROM"
  PROVE  /\ Opcode(top) = "IMPORT_FROM" /\ Waits(top) /\ Arg \in Identifiers
         /\ Len(top.stack) > 0 /\ top.stack \in Seq(Values)
         /\ IsModule(Operand(0)) /\ Operand(0)[2] \in 1..Len(modules)
         /\ Operand(0) = top.stack[Len(top.stack)]
<1>1. Opcode(top) = "IMPORT_FROM" /\ NeedsModule(top.code, top.ip)
  BY Fetched DEF NeedsModule, Opcode
<1>2. Arg \in Identifiers /\ Arg = top.code[top.ip][2] /\ top.stack \in Seq(Values)
  <2>1. Instr \in Instructions
    BY Fetched
  <2>2. Arg \in Identifiers
    BY <2>1 DEF Instructions, Arg
  <2> QED BY <2>2, Fetched
<1>3. /\ Len(top.stack) > 0 /\ IsModule(Operand(0)) /\ Operand(0)[2] \in 1..Len(modules)
      /\ Operand(0) = top.stack[Len(top.stack)]
  BY <1>1, HasValue
<1>4. Waits(top)
  BY <1>1 DEF Waits
<1> QED BY <1>1, <1>2, <1>3, <1>4

(* An attribute is put above the module. *)
LEMMA GoingOver ==
  ASSUME ImportInv, top.kind = "body", Instr[1] = "IMPORT_FROM", UNCHANGED <<files, heap, status>>,
         NEW v \in Values, Advance(Over(v))
  PROVE  ImportInv'
<1> PICK s : s = Append(top.stack, v)
  OBVIOUS
<1>1. /\ Opcode(top) = "IMPORT_FROM" /\ Len(top.stack) > 0 /\ top.stack \in Seq(Values)
      /\ IsModule(top.stack[Len(top.stack)])
  BY FromModule
<1>2. /\ s \in Seq(Values) /\ Len(s) = Len(top.stack) + 1 /\ Len(top.stack) \in Nat
      /\ \A i \in 1..Len(top.stack) : s[i] = top.stack[i]
  BY <1>1, SeqPush
<1>3. Len(s) - 1 = Len(top.stack) /\ Len(s) - 1 \in 1..Len(top.stack) /\ Len(s) > 1 /\ Len(s) > 0
  BY <1>1, <1>2
<1>4. IsModule(s[Len(s) - 1]) /\ Advance(s)
  BY <1>1, <1>2, <1>3 DEF Over
<1> QED BY <1>1, <1>2, <1>3, <1>4, Stepping

(* What a from-import takes from is always a module. *)
LEMMA StepIMPORT_FROM ==
  ASSUME ImportInv, IMPORT_FROM
  PROVE  ImportInv'
<1> PICK r : r = modules[Operand(0)[2]]
  OBVIOUS
<1>1. /\ top.kind = "body" /\ Instr[1] = "IMPORT_FROM" /\ UNCHANGED <<files, heap, status>>
      /\ reply = Unset
  BY DEF IMPORT_FROM, Fetch, Running
<1>2. /\ IsModule(Operand(0)) /\ Operand(0)[2] \in 1..Len(modules) /\ Waits(top)
      /\ Arg \in Identifiers
  BY <1>1, FromModule
<1>3. r \in Records
  BY <1>2, TopFits DEF HeapTyped
<1>4. CASE Arg \in DOMAIN r.globals
  <2> PICK v : v = r.globals[Arg]
    OBVIOUS
  <2>1. v \in Values
    <3>1. r.globals \in Namespaces
      BY <1>3 DEF Records
    <3> QED BY <1>4, <3>1, NamespaceType
  <2>2. Advance(Over(v))
    BY <1>2, <1>4 DEF IMPORT_FROM
  <2> QED BY <1>1, <2>1, <2>2, GoingOver
<1>5. CASE Arg \notin DOMAIN r.globals
  <2> PICK name : name = Append(r.name, Arg)
    OBVIOUS
  <2>1. r.name \in Seq(Identifiers)
    BY <1>3 DEF Records
  <2>2. name \in Seq(Identifiers) /\ Len(name) = Len(r.name) + 1 /\ Len(r.name) \in Nat
    BY <1>2, <2>1, SeqPush
  <2>3. name # << >>
    <3>1. Len(name) # 0
      BY <2>2
    <3> QED BY <3>1
  <2>4. Ask(name)
    BY <1>2, <1>5 DEF IMPORT_FROM
  <2> QED BY <1>1, <1>2, <2>2, <2>3, <2>4, AskingTop
<1> QED BY <1>4, <1>5

(* The submodule that the from-import has fallen back to. *)
LEMMA StepIMPORT_FROM_returns ==
  ASSUME ImportInv, IMPORT_FROM_returns
  PROVE  ImportInv'
<1>1. /\ top.kind = "body" /\ Instr[1] = "IMPORT_FROM" /\ UNCHANGED <<files, heap, status>>
      /\ reply # Unset /\ ~Failed(reply) /\ Advance(Over(reply))
  BY DEF IMPORT_FROM_returns, Answered
<1>2. reply[2] \in 1..Len(modules) /\ reply = Module(reply[2]) /\ Len(modules) \in Nat
  BY <1>1, ReplyFound
<1> PICK m : m = reply[2]
  OBVIOUS
<1>3. reply \in Values
  BY <1>2, ModuleValue
<1> PICK v : v = reply
  OBVIOUS
<1> QED BY <1>1, <1>3, GoingOver

(* What a star import takes from is always a module, and the importer's
   names stay. *)
LEMMA StepIMPORT_STAR ==
  ASSUME ImportInv, IMPORT_STAR
  PROVE  ImportInv'
<1> PICK s : s = Popped(1)
  OBVIOUS
<1> PICK d : d = [top EXCEPT !.ip = @ + 1, !.stack = s]
  OBVIOUS
<1> DEFINE from == modules[Operand(0)[2]].globals
           into == Namespace(top.module)
           public == DOMAIN from \ Private
           g == [x \in DOMAIN into \cup public |-> IF x \in public THEN from[x] ELSE into[x]]
<1>1. /\ top.kind = "body" /\ Instr[1] = "IMPORT_STAR"
      /\ UNCHANGED <<files, sys_modules, heap_lost, status>>
  BY DEF IMPORT_STAR, Fetch
<1>2. Opcode(top) = "IMPORT_STAR" /\ NeedsModule(top.code, top.ip)
  BY <1>1, Fetched DEF NeedsModule, Opcode
<1>3. IsModule(Operand(0)) /\ Operand(0)[2] \in 1..Len(modules) /\ s \in Seq(Values)
  BY <1>1, <1>2, HasValue
<1>4. SetNamespace(top.module, g) /\ calls' = WithTop(d) /\ reply' = Unset
  BY <1>3 DEF IMPORT_STAR, Advance
<1>5. g \in Namespaces /\ DOMAIN into \subseteq DOMAIN g
  <2>1. from \in Namespaces
    <3>1. modules[Operand(0)[2]] \in Records
      BY <1>3, TopFits DEF HeapTyped
    <3> QED BY <3>1 DEF Records
  <2>2. into \in Namespaces
    BY <1>1, Fetched, NamespaceTyped
  <2>3. /\ DOMAIN from \subseteq Identifiers /\ DOMAIN into \subseteq Identifiers
        /\ \A x \in DOMAIN from : from[x] \in Values
        /\ \A x \in DOMAIN into : into[x] \in Values
    BY <2>1, <2>2, NamespaceType
  <2> HIDE DEF from, into
  <2>4. g \in [DOMAIN into \cup public -> Values]
    BY <2>3
  <2>5. DOMAIN into \cup public \in SUBSET Identifiers
    BY <2>3
  <2>6. g \in Namespaces
    BY <2>4, <2>5, NamespaceWhen
  <2> QED BY <2>6
<1> HIDE DEF g
<1>6. Quiet
  BY <1>1, <1>4, <1>5, Fetched, SetQuiet
<1>7. StackFits(d)
  <2>1. ~Provides(top.code, top.ip) /\ ~Leaves(top.code, top.ip) /\ top \in Bodies
    BY <1>1, <1>2, Fetched DEF Provides, Leaves, Opcode
  <2> QED BY <1>2, <2>1, NextFits
<1>8. s \in Seq(Values')
  BY <1>3, <1>6, SeqValues
<1> QED BY <1>1, <1>2, <1>4, <1>6, <1>7, <1>8, Advancing

(* The script ends. *)
LEMMA StepHALT_main ==
  ASSUME ImportInv, HALT_main
  PROVE  ImportInv'
BY Still DEF HALT_main, Statuses

(* Nothing happens any more. *)
LEMMA StepEnded ==
  ASSUME ImportInv, UNCHANGED vars
  PROVE  ImportInv'
<1>1. UNCHANGED <<files, heap, calls, reply>> /\ status' \in Statuses
  BY TopFits DEF vars
<1> QED BY <1>1, Still

(* A body that fails leaves its module uninitialized. *)
LEMMA StepBodyFails ==
  ASSUME ImportInv, BodyFails
  PROVE  ImportInv'
<1>1. Failed(reply) /\ top.kind = "body" /\ UNCHANGED <<files, heap>>
  BY DEF BodyFails, Answered
<1>2. CASE top.module = 0
  BY <1>2, <1>1, Still DEF BodyFails, Statuses
<1>3. CASE top.module # 0 /\ heap_lost
  BY <1>3, <1>1, Still DEF BodyFails, Statuses
<1>4. CASE top.module # 0 /\ ~heap_lost
  <2>1. /\ calls' = Below /\ status' = status
        /\ reply' = IF Instr[1] = "IMPORT_FROM" THEN Err("CannotImportName") ELSE reply
    BY <1>4 DEF BodyFails, Return
  <2>2. \E e \in Errors \ {"internal"} : reply = Err(e)
    BY <1>1, ReplyFailed
  <2>3. "CannotImportName" \in Errors \ {"internal"}
    BY DEF Errors
  <2>4. \E e \in Errors \ {"internal"} : reply' = Err(e)
    BY <2>1, <2>2, <2>3
  <2>5. Quiet
    BY <1>1, StillQuiet
  <2> QED BY <1>4, <2>1, <2>4, <2>5, Returning
<1> QED BY <1>2, <1>3, <1>4

(* The body of a module has run to its end: it has bound what it says. *)
LEMMA AllBound ==
  ASSUME ImportInv, HALT_module
  PROVE  /\ top.module \in 2..Len(modules) /\ OfModule(top)
         /\ BoundBy(BodyOf(top.module)) \subseteq DOMAIN modules[top.module].globals
<1> PICK c : c = top
  OBVIOUS
<1>1. c.kind = "body" /\ c.module # 0 /\ Instr[1] = "HALT"
  BY DEF HALT_module, Fetch
<1>2. /\ HeapTyped /\ CallFits(c) /\ BodyFits(c) /\ Opcode(c) = "HALT" /\ Len(modules) \in Nat
  BY <1>1, TopFits, Fetched DEF CallFits
<1>3. OfModule(c)
  BY <1>1, <1>2 DEF BodyFits
<1>4. c.module \in 0..Len(modules) /\ c.ip \in 1..Len(c.code) /\ c.ip = Len(c.code)
  BY <1>1, <1>2, HasOperands
<1>5. c.module \in 2..Len(modules)
  BY <1>1, <1>2, <1>3, <1>4 DEF OfModule
<1>6. ASSUME NEW x \in BoundBy(BodyOf(c.module))  PROVE x \in DOMAIN modules[c.module].globals
  <2>1. Storing(c.code, x)
    BY <1>3 DEF OfModule, Code
  <2>2. PICK i \in 1..Len(c.code) : c.code[i] = <<"STORE_GLOBAL", x>>
    BY <2>1 DEF Storing
  <2>3. Op(c.code, i) = "STORE_GLOBAL" /\ c.code[i][2] = x
    BY <2>2 DEF Op
  <2>4. i # c.ip
    BY <1>2, <2>3 DEF Opcode
  <2>5. i \in 1..c.ip - 1
    BY <1>4, <2>4
  <2> QED BY <1>3, <2>3, <2>5 DEF OfModule
<1> QED BY <1>3, <1>5, <1>6

(* A body that ends has bound every name its statements bind; the module is
   initialized and an attribute of its parent, and no body below it runs
   that module. *)
LEMMA StepHALT_module ==
  ASSUME ImportInv, HALT_module
  PROVE  ImportInv'
<1> PICK m : m = top.module
  OBVIOUS
<1> PICK p : p = top.parent
  OBVIOUS
<1> PICK x : x = Leaf(top.name)
  OBVIOUS
<1> DEFINE r == [modules[m] EXCEPT !.initialized = TRUE]
           done == [modules EXCEPT ![m] = r]
           q == [done[p] EXCEPT !.globals = Insert(@, x, Module(m))]
<1>1. /\ modules' = IF p = 0 THEN done ELSE [done EXCEPT ![p] = q]
      /\ calls' = Below /\ reply' = Module(m) /\ top.kind = "body" /\ m # 0
      /\ UNCHANGED <<files, globals, sys_modules, heap_lost, status>>
  BY DEF HALT_module, Return, Fetch
<1>2. /\ HeapTyped /\ modules \in Seq(Records) /\ Len(modules) \in Nat /\ m \in 2..Len(modules)
      /\ m \in 1..Len(modules) /\ CallsFit /\ BodiesNest /\ Len(calls) \in Nat /\ Len(calls) > 0
      /\ heap_lost \in BOOLEAN /\ status \in Statuses /\ top \in Bodies
      /\ Len(calls) \in 1..Len(calls)
  BY <1>1, TopFits, AllBound, Fetched DEF HeapTyped
<1>3. x \in Identifiers /\ p \in 0..Len(modules)
  <2>1. top.name \in Seq(Identifiers) /\ top.name # << >>
    BY <1>2, AllBound DEF Bodies, OfModule
  <2> QED BY <1>2, <2>1 DEF Bodies, Leaf
<1>4. modules[m] \in Records
  BY <1>2
<1>5. /\ r \in Records /\ r.name = modules[m].name /\ r.file = modules[m].file
      /\ r.initialized = TRUE
      /\ r.globals = modules[m].globals
  BY <1>4 DEF Records
<1> HIDE DEF r
<1>6. /\ done \in Seq(Records) /\ Len(done) = Len(modules) /\ done[m] = r
      /\ \A i \in 1..Len(modules) : i # m => done[i] = modules[i]
  BY <1>2, <1>5, SeqSet
<1> HIDE DEF done
<1>7. ASSUME NEW i \in 1..Len(modules)
      PROVE  /\ done[i].name = modules[i].name /\ done[i].file = modules[i].file
             /\ done[i].globals = modules[i].globals
             /\ done[i].initialized = (IF i = m THEN TRUE ELSE modules[i].initialized)
  BY <1>5, <1>6
<1>8. /\ modules' \in Seq(Records) /\ Len(modules') = Len(modules)
      /\ \A i \in 1..Len(modules) :
           /\ modules'[i].name = modules[i].name /\ modules'[i].file = modules[i].file
           /\ DOMAIN modules[i].globals \subseteq DOMAIN modules'[i].globals
           /\ modules'[i].initialized = (IF i = m THEN TRUE ELSE modules[i].initialized)
  <2>1. CASE p = 0
    BY <1>1, <1>6, <1>7, <2>1
  <2>2. CASE p # 0
    <3>1. p \in 1..Len(done) /\ done[p] \in Records
      BY <1>2, <1>3, <1>6, <2>2
    <3>2. Module(m) \in Values
      BY <1>2, ModuleValue
    <3>3. done[p].globals \in Namespaces
      BY <3>1 DEF Records
    <3>4. /\ Insert(done[p].globals, x, Module(m)) \in Namespaces
          /\ DOMAIN done[p].globals \subseteq DOMAIN Insert(done[p].globals, x, Module(m))
      <4> PICK g : g = done[p].globals
        OBVIOUS
      <4> PICK v : v = Module(m)
        OBVIOUS
      <4>1. Insert(g, x, v) \in Namespaces /\ DOMAIN Insert(g, x, v) = DOMAIN g \cup {x}
        BY <1>3, <3>2, <3>3, InsertType
      <4> QED BY <4>1
    <3>5. /\ q \in Records /\ q.name = done[p].name /\ q.file = done[p].file
          /\ q.initialized = done[p].initialized
          /\ DOMAIN done[p].globals \subseteq DOMAIN q.globals
      BY <3>1, <3>4 DEF Records
    <3> HIDE DEF q
    <3>6. modules' = [done EXCEPT ![p] = q]
      BY <1>1, <2>2
    <3>7. /\ modules' \in Seq(Records) /\ Len(modules') = Len(done) /\ modules'[p] = q
          /\ \A i \in 1..Len(done) : i # p => modules'[i] = done[i]
      BY <1>6, <3>1, <3>5, <3>6, SeqSet
    <3>8. ASSUME NEW i \in 1..Len(modules)
          PROVE  /\ modules'[i].name = modules[i].name /\ modules'[i].file = modules[i].file
                 /\ DOMAIN modules[i].globals \subseteq DOMAIN modules'[i].globals
                 /\ modules'[i].initialized = (IF i = m THEN TRUE ELSE modules[i].initialized)
      <4>1. /\ done[i].name = modules[i].name /\ done[i].file = modules[i].file
            /\ done[i].globals = modules[i].globals
            /\ done[i].initialized = (IF i = m THEN TRUE ELSE modules[i].initialized)
        BY <1>7
      <4>2. i \in 1..Len(done)
        BY <1>6
      <4>3. CASE i = p
        BY <3>5, <3>7, <4>1, <4>3
      <4>4. CASE i # p
        BY <3>7, <4>1, <4>2, <4>4
      <4> QED BY <4>3, <4>4
    <3> QED BY <1>6, <3>7, <3>8
  <2> QED BY <2>1, <2>2
<1>9. Grows
  <2>1. files' = files /\ sys_modules' = sys_modules
    BY <1>1
  <2>2. Len(modules') >= Len(modules)
    <3>1. Len(modules) \in Nat /\ Len(modules') = Len(modules)
      BY <1>2, <1>8
    <3> QED BY <3>1
  <2>3. \A i \in 1..Len(modules) :
          /\ modules'[i].name = modules[i].name /\ modules'[i].file = modules[i].file
          /\ DOMAIN modules[i].globals \subseteq DOMAIN modules'[i].globals
    BY <1>8
  <2> QED BY <2>1, <2>2, <2>3 DEF Grows
<1>10. HeapTyped'
  <2>1. Values' = Values
    BY <1>8 DEF Values
  <2>2. Namespaces' = Namespaces
    BY <2>1 DEF Namespaces
  <2>3. Records' = Records
    BY <2>2 DEF Records
  <2>4. \A i \in 2..Len(modules') : modules'[i].file \in DOMAIN files'
    <3>1. \A i \in 2..Len(modules') : i \in 1..Len(modules)
      BY <1>2, <1>8
    <3> QED BY <1>1, <1>2, <1>8, <3>1 DEF HeapTyped
  <2>5. globals' \in Namespaces' /\ modules' \in Seq(Records')
    BY <1>1, <1>2, <1>8, <2>2, <2>3 DEF HeapTyped
  <2>6. \A n \in DOMAIN sys_modules' : n \in Seq(Identifiers) \ {<< >>}
    BY <1>1, <1>2 DEF HeapTyped
  <2> QED BY <2>4, <2>5, <2>6 DEF HeapTyped
<1>11. Calm
  BY <1>1, <1>2, <1>8, <1>9, <1>10 DEF Calm
<1>12. /\ CallsFit'
       /\ Len(calls') = Len(calls) - 1 /\ Len(calls') > 0
       /\ \A i \in 1..Len(calls') : calls'[i] = calls[i] /\ i \in 1..Len(calls) - 1
       /\ Waits(calls'[Len(calls')]) /\ Asked(calls[Len(calls)])' = top.name
  BY <1>1, <1>9, <1>10, Returned
<1>13. modules'[m].name = top.name /\ top.name \in DOMAIN sys_modules'
  BY <1>1, <1>2, <1>8, AllBound DEF OfModule
<1>14. ReplyFits' /\ reply' \in Results'
  <2>1. m \in DOMAIN modules'
    BY <1>2, <1>8
  <2> QED BY <1>1, <1>12, <1>13, <2>1, ReplyStep
<1>15. BodiesNest'
  <2>1. \A i \in 1..Len(calls') : i \in 1..Len(calls) /\ i < Len(calls) /\ calls'[i] = calls[i]
    BY <1>2, <1>12
  <2>2. ASSUME NEW i \in 2..Len(calls'), calls'[i].kind = "body"
        PROVE  modules'[calls'[i].module].initialized = modules[calls'[i].module].initialized
    <3>1. i \in 1..Len(calls')
      OBVIOUS
    <3>2. i \in 2..Len(calls) /\ i \in 1..Len(calls) /\ i < Len(calls) /\ calls'[i] = calls[i]
      BY <2>1, <3>1
    <3>3. CallFits(calls[i]) /\ calls[i].module # 0
      BY <2>2, <3>2, <1>2 DEF CallsFit
    <3>4. calls[i].module \in 0..Len(modules)
      BY <2>2, <3>2, <3>3, <1>2, HasOperands
    <3>5. calls[i].module < m
      BY <1>1, <1>2, <2>2, <3>2 DEF BodiesNest, top
    <3>6. calls[i].module \in 1..Len(modules) /\ calls[i].module # m
      BY <1>2, <3>3, <3>4, <3>5
    <3> QED BY <3>2, <3>6, <1>8
  <2>3. Len(calls') \in Nat
    BY <1>2, <1>12
  <2> QED BY <1>2, <2>1, <2>2, <2>3, BodiesStep
<1>16. RunsBound'
  <2> SUFFICES ASSUME NEW i \in 2..Len(modules), modules'[i].initialized
               PROVE  BoundBy(BodyOf(i)') \subseteq DOMAIN modules'[i].globals
    BY <1>8 DEF RunsBound
  <2>1. i \in 1..Len(modules)
    OBVIOUS
  <2>2. BodyOf(i)' = BodyOf(i) /\ DOMAIN modules[i].globals \subseteq DOMAIN modules'[i].globals
    BY <1>1, <1>8, <2>1 DEF BodyOf
  <2>3. CASE i = m
    <3>1. BoundBy(BodyOf(i)) \subseteq DOMAIN modules[i].globals
      BY <2>3, AllBound
    <3> QED BY <2>2, <3>1
  <2>4. CASE i # m
    <3>1. modules[i].initialized
      BY <1>8, <2>1, <2>4
    <3>2. BoundBy(BodyOf(i)) \subseteq DOMAIN modules[i].globals
      BY <3>1 DEF ImportInv, RunsBound
    <3> QED BY <2>2, <3>2
  <2> QED BY <2>3, <2>4
<1>17. status' \in Statuses
  BY <1>1, <1>2
<1> QED BY <1>10, <1>11, <1>12, <1>14, <1>15, <1>16, <1>17, CalmKeeps, TypeWhen DEF ImportInv

-------------------------------------------------------------------------------
(* Requests. *)
LEMMA FirstFileFinds ==
  ASSUME NEW cands, NEW n \in Nat, DOMAIN cands = 1..n
  PROVE  FirstFile(cands) = NoPath \/ FirstFile(cands) \in DOMAIN files
<1> DEFINE S == {i \in 1..n : cands[i] \in DOMAIN files}
<1>1. CASE S = {}
  BY <1>1 DEF FirstFile
<1>2. CASE S # {}
  <2>1. S \in SUBSET Nat
    OBVIOUS
  <2>2. PICK m \in S : \A k \in S : m <= k
    <3> HIDE DEF S
    <3> QED BY <1>2, <2>1, Least
  <2>3. m \in 1..n /\ cands[m] \in DOMAIN files
    OBVIOUS
  <2>4. \A j \in 1..m - 1 : cands[j] \notin DOMAIN files
    <3> SUFFICES ASSUME NEW j \in 1..m - 1, cands[j] \in DOMAIN files  PROVE FALSE
      OBVIOUS
    <3>1. j \in S /\ j < m /\ m \in Nat /\ j \in Nat
      BY <2>3
    <3> QED BY <2>2, <3>1
  <2> DEFINE P(i) == cands[i] \in DOMAIN files /\ \A j \in 1..i - 1 : cands[j] \notin DOMAIN files
  <2>5. \E i \in DOMAIN cands : P(i)
    BY <2>3, <2>4
  <2>6. FirstFile(cands) = cands[CHOOSE i \in DOMAIN cands : P(i)]
    BY <2>3 DEF FirstFile
  <2>7. P(CHOOSE i \in DOMAIN cands : P(i))
    <3> HIDE DEF P
    <3> QED BY <2>5
  <2> QED BY <2>6, <2>7
<1> QED BY <1>1, <1>2

(* The name of a request that runs, and of its parent. *)
LEMMA RequestTyped ==
  ASSUME ImportInv, top.kind = "resolve"
  PROVE  /\ top.name \in Seq(Identifiers) /\ top.name # << >> /\ top \in Requests
         /\ Parent(top.name) \in Seq(Identifiers)
         /\ (Len(top.name) > 1 => Parent(top.name) # << >>)
         /\ Len(top.name) \in Nat /\ Len(top.name) > 0
<1> PICK c : c = top
  OBVIOUS
<1> PICK s : s = c.name
  OBVIOUS
<1>1. CallFits(c)
  BY TopFits
<1>2. c \in Requests /\ s # << >>
  BY <1>1 DEF CallFits
<1>3. s \in Seq(Identifiers)
  BY <1>2 DEF Requests
<1>4. Len(s) \in Nat /\ Len(s) > 0
  BY <1>2, <1>3
<1> PICK q : q = Parent(s)
  OBVIOUS
<1>5. q \in Seq(Identifiers) /\ Len(q) = Len(s) - 1
  BY <1>3, <1>4, SeqTrim DEF Parent
<1>6. Len(s) > 1 => q # << >>
  BY <1>4, <1>5
<1> QED BY <1>2, <1>3, <1>4, <1>5, <1>6

(* Each step of a request keeps the invariant: the cache has the module of
   that name. *)
LEMMA StepResolveCached ==
  ASSUME ImportInv, ResolveCached
  PROVE  ImportInv'
<1>1. /\ top.kind = "resolve" /\ top.name \in DOMAIN sys_modules /\ calls' = Below
      /\ reply' = Module(sys_modules[top.name]) /\ UNCHANGED <<files, heap, status>>
      /\ modules' = modules /\ sys_modules' = sys_modules /\ status' = status
  BY DEF ResolveCached, Requested, Cached, Return, heap
<1>2. Quiet
  BY <1>1, StillQuiet
<1>3. sys_modules[top.name] \in DOMAIN modules /\ modules[sys_modules[top.name]].name = top.name
  BY <1>1 DEF ImportInv, TypeOK
<1> QED BY <1>1, <1>2, <1>3, Returning

(* The parent could not be loaded. *)
LEMMA StepResolveFails ==
  ASSUME ImportInv, ResolveFails
  PROVE  ImportInv'
<1>1. /\ top.kind = "resolve" /\ Failed(reply) /\ calls' = Below /\ reply' = reply
      /\ UNCHANGED <<files, heap, status>> /\ status' = status
  BY DEF ResolveFails, Answered, Return
<1>2. Quiet
  BY <1>1, StillQuiet
<1>3. \E e \in Errors \ {"internal"} : reply' = Err(e)
  BY <1>1, ReplyFailed
<1> QED BY <1>1, <1>2, <1>3, Returning

(* The parent is asked for first. *)
LEMMA StepResolveParent ==
  ASSUME ImportInv, ResolveParent
  PROVE  ImportInv'
<1> PICK d : d = [top EXCEPT !.waiting = TRUE]
  OBVIOUS
<1> PICK p : p = Parent(top.name)
  OBVIOUS
<1>1. /\ top.kind = "resolve" /\ reply = Unset /\ reply' = reply
      /\ UNCHANGED <<files, heap, status>> /\ Len(top.name) > 1
      /\ calls' = Append(WithTop(d), Resolve(p))
  BY DEF ResolveParent, Requested, Running
<1>2. /\ top \in Requests /\ p \in Seq(Identifiers) /\ p # << >>
      /\ top.name \in Seq(Identifiers) /\ top.name # << >>
  BY <1>1, RequestTyped
<1>3. d \in Requests /\ d.kind = "resolve" /\ d.name = top.name /\ d.waiting = TRUE
  BY <1>2 DEF Requests
<1>4. d \in Requests' /\ CallFits(d)'
  BY <1>2, <1>3 DEF Requests, CallFits
<1>5. Waits(d) /\ Asked(d)' = p
  BY <1>1, <1>3 DEF Waits, Asked, Parent
<1>6. d.kind = top.kind /\ (d.kind = "body" => d.module = top.module)
  BY <1>1, <1>3
<1> QED BY <1>1, <1>2, <1>3, <1>4, <1>5, <1>6, Asking

(* The namespace that a module is made with. *)
LEMMA NewGlobalsTyped ==
  ASSUME NEW name \in Seq(Identifiers), name # << >>, NEW is_package
  PROVE  /\ NewGlobals(name, is_package) \in Namespaces
         /\ DOMAIN NewGlobals(name, is_package) = ModuleNames
         /\ NewGlobals(name, is_package)["__package__"] = PackageOf(name, is_package)
<1>1. None \in Values
  BY DEF None, Values, Tags
<1>2. ASSUME NEW s \in Seq(Identifiers), s # << >>  PROVE Str(s) \in Values
  BY <1>2 DEF Str, Values, Strings
<1>3. Text \in Values
  <2>1. <<"text">> \in Seq(Identifiers) /\ <<"text">> # << >>
    <3>1. "text" \in Identifiers
      BY DEF Identifiers
    <3> QED BY <3>1
  <2> QED BY <1>2, <2>1 DEF Text
<1>4. PackageOf(name, is_package) \in Values
  <2>1. Len(name) > 1 => Parent(name) \in Seq(Identifiers) /\ Parent(name) # << >>
    <3> PICK k : k = Len(name)
      OBVIOUS
    <3> PICK p : p = Parent(name)
      OBVIOUS
    <3>1. k \in Nat /\ 1 \in Nat
      OBVIOUS
    <3>2. k > 1 => p \in Seq(Identifiers) /\ Len(p) = k - 1
      BY <3>1, SeqTrim DEF Parent
    <3>3. k > 1 => p # << >>
      BY <3>1, <3>2
    <3> QED BY <3>2, <3>3
  <2>2. Str(name) \in Values /\ (Len(name) > 1 => Str(Parent(name)) \in Values)
    BY <1>2, <2>1
  <2> QED BY <1>1, <2>2 DEF PackageOf
<1> PICK v : v = PackageOf(name, is_package)
  OBVIOUS
<1> PICK w : w = Str(name)
  OBVIOUS
<1>5. v \in Values /\ w \in Values
  BY <1>2, <1>4
<1> DEFINE K(x) == CASE x = "__name__" -> w
                     [] x = "__file__" -> Text
                     [] x = "__doc__"  -> None
                     [] x = "__package__" -> v
           g == [x \in ModuleNames |-> K(x)]
<1>6. NewGlobals(name, is_package) = g
  BY DEF NewGlobals
<1>7. DOMAIN g = ModuleNames /\ g["__package__"] = v
  BY DEF ModuleNames
<1>8. g \in [ModuleNames -> Values]
  <2>1. \A x \in ModuleNames : K(x) \in Values
    BY <1>1, <1>3, <1>5 DEF ModuleNames
  <2> HIDE DEF K
  <2> QED BY <2>1
<1>9. ModuleNames \in SUBSET Identifiers
  BY DEF Identifiers
<1> HIDE DEF g
<1>10. g \in Namespaces
  BY <1>8, <1>9, NamespaceWhen
<1> QED BY <1>6, <1>7, <1>10

(* The call of a body that begins is well typed. *)
LEMMA FreshBody ==
  ASSUME NEW S, NEW n \in S, NEW M, NEW m \in M, NEW p \in M, NEW C, NEW c \in C,
         NEW V, NEW e \in S, e \in V
  PROVE  [kind |-> "body", name |-> n, module |-> m, parent |-> p, code |-> c, ip |-> 1,
          stack |-> e, asked |-> e]
           \in [kind : {"body"}, name : S, module : M, parent : M, code : C, ip : Nat,
                stack : V, asked : S]
OBVIOUS

(* A request that begins a module: its body takes the request's place, and
   is the one of the newest module. *)
LEMMA Beginning ==
  ASSUME ImportInv, files' = files, top.kind = "resolve",
         NEW parent \in 0..Len(modules), Child(top.name, parent),
         NEW file \in DOMAIN files, NEW is_package,
         Len(top.name) > 1 => Parent(top.name) \in DOMAIN sys_modules,
         Begin(top.name, parent, file, is_package)
  PROVE  ImportInv'
<1> PICK N : N = Len(modules)
  OBVIOUS
<1> PICK name : name = top.name
  OBVIOUS
<1> PICK body : body = files[file].body
  OBVIOUS
<1> PICK r : r = NewModule(name, file, is_package)
  OBVIOUS
<1> PICK d : d = Body(name, N + 1, parent, body)
  OBVIOUS
<1> PICK n : n = Len(calls)
  OBVIOUS
<1>1. /\ modules' = Append(modules, r) /\ sys_modules' = Insert(sys_modules, name, N + 1)
      /\ calls' = WithTop(d) /\ reply' = Unset /\ UNCHANGED <<globals, heap_lost, status>>
  BY DEF Begin, CacheAs
<1>2. /\ HeapTyped /\ modules \in Seq(Records) /\ CallsFit /\ BodiesNest /\ CacheClosed /\ RunsBound
      /\ TypeOK /\ N \in Nat /\ N > 0 /\ n \in 1..n /\ n \in Nat /\ calls \in Seq(Requests \cup Bodies)
      /\ heap_lost \in BOOLEAN /\ status \in Statuses /\ FilesTyped
  BY TopFits DEF ImportInv, HeapTyped, CacheClosed, TypeOK
<1>3. /\ name \in Seq(Identifiers) /\ name # << >> /\ Parent(name) \in Seq(Identifiers)
      /\ Len(name) \in Nat /\ Len(name) > 0
  BY RequestTyped
<1>4. file \in Seq(Identifiers) /\ body \in Seq(Statements)
  BY <1>2 DEF FilesTyped
<1> PICK g : g = NewGlobals(name, is_package)
  OBVIOUS
<1>5. /\ r.name = name /\ r.file = file /\ r.initialized = FALSE /\ r.globals = g
      /\ r = [name |-> name, file |-> file, initialized |-> FALSE, globals |-> g]
  BY DEF NewModule
<1>6. g \in Namespaces
  BY <1>3, NewGlobalsTyped
<1>7. r \in Records
  BY <1>3, <1>4, <1>5, <1>6 DEF Records
<1>8. /\ modules' \in Seq(Records) /\ Len(modules') = N + 1 /\ modules'[N + 1] = r
      /\ \A i \in 1..N : modules'[i] = modules[i]
  BY <1>1, <1>2, <1>7, SeqPush
<1>9. /\ DOMAIN sys_modules' = DOMAIN sys_modules \cup {name} /\ sys_modules'[name] = N + 1
      /\ \A x \in DOMAIN sys_modules : x # name => sys_modules'[x] = sys_modules[x]
  BY <1>1 DEF Insert
<1>10. Grows
  BY <1>2, <1>8, <1>9 DEF Grows
<1>11. HeapTyped'
  <2>1. /\ Records \subseteq Records' /\ Namespaces \subseteq Namespaces'
    BY <1>2, <1>8, SetsGrow
  <2>2. modules' \in Seq(Records')
    BY <1>8, <2>1, SeqGrows
  <2>3. globals' \in Namespaces'
    BY <1>1, <1>2, <2>1 DEF HeapTyped
  <2>4. \A x \in DOMAIN sys_modules' : x \in Seq(Identifiers) \ {<< >>}
    BY <1>2, <1>3, <1>9 DEF HeapTyped
  <2>5. ASSUME NEW m \in 2..Len(modules')  PROVE modules'[m].file \in DOMAIN files'
    <3>1. CASE m = N + 1
      BY <3>1, <1>5, <1>8
    <3>2. CASE m # N + 1
      <4>1. m \in 1..N /\ m \in 2..Len(modules)
        BY <3>2, <1>2, <1>8
      <4> QED BY <4>1, <1>2, <1>8 DEF HeapTyped
    <3> QED BY <3>1, <3>2
  <2> QED BY <2>2, <2>3, <2>4, <2>5 DEF HeapTyped
<1>12. /\ d.kind = "body" /\ d.name = name /\ d.module = N + 1 /\ d.parent = parent
       /\ d.code = compile(body) /\ d.ip = 1 /\ d.stack = << >>
       /\ d = [kind |-> "body", name |-> name, module |-> N + 1, parent |-> parent,
               code |-> compile(body), ip |-> 1, stack |-> << >>, asked |-> << >>]
  BY DEF Body
<1>13. Code(d.code, body)
  BY <1>4, <1>12, CompiledCode
<1>14. CallFits(d)'
  <2>1. d.code \in Seq(Instructions) /\ d.ip \in 1..Len(d.code)
    BY <1>12, <1>13 DEF Code
  <2>2. d \in Bodies'
    <3> PICK e : e = << >>
      OBVIOUS
    <3>1. N + 1 \in 0..Len(modules') /\ parent \in 0..Len(modules') /\ 1 \in Nat
      BY <1>2, <1>8
    <3>2. e \in Seq(Values') /\ e \in Seq(Identifiers)
      OBVIOUS
    <3> PICK code : code = d.code
      OBVIOUS
    <3>3. d = [kind |-> "body", name |-> name, module |-> N + 1, parent |-> parent,
               code |-> code, ip |-> 1, stack |-> e, asked |-> e]
      BY <1>12
    <3>4. name \in Seq(Identifiers) /\ code \in Seq(Instructions)
      BY <1>3, <2>1
    <3>5. [kind |-> "body", name |-> name, module |-> N + 1, parent |-> parent,
           code |-> code, ip |-> 1, stack |-> e, asked |-> e] \in Bodies'
      <4> HIDE <3>3
      <4> QED BY <3>1, <3>2, <3>4, FreshBody DEF Bodies
    <3> QED BY <3>3, <3>5, Zenon
  <2>3. StackFits(d)'
    BY <1>12 DEF StackFits
  <2>4. Child(name, parent)'
    <3>1. CASE Len(name) = 1
      BY <3>1 DEF Child
    <3>2. CASE Len(name) # 1
      <4>1. parent \in 1..N /\ modules[parent].name = Parent(name)
        BY <1>2, <3>2 DEF Child
      <4> QED BY <4>1, <1>8, <3>2 DEF Child, Parent
    <3> QED BY <3>1, <3>2
  <2>5. BodyOf(N + 1)' = body
    BY <1>5, <1>8 DEF BodyOf
  <2>6. OfModule(d)'
    <3>1. d.name # << >> /\ d.name \in DOMAIN sys_modules' /\ d.module # 1
      BY <1>2, <1>3, <1>9, <1>12
    <3>2. modules'[d.module].name = d.name /\ Child(d.name, d.parent)'
      BY <1>5, <1>8, <1>12, <2>4
    <3>3. Code(d.code, BodyOf(d.module)')
      BY <1>12, <1>13, <2>5
    <3>4. \A i \in 1..d.ip - 1 :
            Op(d.code, i) = "STORE_GLOBAL" => d.code[i][2] \in DOMAIN modules'[d.module].globals
      BY <1>12
    <3> QED BY <3>1, <3>2, <3>3, <3>4 DEF OfModule
  <2>7. d.module # 0
    BY <1>2, <1>12
  <2> QED BY <1>12, <2>1, <2>2, <2>3, <2>6, <2>7 DEF CallFits, BodyFits
<1>15. d \in Bodies'
  BY <1>12, <1>14 DEF CallFits, BodyFits
<1> DEFINE T == (Requests \cup Bodies)'
<1>16. calls \in Seq(T) /\ d \in T
  <2>1. Requests \cup Bodies \subseteq T
    BY <1>2, <1>8, SetsGrow
  <2>2. d \in T
    BY <1>15
  <2> HIDE DEF T
  <2> QED BY <1>2, <2>1, <2>2, SeqGrows
<1>17. calls' \in Seq(T) /\ Len(calls') = n /\ calls'[n] = d /\ \A i \in 1..n : i # n => calls'[i] = calls[i]
  <2> HIDE DEF T
  <2>1. calls' = [calls EXCEPT ![n] = d]
    BY <1>1 DEF WithTop
  <2> QED BY <1>2, <1>16, <2>1, SeqSet
<1> HIDE DEF T
<1>18. n # 1 /\ calls[n].kind = "resolve" /\ calls[n].name = name
  <2>1. calls[n] = top
    BY DEF top
  <2> QED BY <2>1, <1>2 DEF CallsFit
<1>19. CallsFit'
  <2>1. \A i \in 1..n - 1 : calls'[i] = calls[i]
    BY <1>2, <1>17
  <2>2. n \in 1..Len(calls) /\ d.name = calls[n].name
    BY <1>2, <1>12, <1>18
  <2>3. d.module # 0
    BY <1>2, <1>12
  <2> QED BY <1>2, <1>10, <1>11, <1>14, <1>17, <1>18, <2>1, <2>2, <2>3, CallsStep DEF T
<1>20. \A i \in 1..n - 1 : calls'[i] = calls[i] /\ i \in 1..Len(calls)
  BY <1>2, <1>17
<1>21. BodiesNest'
  <2>1. ASSUME NEW i \in 1..n - 1, calls'[i].kind = "body"
        PROVE  calls[i].module \in 0..N /\ calls[i].kind = "body" /\ calls'[i] = calls[i]
    <3>1. calls'[i] = calls[i] /\ i \in 1..Len(calls)
      BY <1>20
    <3>2. CallFits(calls[i]) /\ calls[i].kind = "body"
      BY <2>1, <3>1, <1>2 DEF CallsFit
    <3> QED BY <3>1, <3>2, <1>2, HasOperands
  <2>2. ASSUME NEW i \in 1..Len(calls'), NEW j \in 1..Len(calls'), i < j,
               calls'[i].kind = "body", calls'[j].kind = "body"
        PROVE  calls'[i].module < calls'[j].module
    <3>1. i \in 1..n - 1
      BY <1>2, <1>17, <2>2
    <3>2. calls[i].module \in 0..N /\ calls[i].kind = "body" /\ calls'[i] = calls[i]
      BY <2>1, <2>2, <3>1
    <3>3. CASE j = n
      BY <3>2, <3>3, <1>2, <1>12, <1>17
    <3>4. CASE j # n
      <4>1. j \in 1..n - 1
        BY <1>2, <1>17, <3>4
      <4>2. calls[j].kind = "body" /\ calls'[j] = calls[j]
        BY <2>1, <2>2, <4>1
      <4>3. i \in 1..Len(calls) /\ j \in 1..Len(calls)
        BY <3>1, <4>1, <1>20
      <4> QED BY <2>2, <3>2, <4>2, <4>3, <1>2 DEF BodiesNest
    <3> QED BY <3>3, <3>4
  <2>3. ASSUME NEW i \in 2..Len(calls'), calls'[i].kind = "body"
        PROVE  ~modules'[calls'[i].module].initialized
    <3>1. CASE i = n
      BY <3>1, <1>5, <1>8, <1>12, <1>17
    <3>2. CASE i # n
      <4>1. i \in 1..n - 1 /\ i \in 2..Len(calls)
        BY <1>2, <1>17, <3>2
      <4>2. calls[i].module \in 0..N /\ calls[i].kind = "body" /\ calls'[i] = calls[i]
        BY <2>1, <2>3, <4>1
      <4>3. calls[i].module # 0 /\ ~modules[calls[i].module].initialized
        BY <4>1, <4>2, <1>2 DEF CallsFit, BodiesNest
      <4>4. calls[i].module \in 1..N
        BY <4>2, <4>3, <1>2
      <4> QED BY <4>2, <4>3, <4>4, <1>8
    <3> QED BY <3>1, <3>2
  <2> QED BY <2>2, <2>3 DEF BodiesNest
<1>22. CacheClosed'
  <2>1. ASSUME NEW m \in 1..Len(modules')  PROVE modules'[m].name \in DOMAIN sys_modules'
    <3>1. CASE m = N + 1
      BY <3>1, <1>5, <1>8, <1>9
    <3>2. CASE m # N + 1
      <4>1. m \in 1..N
        BY <3>2, <1>2, <1>8
      <4> QED BY <4>1, <1>2, <1>8, <1>9 DEF CacheClosed
    <3> QED BY <3>1, <3>2
  <2>2. <<name[1]>> \in DOMAIN sys_modules'
    <3>1. CASE Len(name) = 1
      <4>1. name = <<name[1]>>
        BY <1>3, <3>1
      <4> QED BY <4>1, <1>9
    <3>2. CASE Len(name) # 1
      <4> PICK p : p = Parent(name)
        OBVIOUS
      <4> PICK k : k = Len(name)
        OBVIOUS
      <4>0. k \in Nat /\ k > 0 /\ k # 1
        BY <1>3, <3>2
      <4>3. k > 1
        BY <4>0, MoreThanOne
      <4>1. p \in DOMAIN sys_modules
        <5>1. Len(top.name) > 1 /\ p = Parent(top.name)
          BY <4>3
        <5> QED BY <5>1
      <4>2. p[1] = name[1]
        <5>1. 1 \in 1..Len(name) - 1
          <6>1. 1 \in 1..k - 1
            BY <4>0, <4>3
          <6> QED BY <6>1
        <5>2. p = SubSeq(name, 1, Len(name) - 1) /\ 1 <= Len(name)
          BY <1>3 DEF Parent
        <5> QED BY <1>3, <5>1, <5>2, SeqTrim
      <4> QED BY <4>1, <4>2, <1>2, <1>9 DEF CacheClosed
    <3> QED BY <3>1, <3>2
  <2>3. \A x \in DOMAIN sys_modules' : <<x[1]>> \in DOMAIN sys_modules'
    BY <2>2, <1>2, <1>9 DEF CacheClosed
  <2>4. Len(modules') > 0
    BY <1>2, <1>8
  <2> QED BY <2>1, <2>3, <2>4 DEF CacheClosed
<1>23. RunsBound'
  <2> SUFFICES ASSUME NEW m \in 2..Len(modules'), modules'[m].initialized
               PROVE  BoundBy(BodyOf(m)') \subseteq DOMAIN modules'[m].globals
    BY DEF RunsBound
  <2>1. m # N + 1
    BY <1>5, <1>8
  <2>2. m \in 1..N /\ m \in 2..Len(modules)
    BY <2>1, <1>2, <1>8
  <2>3. modules'[m] = modules[m] /\ BodyOf(m)' = BodyOf(m)
    BY <2>2, <1>8 DEF BodyOf
  <2> QED BY <2>2, <2>3, <1>2 DEF RunsBound
<1>24. \A x \in DOMAIN sys_modules' : /\ sys_modules'[x] \in DOMAIN modules'
                                      /\ modules'[sys_modules'[x]].name = x
  <2> SUFFICES ASSUME NEW x \in DOMAIN sys_modules'
               PROVE  sys_modules'[x] \in DOMAIN modules' /\ modules'[sys_modules'[x]].name = x
    OBVIOUS
  <2>0. DOMAIN modules' = 1..N + 1 /\ DOMAIN modules = 1..N
    BY <1>2, <1>8
  <2>1. CASE x = name
    BY <2>0, <2>1, <1>2, <1>5, <1>8, <1>9
  <2>2. CASE x # name
    <3>1. x \in DOMAIN sys_modules /\ sys_modules'[x] = sys_modules[x]
      BY <2>2, <1>9
    <3>2. sys_modules[x] \in 1..N /\ modules[sys_modules[x]].name = x
      BY <2>0, <3>1, <1>2 DEF TypeOK
    <3> QED BY <2>0, <3>1, <3>2, <1>2, <1>8
  <2> QED BY <2>1, <2>2
<1>25. FilesTyped'
  BY <1>2 DEF FilesTyped
<1>26. ReplyFits' /\ reply' \in Results' /\ heap_lost' \in BOOLEAN /\ status' \in Statuses
  BY <1>1, <1>2, ReplyStep
<1> QED BY <1>11, <1>19, <1>21, <1>22, <1>23, <1>24, <1>25, <1>26, TypeWhen DEF ImportInv

(* The search, and what comes of it. *)
LEMMA Loading ==
  ASSUME ImportInv, files' = files, top.kind = "resolve",
         NEW parent \in 0..Len(modules), Child(top.name, parent),
         NEW dirs, NEW n \in Nat, DOMAIN dirs = 1..n,
         Len(top.name) > 1 => Parent(top.name) \in DOMAIN sys_modules,
         Load(top.name, parent, dirs)
  PROVE  ImportInv'
<1> PICK name : name = top.name
  OBVIOUS
<1> PICK package : package = find_package_in(dirs, Leaf(name))
  OBVIOUS
<1> PICK file : file = IF package # NoPath THEN package ELSE find_source_file_in(dirs, Leaf(name))
  OBVIOUS
<1>1. file = NoPath \/ file \in DOMAIN files
  <2>1. package = NoPath \/ package \in DOMAIN files
    <3> PICK cands : cands = [i \in DOMAIN dirs |-> Append(Join(dirs[i], Leaf(name)), "__init__")]
      OBVIOUS
    <3>1. DOMAIN cands = 1..n /\ package = FirstFile(cands)
      BY DEF find_package_in
    <3> QED BY <3>1, FirstFileFinds
  <2> PICK source : source = find_source_file_in(dirs, Leaf(name))
    OBVIOUS
  <2>2. source = NoPath \/ source \in DOMAIN files
    <3> PICK cands : cands = [i \in DOMAIN dirs |-> dirs[i] \o <<Leaf(name)>>]
      OBVIOUS
    <3>1. DOMAIN cands = 1..n /\ source = FirstFile(cands)
      BY DEF find_source_file_in
    <3> QED BY <3>1, FirstFileFinds
  <2> QED BY <2>1, <2>2
<1>2. \/ /\ file = NoPath
         /\ Return(Err("ModuleNotFound"))
         /\ UNCHANGED <<heap, status>>
      \/ /\ file # NoPath /\ files[file].kind # "compiles"
         /\ Return(Err(files[file].kind))
         /\ heap_lost' = (files[file].kind = "CompileError")
         /\ UNCHANGED <<globals, modules, sys_modules, status>>
      \/ /\ file # NoPath
         /\ status' = "overflow"
         /\ UNCHANGED <<heap, calls, reply>>
      \/ /\ file # NoPath
         /\ Begin(name, parent, file, package # NoPath)
  BY DEF Load
<1>3. CASE file = NoPath /\ Return(Err("ModuleNotFound")) /\ UNCHANGED <<heap, status>>
  <2>1. calls' = Below /\ reply' = Err("ModuleNotFound") /\ status' = status
    BY <1>3 DEF Return
  <2>2. "ModuleNotFound" \in Errors \ {"internal"}
    BY DEF Errors
  <2>3. Quiet
    BY <1>3, StillQuiet
  <2>4. \E e \in Errors \ {"internal"} : reply' = Err(e)
    BY <2>1, <2>2
  <2> QED BY <2>1, <2>3, <2>4, Returning
<1>4. CASE /\ file # NoPath /\ files[file].kind # "compiles"
           /\ Return(Err(files[file].kind))
           /\ heap_lost' = (files[file].kind = "CompileError")
           /\ UNCHANGED <<globals, modules, sys_modules, status>>
  <2> PICK e : e = files[file].kind
    OBVIOUS
  <2>1. calls' = Below /\ reply' = Err(e) /\ status' = status /\ heap_lost' \in BOOLEAN
    BY <1>4 DEF Return
  <2>2. e \in {"SyntaxError", "CompileError"}
    BY <1>1, <1>4 DEF ImportInv, TypeOK, FilesTyped
  <2>3. e \in Errors \ {"internal"}
    BY <2>2 DEF Errors
  <2>4. Quiet
    BY <1>4, <2>1, LostQuiet
  <2>5. \E x \in Errors \ {"internal"} : reply' = Err(x)
    BY <2>1, <2>3
  <2> QED BY <2>1, <2>4, <2>5, Returning
<1>5. CASE file # NoPath /\ status' = "overflow" /\ UNCHANGED <<heap, calls, reply>>
  BY <1>5, Still DEF Statuses
<1>6. CASE file # NoPath /\ Begin(name, parent, file, package # NoPath)
  <2> PICK is_package : is_package = (package # NoPath)
    OBVIOUS
  <2>1. file \in DOMAIN files /\ Begin(top.name, parent, file, is_package)
    BY <1>1, <1>6
  <2> QED BY <2>1, Beginning
<1> QED BY <1>2, <1>3, <1>4, <1>5, <1>6

(* A name of one segment is searched in sys.path. *)
LEMMA StepResolveTopLevel ==
  ASSUME ImportInv, ResolveTopLevel
  PROVE  ImportInv'
<1>1. /\ top.kind = "resolve" /\ Len(top.name) = 1 /\ files' = files
      /\ Load(top.name, 0, sys_path)
  BY DEF ResolveTopLevel, Requested
<1>2. Child(top.name, 0) /\ ~(Len(top.name) > 1)
  BY <1>1 DEF Child
<1> PICK n : n = Len(sys_path)
  OBVIOUS
<1>3. n \in Nat /\ DOMAIN sys_path = 1..n /\ 0 \in 0..Len(modules)
  BY PathAssumption, TopFits
<1> QED BY <1>1, <1>2, <1>3, Loading

(* A submodule is searched in the directory of its parent, which is in the
   cache. *)
LEMMA StepResolveSubmodule ==
  ASSUME ImportInv, ResolveSubmodule
  PROVE  ImportInv'
<1> PICK p : p = reply[2]
  OBVIOUS
<1>1. top.kind = "resolve" /\ ~Failed(reply) /\ reply # Unset /\ files' = files
  BY DEF ResolveSubmodule, Answered
<1>2. /\ p \in 1..Len(modules) /\ Waits(top) /\ modules[p].name = Asked(top)
      /\ Asked(top) \in DOMAIN sys_modules /\ Len(modules) \in Nat
  BY <1>1, ReplyFound
<1>3. Len(top.name) > 1 /\ Asked(top) = Parent(top.name)
  BY <1>1, <1>2 DEF Waits, Asked
<1>4. CASE modules[p].file = NoPath
  <2>1. /\ calls' = Below /\ reply' = Err("NotAPackage") /\ UNCHANGED <<heap, status>>
        /\ status' = status
    BY <1>4 DEF ResolveSubmodule, Return
  <2>2. "NotAPackage" \in Errors \ {"internal"}
    BY DEF Errors
  <2>3. Quiet
    BY <1>1, <2>1, StillQuiet
  <2>4. \E e \in Errors \ {"internal"} : reply' = Err(e)
    BY <2>1, <2>2
  <2> QED BY <1>1, <2>1, <2>3, <2>4, Returning
<1>5. CASE modules[p].file # NoPath
  <2> PICK dirs : dirs = <<package_dir_of(p)>>
    OBVIOUS
  <2>1. Load(top.name, p, dirs) /\ DOMAIN dirs = 1..1
    BY <1>5 DEF ResolveSubmodule
  <2>2. p \in 0..Len(modules) /\ Child(top.name, p)
    <3> PICK k : k = Len(top.name)
      OBVIOUS
    <3>0. k \in Nat /\ k > 1
      BY <1>1, <1>3, RequestTyped
    <3>1. k # 1
      BY <3>0, MoreThanOne
    <3>2. p \in 0..Len(modules) /\ p # 0
      BY <1>2
    <3>3. modules[p].name = Parent(top.name)
      BY <1>2, <1>3
    <3> QED BY <3>1, <3>2, <3>3 DEF Child
  <2>3. Parent(top.name) \in DOMAIN sys_modules /\ 1 \in Nat
    BY <1>2, <1>3
  <2> QED BY <1>1, <2>1, <2>2, <2>3, Loading
<1> QED BY <1>4, <1>5

-------------------------------------------------------------------------------
(* The initial states satisfy the invariant ... *)
LEMMA StartInv ==
  ASSUME FilesTyped, NEW script \in Seq(Statements), InitWith(files, script)
  PROVE  ImportInv
<1> PICK d : d = Body(<< >>, 0, 0, script)
  OBVIOUS
<1>1. /\ globals = EmptyMap /\ modules = <<Sys>> /\ heap_lost = FALSE
      /\ sys_modules = [n \in {<<"sys">>} |-> 1]
      /\ calls = <<d>> /\ reply = Unset /\ status = "running"
  BY DEF InitWith
<1>2. Len(modules) = 1 /\ modules[1] = Sys /\ DOMAIN modules = 1..1 /\ 1..1 = {1}
  BY <1>1
<1>3. DOMAIN sys_modules = {<<"sys">>} /\ sys_modules[<<"sys">>] = 1
  BY <1>1
<1>4. /\ Sys.name = <<"sys">> /\ Sys.initialized = TRUE
      /\ Sys = [name |-> <<"sys">>, file |-> << >>, initialized |-> TRUE,
                globals |-> [x \in {"path", "version"} |-> IF x = "path" THEN None ELSE Text]]
  BY DEF Sys, NoPath
<1>5. {"sys", "path", "version"} \subseteq Identifiers
  BY DEF Identifiers
<1>6. /\ EmptyMap \in Namespaces
      /\ [x \in {"path", "version"} |-> IF x = "path" THEN None ELSE Text] \in Namespaces
  <2>1. EmptyMap \in [{} -> Values] /\ {} \in SUBSET Identifiers
    BY DEF EmptyMap
  <2>2. None \in Values /\ Text \in Values
    <3>1. <<"text">> \in Seq(Identifiers) /\ <<"text">> # << >>
      <4>1. "text" \in Identifiers
        BY DEF Identifiers
      <4> QED BY <4>1
    <3> QED BY <3>1 DEF None, Text, Str, Strings, Values, Tags
  <2>3. [x \in {"path", "version"} |-> IF x = "path" THEN None ELSE Text]
          \in [{"path", "version"} -> Values]
    BY <2>2
  <2>4. {"path", "version"} \in SUBSET Identifiers
    BY <1>5
  <2> QED BY <2>1, <2>3, <2>4, NamespaceWhen
<1>7. Sys \in Records
  <2>1. <<"sys">> \in Seq(Identifiers) /\ << >> \in Seq(Identifiers) /\ TRUE \in BOOLEAN
    BY <1>5
  <2> QED BY <2>1, <1>4, <1>6 DEF Records
<1>8. HeapTyped
  <2>1. modules \in Seq(Records)
    BY <1>1, <1>7
  <2>2. \A n \in DOMAIN sys_modules : n \in Seq(Identifiers) \ {<< >>}
    <3>1. <<"sys">> \in Seq(Identifiers) /\ <<"sys">> # << >>
      BY <1>5
    <3> QED BY <1>3, <3>1
  <2> QED BY <1>1, <1>2, <1>6, <2>1, <2>2 DEF HeapTyped
<1>9. /\ d.kind = "body" /\ d.name = << >> /\ d.module = 0 /\ d.parent = 0
      /\ d.code = compile(script) /\ d.ip = 1 /\ d.stack = << >>
      /\ d = [kind |-> "body", name |-> << >>, module |-> 0, parent |-> 0,
              code |-> compile(script), ip |-> 1, stack |-> << >>, asked |-> << >>]
  BY DEF Body
<1>10. Code(d.code, script)
  BY <1>9, CompiledCode
<1>11. BodyFits(d)
  <2>1. d.code \in Seq(Instructions) /\ d.ip \in 1..Len(d.code)
    BY <1>9, <1>10 DEF Code
  <2>2. d \in Bodies
    <3> PICK e : e = << >>
      OBVIOUS
    <3>1. e \in Seq(Identifiers) /\ e \in Seq(Values)
      OBVIOUS
    <3>2. 0 \in 0..Len(modules) /\ 1 \in Nat
      BY <1>2
    <3> PICK code : code = d.code
      OBVIOUS
    <3>3. d = [kind |-> "body", name |-> e, module |-> 0, parent |-> 0,
               code |-> code, ip |-> 1, stack |-> e, asked |-> e]
      BY <1>9
    <3>4. code \in Seq(Instructions)
      BY <2>1
    <3>5. [kind |-> "body", name |-> e, module |-> 0, parent |-> 0,
           code |-> code, ip |-> 1, stack |-> e, asked |-> e] \in Bodies
      <4> HIDE <3>3
      <4> QED BY <3>1, <3>2, <3>4, FreshBody DEF Bodies
    <3> QED BY <3>3, <3>5, Zenon
  <2>3. StackFits(d)
    BY <1>9 DEF StackFits
  <2>4. OfScript(d)
    BY <1>9, <1>10 DEF OfScript
  <2> QED BY <1>9, <2>1, <2>2, <2>3, <2>4 DEF BodyFits
<1>12. /\ Len(calls) = 1 /\ calls[1] = d /\ DOMAIN calls = 1..1 /\ calls # << >>
  BY <1>1
<1>13. CallsFit
  <2>1. d \in Requests \cup Bodies /\ CallFits(d)
    BY <1>9, <1>11 DEF CallFits, BodyFits
  <2>2. calls \in Seq(Requests \cup Bodies)
    BY <1>1, <2>1
  <2> QED BY <1>2, <1>9, <1>12, <2>1, <2>2 DEF CallsFit
<1>14. ReplyFits /\ reply \in Results
  BY <1>1 DEF ReplyFits, Results, Unset, Failed, Err
<1>15. BodiesNest
  BY <1>12 DEF BodiesNest
<1>16. CacheClosed
  BY <1>2, <1>3, <1>4 DEF CacheClosed
<1>17. RunsBound
  BY <1>2 DEF RunsBound
<1>18. TypeOK
  <2>1. \A m \in DOMAIN modules : modules[m].initialized \in BOOLEAN
    BY <1>2, <1>4
  <2>2. \A n \in DOMAIN sys_modules : /\ sys_modules[n] \in DOMAIN modules
                                      /\ modules[sys_modules[n]].name = n
    BY <1>2, <1>3, <1>4
  <2>3. \A i \in DOMAIN calls : /\ calls[i].kind = "body"
                                /\ calls[i].module \in DOMAIN modules \cup {0}
                                /\ calls[i].parent \in DOMAIN modules \cup {0}
    BY <1>2, <1>9, <1>12
  <2>4. heap_lost \in BOOLEAN /\ status \in {"running", "done", "error", "panic", "overflow"}
    BY <1>1
  <2>5. \A i \in DOMAIN calls :
          \/ calls[i].kind = "resolve" /\ calls[i].waiting \in BOOLEAN
          \/ /\ calls[i].kind = "body"
             /\ calls[i].module \in DOMAIN modules \cup {0}
             /\ calls[i].parent \in DOMAIN modules \cup {0}
    BY <2>3
  <2>6. reply \in Results /\ calls # << >>
    BY <1>12, <1>14
  <2> QED BY <2>1, <2>2, <2>4, <2>5, <2>6 DEF TypeOK
<1> QED BY <1>8, <1>13, <1>14, <1>15, <1>16, <1>17, <1>18 DEF ImportInv

(* ... and every step keeps it. *)
LEMMA StepInv ==
  ASSUME ImportInv, [Next]_vars
  PROVE  ImportInv'
<1>1. CASE UNCHANGED vars
  BY <1>1, TopFits, Still DEF vars
<1>2. CASE Next
  <2>1. CASE ResolveCached
    BY <2>1, StepResolveCached
  <2>2. CASE ResolveParent
    BY <2>2, StepResolveParent
  <2>3. CASE ResolveTopLevel
    BY <2>3, StepResolveTopLevel
  <2>4. CASE ResolveSubmodule
    BY <2>4, StepResolveSubmodule
  <2>5. CASE ResolveFails
    BY <2>5, StepResolveFails
  <2>6. CASE LOAD_CONST
    BY <2>6, StepLOAD_CONST
  <2>7. CASE STORE_GLOBAL
    BY <2>7, StepSTORE_GLOBAL
  <2>8. CASE LOAD_ATTR
    BY <2>8, StepLOAD_ATTR
  <2>9. CASE POP_TOP
    BY <2>9, StepPOP_TOP
  <2>10. CASE RAISE
    BY <2>10, StepRAISE
  <2>11. CASE IMPORT_NAME
    BY <2>11, StepIMPORT_NAME
  <2>12. CASE IMPORT_NAME_returns
    BY <2>12, StepIMPORT_NAME_returns
  <2>13. CASE IMPORT_FROM
    BY <2>13, StepIMPORT_FROM
  <2>14. CASE IMPORT_FROM_returns
    BY <2>14, StepIMPORT_FROM_returns
  <2>15. CASE IMPORT_STAR
    BY <2>15, StepIMPORT_STAR
  <2>16. CASE HALT_main
    BY <2>16, StepHALT_main
  <2>17. CASE HALT_module
    BY <2>17, StepHALT_module
  <2>18. CASE BodyFails
    BY <2>18, StepBodyFails
  <2>19. CASE Ended
    BY <2>19, StepEnded DEF Ended
  <2> QED BY <1>2, <2>1, <2>2, <2>3, <2>4, <2>5, <2>6, <2>7, <2>8, <2>9, <2>10, <2>11,
         <2>12, <2>13, <2>14, <2>15, <2>16, <2>17, <2>18, <2>19 DEF Next
<1> QED BY <1>1, <1>2

(* The inductive invariant always holds. *)
LEMMA ImportInvAlways == ImportSpec => []ImportInv
<1>1. Start => ImportInv
  BY StartInv DEF Start
<1>2. ImportInv /\ [Next]_vars => ImportInv'
  BY StepInv
<1> QED BY <1>1, <1>2, PTL DEF ImportSpec

(* Type correctness: every call and every reply refers to modules that are
   there, and the cache maps each name to a module of that name, for any
   files and any script. *)
THEOREM ImportsTypeCorrect == ImportSpec => []TypeOK
<1>1. ImportInv => TypeOK
  BY DEF ImportInv
<1> QED BY <1>1, ImportInvAlways, PTL

(* A module that is marked initialized has run to its end: its body is not
   running, and every name its statements bind is there. *)
THEOREM ReadyAlwaysRun == ImportSpec => []ReadyMeansRun
<1>1. ASSUME ImportInv  PROVE ReadyMeansRun
  <2> SUFFICES ASSUME NEW m \in DOMAIN modules \ {1}, modules[m].initialized
               PROVE  /\ ~Executing(m)
                      /\ BoundBy(BodyOf(m)) \subseteq DOMAIN modules[m].globals
    BY DEF ReadyMeansRun
  <2>1. /\ CallsFit /\ BodiesNest /\ RunsBound /\ Len(modules) \in Nat
        /\ DOMAIN modules = 1..Len(modules) /\ Len(calls) \in Nat /\ calls \in Seq(Requests \cup Bodies)
    BY <1>1, TopFits DEF ImportInv
  <2>2. m \in 2..Len(modules)
    BY <2>1
  <2>3. BoundBy(BodyOf(m)) \subseteq DOMAIN modules[m].globals
    BY <2>1, <2>2 DEF RunsBound
  <2>4. ~Executing(m)
    <3> SUFFICES ASSUME NEW i \in DOMAIN calls, calls[i].kind = "body", calls[i].module = m
                 PROVE  FALSE
      BY DEF Executing
    <3>1. i \in 1..Len(calls)
      BY <2>1
    <3>2. CASE i = 1
      BY <2>1, <2>2, <3>2 DEF CallsFit
    <3>3. CASE i # 1
      <4>1. i \in 2..Len(calls)
        BY <3>1, <3>3
      <4> QED BY <4>1, <2>1 DEF BodiesNest
    <3> QED BY <3>2, <3>3
  <2> QED BY <2>3, <2>4
<1> QED BY <1>1, ImportInvAlways, PTL

-------------------------------------------------------------------------------
(* The import cache. *)
(* Steps that neither begin nor end a load. *)
SameHeap ==
  /\ sys_modules' = sys_modules /\ Len(modules') = Len(modules)
  /\ \A m \in 1..Len(modules) : /\ modules'[m].name = modules[m].name
                                /\ modules'[m].initialized = modules[m].initialized
SameBodies ==
  \/ calls' = calls
  \/ \E d : /\ d.kind = top.kind /\ (d.kind = "body" => d.module = top.module)
            /\ calls' = WithTop(d) \/ \E name : calls' = Append(WithTop(d), Resolve(name))
  \/ top.kind = "resolve" /\ calls' = Below

(* Steps between the begin and the end of bodies change none of what runs
   ... *)
LEMMA SameExecuting ==
  ASSUME ImportInv, SameBodies, NEW m
  PROVE  Executing(m)' <=> Executing(m)
<1> PICK n : n = Len(calls)
  OBVIOUS
<1>1. /\ n \in Nat /\ n > 0 /\ n \in 1..n /\ calls \in Seq(Requests \cup Bodies)
      /\ top = calls[n] /\ DOMAIN calls = 1..n
  BY TopFits DEF top
<1>2. CASE calls' = calls
  BY <1>2 DEF Executing
<1>3. ASSUME NEW d, d.kind = top.kind, d.kind = "body" => d.module = top.module,
             calls' = WithTop(d) \/ \E name : calls' = Append(WithTop(d), Resolve(name))
      PROVE  Executing(m)' <=> Executing(m)
  <2> DEFINE q == WithTop(d)
             T == Requests \cup Bodies \cup {d}
  <2>1. calls \in Seq(T) /\ d \in T /\ q = [calls EXCEPT ![n] = d]
    BY <1>1, SeqGrows DEF WithTop
  <2> HIDE DEF q, T
  <2>2. q \in Seq(T) /\ Len(q) = n /\ q[n] = d /\ \A i \in 1..n : i # n => q[i] = calls[i]
    BY <1>1, <2>1, SeqSet
  <2>3. (\E i \in 1..n : q[i].kind = "body" /\ q[i].module = m) <=> Executing(m)
    BY <1>1, <1>3, <2>2 DEF Executing
  <2>4. CASE calls' = q
    BY <2>2, <2>3, <2>4 DEF Executing
  <2>5. ASSUME NEW name, calls' = Append(q, Resolve(name))
        PROVE  Executing(m)' <=> Executing(m)
    <3> PICK r : r = Resolve(name)
      OBVIOUS
    <3>1. r.kind = "resolve"
      BY DEF Resolve
    <3> DEFINE U == T \cup {r}
    <3>2. q \in Seq(U) /\ r \in U /\ calls' = Append(q, r)
      BY <2>2, <2>5, SeqGrows
    <3> HIDE DEF U
    <3>3. /\ calls' \in Seq(U) /\ Len(calls') = n + 1 /\ calls'[n + 1] = r
          /\ \A i \in 1..n : calls'[i] = q[i]
      BY <2>2, <3>2, SeqPush
    <3>4. DOMAIN calls' = 1..n + 1 /\ \A i \in 1..n : i \in 1..n + 1
      BY <1>1, <3>3
    <3>5. \A i \in 1..n + 1 : i \in 1..n \/ i = n + 1
      BY <1>1
    <3>6. Executing(m)' <=> \E i \in 1..n : q[i].kind = "body" /\ q[i].module = m
      BY <3>1, <3>3, <3>4, <3>5 DEF Executing
    <3> QED BY <2>3, <3>6
  <2> QED BY <1>3, <2>4, <2>5 DEF q
<1>4. CASE top.kind = "resolve" /\ calls' = Below
  <2>1. 1 \in Nat /\ 1 <= n
    BY <1>1
  <2>2. /\ calls' \in Seq(Requests \cup Bodies) /\ Len(calls') = n - 1
        /\ \A i \in 1..n - 1 : calls'[i] = calls[i]
    BY <1>1, <1>4, <2>1, SeqTrim DEF Below
  <2>3. DOMAIN calls' = 1..n - 1 /\ \A i \in 1..n - 1 : i \in 1..n
    BY <1>1, <2>2
  <2>4. \A i \in 1..n : i \in 1..n - 1 \/ i = n
    BY <1>1
  <2> QED BY <1>1, <1>4, <2>2, <2>3, <2>4 DEF Executing
<1> QED BY <1>2, <1>3, <1>4 DEF SameBodies

(* ... and so leave the cache of module ModuleCache as it is. *)
LEMMA SameCache ==
  ASSUME ImportInv, ImportInv', SameHeap, SameBodies
  PROVE  UNCHANGED Cache!vars
<1>1. DOMAIN modules = 1..Len(modules) /\ DOMAIN modules' = 1..Len(modules')
  BY DEF ImportInv, HeapTyped
<1>2. ASSUME NEW m \in 1..Len(modules)
      PROVE  modules'[m].name = modules[m].name /\ LoadState(m)' = LoadState(m)
  <2>1. Executing(m)' <=> Executing(m)
    BY SameExecuting
  <2>2. modules'[m].name = modules[m].name /\ modules'[m].initialized = modules[m].initialized
    BY DEF SameHeap
  <2> QED BY <2>1, <2>2 DEF LoadState
<1>3. Loads' = Loads
  BY <1>1, <1>2 DEF Loads, SameHeap
<1> QED BY <1>3 DEF Cache!vars, SameHeap

(* A heap that is left alone makes no difference to the cache. *)
LEMMA StillSame ==
  ASSUME UNCHANGED heap
  PROVE  SameHeap
BY DEF heap, SameHeap

(* A namespace that is set makes no difference to the cache either; *)
LEMMA SetSame ==
  ASSUME ImportInv, sys_modules' = sys_modules, NEW m \in 0..Len(modules), NEW g,
         SetNamespace(m, g)
  PROVE  /\ SameHeap
         /\ \A i \in 1..Len(modules) : /\ modules'[i].file = modules[i].file
                                       /\ i # m => modules'[i] = modules[i]
<1>1. modules \in Seq(Records) /\ Len(modules) \in Nat
  BY DEF ImportInv, HeapTyped
<1>2. CASE m = 0
  BY <1>2 DEF SetNamespace, SameHeap
<1>3. CASE m # 0
  <2> DEFINE r == [modules[m] EXCEPT !.globals = g]
             T == Records \cup {r}
  <2>1. m \in 1..Len(modules) /\ modules' = [modules EXCEPT ![m] = r] /\ modules[m] \in Records
    BY <1>1, <1>3 DEF SetNamespace
  <2>2. /\ r.name = modules[m].name /\ r.initialized = modules[m].initialized
        /\ r.file = modules[m].file
    BY <2>1 DEF Records
  <2>3. modules \in Seq(T) /\ r \in T
    BY <1>1, SeqGrows
  <2> HIDE DEF r, T
  <2>4. /\ Len(modules') = Len(modules) /\ modules'[m] = r
        /\ \A i \in 1..Len(modules) : i # m => modules'[i] = modules[i]
    BY <2>1, <2>3, SeqSet
  <2> QED BY <2>2, <2>4 DEF SameHeap
<1> QED BY <1>2, <1>3

(* nor does an instruction that goes on, *)
LEMMA AdvanceSame ==
  ASSUME ImportInv, top.kind = "body", NEW s, Advance(s)
  PROVE  SameBodies
<1> PICK d : d = [top EXCEPT !.ip = @ + 1, !.stack = s]
  OBVIOUS
<1>1. calls' = WithTop(d)
  BY DEF Advance
<1>2. top \in Bodies
  BY Fetched
<1>3. d.kind = top.kind /\ d.module = top.module
  BY <1>2 DEF Bodies
<1> QED BY <1>1, <1>3 DEF SameBodies

(* or one that asks for a name. *)
LEMMA AskSame ==
  ASSUME ImportInv, top.kind = "body", NEW name, Ask(name)
  PROVE  SameBodies
<1> PICK d : d = [top EXCEPT !.asked = name]
  OBVIOUS
<1>1. top \in Bodies
  BY Fetched
<1>2. d.kind = top.kind /\ d.module = top.module
  BY <1>1 DEF Bodies
<1>3. calls' = Append(WithTop(d), Resolve(name))
  BY DEF Ask
<1> QED BY <1>2, <1>3 DEF SameBodies

(* The loads are a sequence, each with the name and the state of its module. *)
LEMMA LoadsTyped ==
  ASSUME ImportInv
  PROVE  /\ Loads \in Seq([name : Seq(Identifiers), state : {"loading", "ready", "failed"}])
         /\ Len(Loads) = Len(modules) /\ Len(modules) \in Nat
         /\ DOMAIN Loads = 1..Len(modules) /\ DOMAIN modules = 1..Len(modules)
         /\ \A m \in 1..Len(modules) : Loads[m] = [name |-> modules[m].name, state |-> LoadState(m)]
<1> DEFINE T == [name : Seq(Identifiers), state : {"loading", "ready", "failed"}]
           n == Len(modules)
<1>1. n \in Nat /\ modules \in Seq(Records) /\ DOMAIN modules = 1..n
  BY DEF ImportInv, HeapTyped
<1>2. \A m \in 1..n : Loads[m] = [name |-> modules[m].name, state |-> LoadState(m)]
  BY <1>1 DEF Loads
<1>3. ASSUME NEW m \in 1..n  PROVE [name |-> modules[m].name, state |-> LoadState(m)] \in T
  <2>1. modules[m] \in Records
    BY <1>1
  <2>2. modules[m].name \in Seq(Identifiers)
    BY <2>1 DEF Records
  <2>3. LoadState(m) \in {"loading", "ready", "failed"}
    BY DEF LoadState
  <2> QED BY <2>2, <2>3
<1>4. Loads = [m \in 1..n |-> [name |-> modules[m].name, state |-> LoadState(m)]]
  BY <1>1 DEF Loads
<1> HIDE DEF T, n
<1>5. Loads \in [1..n -> T]
  BY <1>3, <1>4
<1>6. Loads \in Seq(T) /\ Len(Loads) = n /\ DOMAIN Loads = 1..n
  BY <1>1, <1>5
<1> QED BY <1>1, <1>2, <1>6 DEF T, n

(* The innermost body is that of the load begun last. *)
LEMMA InnermostBody ==
  ASSUME ImportInv, top.kind = "body", top.module # 0
  PROVE  Cache!Innermost(top.module)
<1> PICK b : b = top.module
  OBVIOUS
<1>1. /\ CallsFit /\ BodiesNest /\ Len(calls) \in Nat /\ Len(calls) \in 1..Len(calls)
      /\ DOMAIN calls = 1..Len(calls) /\ b \in 1..Len(modules)
  BY TopFits, Fetched DEF ImportInv, CallsFit
<1>2. top = calls[Len(calls)]
  BY DEF top
<1>3. Executing(b)
  BY <1>1, <1>2 DEF Executing
<1>4. ~modules[b].initialized
  <2>1. Len(calls) # 1
    BY <1>1, <1>2 DEF CallsFit
  <2>2. Len(calls) \in 2..Len(calls)
    BY <1>1, <2>1
  <2> QED BY <1>1, <1>2, <2>2 DEF BodiesNest
<1>5. Loads[b].state = "loading" /\ b \in DOMAIN Loads
  BY <1>1, <1>3, <1>4, LoadsTyped DEF LoadState
<1>6. ASSUME NEW k \in DOMAIN Loads, k > b  PROVE Loads[k].state # "loading"
  <2>1. k \in 1..Len(modules) /\ k \in Nat
    BY LoadsTyped
  <2>2. ~Executing(k)
    <3> SUFFICES ASSUME NEW i \in DOMAIN calls, calls[i].kind = "body", calls[i].module = k
                 PROVE  FALSE
      BY DEF Executing
    <3>1. i \in 1..Len(calls)
      BY <1>1
    <3>2. CASE i = Len(calls)
      <4>1. k = b
        BY <1>2, <3>2
      <4> QED BY <1>1, <1>6, <2>1, <4>1
    <3>3. CASE i # Len(calls)
      <4>1. i < Len(calls)
        BY <1>1, <3>1, <3>3
      <4>2. k < b
        BY <1>1, <1>2, <3>1, <4>1 DEF BodiesNest
      <4> QED BY <1>1, <1>6, <2>1, <4>2
    <3> QED BY <3>2, <3>3
  <2>3. LoadState(k) # "loading"
    BY <2>2 DEF LoadState
  <2> QED BY <2>1, <2>3, LoadsTyped
<1> QED BY <1>5, <1>6 DEF Cache!Innermost

(* When a body returns, the others still run, and it does not. *)
LEMMA EndExecuting ==
  ASSUME ImportInv, top.kind = "body", top.module # 0, calls' = Below
  PROVE  /\ \A m : m # top.module => (Executing(m)' <=> Executing(m))
         /\ \A m : m = top.module => ~Executing(m)'
<1> PICK b : b = top.module
  OBVIOUS
<1> PICK n : n = Len(calls)
  OBVIOUS
<1>1. /\ CallsFit /\ BodiesNest /\ n \in Nat /\ n > 0 /\ n \in 1..n
      /\ calls \in Seq(Requests \cup Bodies)
      /\ DOMAIN calls = 1..n /\ b \in 1..Len(modules) /\ top = calls[n]
  BY TopFits, Fetched DEF ImportInv, CallsFit, top
<1>2. /\ calls' \in Seq(Requests \cup Bodies) /\ Len(calls') = n - 1
      /\ \A i \in 1..n - 1 : calls'[i] = calls[i]
  <2>1. 1 \in Nat /\ 1 <= n
    BY <1>1
  <2> QED BY <1>1, <2>1, SeqTrim DEF Below
<1>3. DOMAIN calls' = 1..n - 1 /\ \A i \in 1..n - 1 : i \in 1..n /\ i < n
  BY <1>1, <1>2
<1>4. \A i \in 1..n : i \in 1..n - 1 \/ i = n
  BY <1>1
<1>5. ASSUME NEW m, m # b  PROVE Executing(m)' <=> Executing(m)
  BY <1>1, <1>2, <1>3, <1>4, <1>5 DEF Executing
<1>6. \A i \in 1..n - 1 : ~(calls'[i].kind = "body" /\ calls'[i].module = b)
  <2> SUFFICES ASSUME NEW i \in 1..n - 1, calls'[i].kind = "body", calls'[i].module = b
               PROVE  FALSE
    OBVIOUS
  <2>1. calls[i].kind = "body" /\ calls[i].module = b /\ i \in 1..n /\ i < n
    BY <1>2, <1>3
  <2>2. b < b
    BY <1>1, <2>1 DEF BodiesNest
  <2> QED BY <1>1, <2>2
<1> QED BY <1>3, <1>5, <1>6 DEF Executing

(* A body that returns ends the load begun last. *)
LEMMA EndStep ==
  ASSUME ImportInv, ImportInv', top.kind = "body", top.module # 0, calls' = Below,
         sys_modules' = sys_modules, Len(modules') = Len(modules),
         \A m \in 1..Len(modules) :
           /\ modules'[m].name = modules[m].name
           /\ m # top.module => modules'[m].initialized = modules[m].initialized
  PROVE  Cache!Next
<1> PICK b : b = top.module
  OBVIOUS
<1>1. b \in 1..Len(modules)
  BY Fetched
<1>5. ASSUME NEW m, m # b  PROVE Executing(m)' <=> Executing(m)
  BY <1>5, EndExecuting
<1>6. ~Executing(b)'
  BY EndExecuting
<1> PICK s : s = LoadState(b)'
  OBVIOUS
<1>7. s \in {"ready", "failed"}
  BY <1>6 DEF LoadState
<1>8. ASSUME NEW m \in 1..Len(modules), m # b
      PROVE  LoadState(m)' = LoadState(m) /\ modules'[m].name = modules[m].name
  BY <1>5, <1>8 DEF LoadState
<1> DEFINE r == [name |-> modules[b].name, state |-> s]
<1>9. Loads' = [Loads EXCEPT ![b].state = s]
  <2>1. /\ DOMAIN Loads' = 1..Len(modules) /\ DOMAIN Loads = 1..Len(modules)
        /\ \A m \in 1..Len(modules) :
             /\ Loads[m] = [name |-> modules[m].name, state |-> LoadState(m)]
             /\ Loads'[m] = [name |-> modules'[m].name, state |-> LoadState(m)']
    <3>1. DOMAIN modules' = 1..Len(modules)
      BY DEF ImportInv, HeapTyped
    <3>2. /\ DOMAIN Loads' = 1..Len(modules)
          /\ \A m \in 1..Len(modules) :
               Loads'[m] = [name |-> modules'[m].name, state |-> LoadState(m)']
      BY <3>1 DEF Loads
    <3> QED BY <3>2, LoadsTyped
  <2>2. Loads' = [m \in 1..Len(modules) |-> Loads'[m]]
    BY <2>1 DEF Loads
  <2>3. Loads = [m \in 1..Len(modules) |-> Loads[m]]
    BY <2>1 DEF Loads
  <2>4. [Loads[b] EXCEPT !.state = s] = Loads'[b]
    BY <1>1, <2>1
  <2>5. \A m \in 1..Len(modules) : m # b => Loads'[m] = Loads[m]
    BY <1>8, <2>1
  <2>6. [Loads EXCEPT ![b].state = s] =
          [m \in 1..Len(modules) |-> IF m = b THEN [Loads[b] EXCEPT !.state = s] ELSE Loads[m]]
    BY <2>1
  <2> QED BY <2>2, <2>4, <2>5, <2>6
<1>10. Cache!Innermost(b)
  BY InnermostBody
<1>11. Cache!End(b, s)
  BY <1>9, <1>10 DEF Cache!End
<1>12. b \in DOMAIN Loads
  BY <1>1, LoadsTyped
<1> QED BY <1>7, <1>11, <1>12 DEF Cache!Next

(* What a module that begins leaves as it is, and what is new. *)
LEMMA Begun ==
  ASSUME ImportInv, top.kind = "resolve", NEW N, N = Len(modules), NEW name, name = top.name,
         NEW parent, NEW file, NEW is_package, Begin(top.name, parent, file, is_package),
         NEW r, r = NewModule(name, file, is_package)
  PROVE  /\ N \in Nat /\ Len(modules') = N + 1 /\ modules'[N + 1] = r
         /\ \A m \in 1..N : modules'[m] = modules[m]
         /\ Executing(N + 1)' /\ \A m \in 1..N : Executing(m)' <=> Executing(m)
         /\ sys_modules' = Insert(sys_modules, name, N + 1)
         /\ r.name = name /\ r.initialized = FALSE
<1> PICK d : d = Body(name, N + 1, parent, files[file].body)
  OBVIOUS
<1> PICK n : n = Len(calls)
  OBVIOUS
<1>1. /\ modules' = Append(modules, r) /\ sys_modules' = Insert(sys_modules, name, N + 1)
      /\ calls' = WithTop(d)
  BY DEF Begin, CacheAs
<1>2. /\ N \in Nat /\ modules \in Seq(Records) /\ n \in Nat /\ n > 0 /\ n \in 1..n
      /\ calls \in Seq(Requests \cup Bodies) /\ CallsFit /\ top = calls[n] /\ DOMAIN calls = 1..n
  BY TopFits DEF HeapTyped, top
<1>3. r.name = name /\ r.initialized = FALSE /\ d.kind = "body" /\ d.module = N + 1
  BY DEF NewModule, Body
<1>4. /\ Len(modules') = N + 1 /\ modules'[N + 1] = r /\ \A m \in 1..N : modules'[m] = modules[m]
  <2> DEFINE T == Records \cup {r}
  <2>1. modules \in Seq(T) /\ r \in T
    BY <1>2, SeqGrows
  <2> HIDE DEF T
  <2> QED BY <1>1, <1>2, <2>1, SeqPush
<1>5. Len(calls') = n /\ calls'[n] = d /\ (\A i \in 1..n : i # n => calls'[i] = calls[i]) /\ DOMAIN calls' = 1..n
  <2> DEFINE T == Requests \cup Bodies \cup {d}
  <2>1. calls \in Seq(T) /\ d \in T /\ calls' = [calls EXCEPT ![n] = d]
    BY <1>1, <1>2, SeqGrows DEF WithTop
  <2> HIDE DEF T
  <2> QED BY <1>2, <2>1, SeqSet
<1>6. Executing(N + 1)'
  BY <1>2, <1>3, <1>5 DEF Executing
<1>7. ASSUME NEW m \in 1..N  PROVE Executing(m)' <=> Executing(m)
  <2>1. m # N + 1
    BY <1>2
  <2> QED BY <1>2, <1>3, <1>5, <2>1 DEF Executing
<1> QED BY <1>1, <1>2, <1>3, <1>4, <1>6, <1>7

(* A request that begins a module begins its load. *)
LEMMA BeginStep ==
  ASSUME ImportInv, ImportInv', top.kind = "resolve", ~Cached(top.name),
         NEW parent, NEW file, NEW is_package, Begin(top.name, parent, file, is_package)
  PROVE  Cache!Next
<1> PICK N : N = Len(modules)
  OBVIOUS
<1> PICK name : name = top.name
  OBVIOUS
<1> PICK r : r = NewModule(name, file, is_package)
  OBVIOUS
<1>1. sys_modules' = Insert(sys_modules, name, N + 1)
  BY Begun
<1>2. N \in Nat
  BY Begun
<1>3. r.name = name /\ r.initialized = FALSE
  BY DEF NewModule
<1>4. /\ Len(modules') = N + 1 /\ modules'[N + 1] = r /\ \A m \in 1..N : modules'[m] = modules[m]
  BY Begun
<1>6. Executing(N + 1)'
  BY Begun
<1>7. ASSUME NEW m \in 1..N  PROVE Executing(m)' <=> Executing(m)
  BY Begun
<1>8. LoadState(N + 1)' = "loading"
  BY <1>3, <1>4, <1>6 DEF LoadState
<1>9. ASSUME NEW m \in 1..N  PROVE LoadState(m)' = LoadState(m) /\ modules'[m].name = modules[m].name
  BY <1>4, <1>7 DEF LoadState
<1> DEFINE x == [name |-> name, state |-> "loading"]
<1>10. Loads' = Append(Loads, x)
  <2>1. /\ DOMAIN Loads' = 1..N + 1 /\ DOMAIN Loads = 1..N
        /\ \A m \in 1..N : Loads[m] = [name |-> modules[m].name, state |-> LoadState(m)]
        /\ \A m \in 1..N + 1 : Loads'[m] = [name |-> modules'[m].name, state |-> LoadState(m)']
    <3>1. DOMAIN modules' = 1..N + 1
      BY <1>4 DEF ImportInv, HeapTyped
    <3>2. /\ DOMAIN Loads' = 1..N + 1
          /\ \A m \in 1..N + 1 :
               Loads'[m] = [name |-> modules'[m].name, state |-> LoadState(m)']
      BY <3>1 DEF Loads
    <3> QED BY <3>2, LoadsTyped
  <2>2. Loads' = [m \in 1..N + 1 |-> Loads'[m]]
    BY <2>1 DEF Loads
  <2>3. \A m \in 1..N : Loads'[m] = Loads[m]
    BY <1>2, <1>9, <2>1
  <2>4. Loads'[N + 1] = x
    BY <1>2, <1>3, <1>4, <1>8, <2>1
  <2> DEFINE T == [name : Seq(Identifiers), state : {"loading", "ready", "failed"}] \cup {x}
  <2>5. Loads \in Seq(T) /\ x \in T /\ Len(Loads) = N
    BY LoadsTyped, SeqGrows
  <2> HIDE DEF T, x
  <2> PICK q : q = Append(Loads, x)
    OBVIOUS
  <2>6. q \in Seq(T) /\ Len(q) = N + 1 /\ q[N + 1] = x /\ \A m \in 1..N : q[m] = Loads[m]
    BY <2>5, SeqPush
  <2>7. q = [m \in 1..N + 1 |-> q[m]]
    <3>1. N + 1 \in Nat
      BY <1>2
    <3> QED BY <2>6, <3>1, SeqFunction
  <2>8. \A m \in 1..N + 1 : m \in 1..N \/ m = N + 1
    BY <1>2
  <2>9. \A m \in 1..N + 1 : q[m] = Loads'[m]
    BY <2>3, <2>4, <2>6, <2>8
  <2> QED BY <2>2, <2>7, <2>9
<1>11. name \notin DOMAIN sys_modules /\ name \in DOMAIN sys_modules'
  BY <1>1 DEF Cached, Insert
<1>12. Len(Loads) = N
  BY LoadsTyped
<1>13. Cache!Begin(name)
  BY <1>1, <1>10, <1>11, <1>12 DEF Cache!Begin, Insert
<1> QED BY <1>11, <1>13 DEF Cache!Next

(* A search begins a load, or leaves the cache as it is. *)
LEMMA LoadCache ==
  ASSUME ImportInv, ImportInv', top.kind = "resolve", ~Cached(top.name),
         NEW parent, NEW dirs, Load(top.name, parent, dirs)
  PROVE  Cache!Next \/ UNCHANGED Cache!vars
<1> PICK package : package = find_package_in(dirs, Leaf(top.name))
  OBVIOUS
<1> PICK file : file = IF package # NoPath THEN package
                       ELSE find_source_file_in(dirs, Leaf(top.name))
  OBVIOUS
<1>1. \/ calls' = Below /\ UNCHANGED <<modules, sys_modules>>
      \/ calls' = calls /\ UNCHANGED <<modules, sys_modules>>
      \/ Begin(top.name, parent, file, package # NoPath)
  BY DEF Load, Return, heap
<1>2. CASE calls' = Below /\ UNCHANGED <<modules, sys_modules>>
  <2>1. SameHeap /\ SameBodies
    BY <1>2 DEF SameHeap, SameBodies
  <2> QED BY <2>1, SameCache
<1>3. CASE calls' = calls /\ UNCHANGED <<modules, sys_modules>>
  <2>1. SameHeap /\ SameBodies
    BY <1>3 DEF SameHeap, SameBodies
  <2> QED BY <2>1, SameCache
<1>4. CASE Begin(top.name, parent, file, package # NoPath)
  <2> PICK is_package : is_package = (package # NoPath)
    OBVIOUS
  <2>1. Begin(top.name, parent, file, is_package)
    BY <1>4
  <2> QED BY <2>1, BeginStep
<1> QED BY <1>1, <1>2, <1>3, <1>4

(* Steps of requests. The search for a submodule begins a load only of a
   name that is still not in the cache: that is what NotOvertaken adds. *)
LEMMA RequestCache ==
  ASSUME ImportInv, ImportInv', NotOvertaken,
         ResolveCached \/ ResolveParent \/ ResolveTopLevel \/ ResolveSubmodule \/ ResolveFails
  PROVE  Cache!Next \/ UNCHANGED Cache!vars
<1>1. CASE ResolveCached \/ ResolveFails
  <2>1. top.kind = "resolve" /\ calls' = Below /\ UNCHANGED heap
    BY <1>1 DEF ResolveCached, ResolveFails, Requested, Answered, Return
  <2>2. SameHeap /\ SameBodies
    BY <2>1, StillSame DEF SameBodies
  <2> QED BY <2>2, SameCache
<1>2. CASE ResolveParent
  <2> PICK d : d = [top EXCEPT !.waiting = TRUE]
    OBVIOUS
  <2>1. top.kind = "resolve" /\ calls' = Append(WithTop(d), Resolve(Parent(top.name))) /\ UNCHANGED heap
    BY <1>2 DEF ResolveParent, Requested
  <2>2. d.kind = top.kind /\ ~(d.kind = "body")
    <3>1. top \in Requests
      BY <2>1, RequestTyped
    <3> QED BY <2>1, <3>1 DEF Requests
  <2>3. SameHeap /\ SameBodies
    BY <2>1, <2>2, StillSame DEF SameBodies
  <2> QED BY <2>3, SameCache
<1>3. CASE ResolveTopLevel
  BY <1>3, LoadCache DEF ResolveTopLevel, Requested
<1>4. CASE ResolveSubmodule
  <2>1. top.kind = "resolve" /\ ~Failed(reply) /\ reply # Unset
    BY <1>4 DEF ResolveSubmodule, Answered
  <2>2. ~Cached(top.name)
    <3>1. top.waiting
      BY <2>1, ReplyFound DEF Waits
    <3>2. Len(calls) \in DOMAIN calls /\ top = calls[Len(calls)]
      BY TopFits DEF top
    <3> QED BY <2>1, <3>1, <3>2 DEF NotOvertaken, Cached
  <2>3. CASE modules[reply[2]].file = NoPath
    <3>1. calls' = Below /\ UNCHANGED heap
      BY <1>4, <2>3 DEF ResolveSubmodule, Return
    <3>2. SameHeap /\ SameBodies
      BY <2>1, <3>1, StillSame DEF SameBodies
    <3> QED BY <3>2, SameCache
  <2>4. CASE modules[reply[2]].file # NoPath
    <3>1. Load(top.name, reply[2], <<package_dir_of(reply[2])>>)
      BY <1>4, <2>4 DEF ResolveSubmodule
    <3> QED BY <2>1, <2>2, <3>1, LoadCache
  <2> QED BY <2>3, <2>4
<1> QED BY <1>1, <1>2, <1>3, <1>4

(* Instructions neither begin nor end a load. *)
LEMMA InstructionSame ==
  ASSUME ImportInv,
         \/ LOAD_CONST \/ STORE_GLOBAL \/ LOAD_ATTR \/ POP_TOP \/ RAISE \/ IMPORT_NAME
         \/ IMPORT_NAME_returns \/ IMPORT_FROM \/ IMPORT_FROM_returns \/ IMPORT_STAR
  PROVE  SameHeap /\ SameBodies
<1>1. top.kind = "body"
  BY DEF LOAD_CONST, STORE_GLOBAL, LOAD_ATTR, POP_TOP, RAISE, IMPORT_NAME, IMPORT_NAME_returns,
         IMPORT_FROM, IMPORT_FROM_returns, IMPORT_STAR, Fetch, Answered
<1>2. top.module \in 0..Len(modules)
  BY <1>1, Fetched
<1>3. SameHeap
  <2>1. CASE \/ LOAD_CONST \/ LOAD_ATTR \/ POP_TOP \/ RAISE \/ IMPORT_NAME
             \/ IMPORT_NAME_returns \/ IMPORT_FROM \/ IMPORT_FROM_returns
    BY <2>1, StillSame DEF LOAD_CONST, LOAD_ATTR, POP_TOP, RAISE, IMPORT_NAME,
       IMPORT_NAME_returns, IMPORT_FROM, IMPORT_FROM_returns
  <2>2. CASE STORE_GLOBAL
    <3> PICK g : g = Insert(Namespace(top.module), Arg, Operand(0))
      OBVIOUS
    <3>1. SetNamespace(top.module, g) /\ sys_modules' = sys_modules
      BY <2>2 DEF STORE_GLOBAL
    <3> QED BY <1>2, <3>1, SetSame
  <2>3. CASE IMPORT_STAR
    <3>1. CASE ~IsModule(Operand(0))
      BY <2>3, <3>1 DEF IMPORT_STAR, SameHeap
    <3>2. CASE IsModule(Operand(0))
      <4>1. PICK g : SetNamespace(top.module, g)
        BY <2>3, <3>2 DEF IMPORT_STAR
      <4>2. sys_modules' = sys_modules
        BY <2>3 DEF IMPORT_STAR
      <4> QED BY <1>2, <4>1, <4>2, SetSame
    <3> QED BY <3>1, <3>2
  <2> QED BY <2>1, <2>2, <2>3
<1>4. (\E s : Advance(s)) \/ (\E name : Ask(name)) \/ calls' = calls
  <2>1. CASE LOAD_CONST \/ STORE_GLOBAL \/ LOAD_ATTR \/ POP_TOP \/ RAISE
    BY <2>1 DEF LOAD_CONST, STORE_GLOBAL, LOAD_ATTR, POP_TOP, RAISE, Fail
  <2>2. CASE IMPORT_NAME \/ IMPORT_NAME_returns
    BY <2>2 DEF IMPORT_NAME, IMPORT_NAME_returns, Fail
  <2>3. CASE IMPORT_FROM \/ IMPORT_FROM_returns \/ IMPORT_STAR
    BY <2>3 DEF IMPORT_FROM, IMPORT_FROM_returns, IMPORT_STAR, Fail
  <2> QED BY <2>1, <2>2, <2>3
<1>5. SameBodies
  <2>1. CASE \E s : Advance(s)
    BY <1>1, <2>1, AdvanceSame
  <2>2. CASE \E name : Ask(name)
    BY <1>1, <2>2, AskSame
  <2>3. CASE calls' = calls
    BY <2>3 DEF SameBodies
  <2> QED BY <1>4, <2>1, <2>2, <2>3
<1> QED BY <1>3, <1>5

(* Steps of instructions. *)
LEMMA InstructionCache ==
  ASSUME ImportInv, ImportInv',
         \/ LOAD_CONST \/ STORE_GLOBAL \/ LOAD_ATTR \/ POP_TOP \/ RAISE \/ IMPORT_NAME
         \/ IMPORT_NAME_returns \/ IMPORT_FROM \/ IMPORT_FROM_returns \/ IMPORT_STAR
  PROVE  UNCHANGED Cache!vars
BY InstructionSame, SameCache

(* What the end of a body does to the other modules. *)
LEMMA HaltedModules ==
  ASSUME ImportInv, HALT_module
  PROVE  /\ Len(modules') = Len(modules)
         /\ \A m \in 1..Len(modules) :
              /\ modules'[m].name = modules[m].name /\ modules'[m].file = modules[m].file
              /\ m # top.module => modules'[m].initialized = modules[m].initialized
              /\ modules'[m].globals = IF top.parent = m
                                       THEN Insert(modules[m].globals, Leaf(top.name), Module(top.module))
                                       ELSE modules[m].globals
         /\ \A m : m = top.module => m \in 1..Len(modules) /\ modules'[m].initialized
<1> PICK b : b = top.module
  OBVIOUS
<1> PICK p : p = top.parent
  OBVIOUS
<1> DEFINE r == [modules[b] EXCEPT !.initialized = TRUE]
           done == [modules EXCEPT ![b] = r]
           q == [done[p] EXCEPT !.globals = Insert(@, Leaf(top.name), Module(b))]
           T == Records \cup {r}
<1>1. modules' = (IF p = 0 THEN done ELSE [done EXCEPT ![p] = q]) /\ top.kind = "body" /\ b # 0
  BY DEF HALT_module, Fetch
<1>2. b \in 1..Len(modules) /\ modules \in Seq(Records) /\ Len(modules) \in Nat /\ top \in Bodies
  BY <1>1, TopFits, Fetched DEF HeapTyped
<1>3. modules[b] \in Records
  BY <1>2
<1>4. /\ r.name = modules[b].name /\ r.file = modules[b].file /\ r.globals = modules[b].globals
      /\ r.initialized = TRUE
  BY <1>3 DEF Records
<1>5. modules \in Seq(T) /\ r \in T
  BY <1>2, SeqGrows
<1> HIDE DEF r, T
<1>7. /\ done \in Seq(T) /\ Len(done) = Len(modules) /\ done[b] = r
      /\ \A i \in 1..Len(modules) : i # b => done[i] = modules[i]
  BY <1>2, <1>5, SeqSet
<1> HIDE DEF done
<1>8. CASE p = 0
  BY <1>1, <1>2, <1>4, <1>7, <1>8
<1>9. CASE p # 0
  <2>1. p \in 1..Len(done)
    BY <1>2, <1>7, <1>9 DEF Bodies
  <2>2. done[p] \in T
    BY <1>7, <2>1
  <2>3. /\ q.name = done[p].name /\ q.initialized = done[p].initialized /\ q.file = done[p].file
        /\ q.globals = Insert(done[p].globals, Leaf(top.name), Module(b))
    BY <1>3, <2>2 DEF T, r, Records
  <2> DEFINE U == T \cup {q}
  <2>4. done \in Seq(U) /\ q \in U
    BY <1>7, SeqGrows
  <2> HIDE DEF q, U
  <2>5. /\ Len(modules') = Len(done) /\ modules'[p] = q
        /\ \A i \in 1..Len(done) : i # p => modules'[i] = done[i]
    BY <1>1, <1>9, <2>1, <2>4, SeqSet
  <2> QED BY <1>2, <1>4, <1>7, <2>3, <2>5
<1> QED BY <1>8, <1>9

(* Steps that end a body or the program. *)
LEMMA EndCache ==
  ASSUME ImportInv, ImportInv', HALT_main \/ HALT_module \/ BodyFails \/ Ended \/ UNCHANGED vars
  PROVE  Cache!Next \/ UNCHANGED Cache!vars
<1>1. CASE HALT_main \/ Ended \/ UNCHANGED vars
  <2>1. calls' = calls /\ UNCHANGED heap
    BY <1>1 DEF HALT_main, Ended, vars
  <2>2. SameHeap /\ SameBodies
    BY <2>1, StillSame DEF SameBodies
  <2> QED BY <2>2, SameCache
<1>2. CASE BodyFails
  <2>1. UNCHANGED heap /\ top.kind = "body"
    BY <1>2 DEF BodyFails, Answered
  <2>2. CASE calls' = calls
    <3>1. SameHeap /\ SameBodies
      BY <2>1, <2>2, StillSame DEF SameBodies
    <3> QED BY <3>1, SameCache
  <2>3. CASE calls' # calls
    <3>1. top.module # 0 /\ calls' = Below
      BY <1>2, <2>3 DEF BodyFails, Return
    <3>2. /\ sys_modules' = sys_modules /\ Len(modules') = Len(modules)
          /\ \A m \in 1..Len(modules) :
               /\ modules'[m].name = modules[m].name
               /\ m # top.module => modules'[m].initialized = modules[m].initialized
      BY <2>1 DEF heap
    <3> QED BY <2>1, <3>1, <3>2, EndStep
  <2> QED BY <2>2, <2>3
<1>3. CASE HALT_module
  <2>1. /\ top.kind = "body" /\ top.module # 0 /\ calls' = Below /\ sys_modules' = sys_modules
    BY <1>3 DEF HALT_module, Fetch, Return
  <2>2. /\ Len(modules') = Len(modules)
        /\ \A m \in 1..Len(modules) :
             /\ modules'[m].name = modules[m].name
             /\ m # top.module => modules'[m].initialized = modules[m].initialized
    BY <1>3, HaltedModules
  <2> QED BY <2>1, <2>2, EndStep
<1> QED BY <1>1, <1>2, <1>3

(* Every step is one of the import cache, or leaves it as it is. *)
LEMMA CacheStep ==
  ImportInv /\ ImportInv' /\ NotOvertaken /\ [Next]_vars => [Cache!Next]_(Cache!vars)
<1> SUFFICES ASSUME ImportInv, ImportInv', NotOvertaken, [Next]_vars
             PROVE  Cache!Next \/ UNCHANGED Cache!vars
  OBVIOUS
<1>1. CASE ResolveCached \/ ResolveParent \/ ResolveTopLevel \/ ResolveSubmodule \/ ResolveFails
  BY <1>1, RequestCache
<1>2. CASE \/ LOAD_CONST \/ STORE_GLOBAL \/ LOAD_ATTR \/ POP_TOP \/ RAISE \/ IMPORT_NAME
           \/ IMPORT_NAME_returns \/ IMPORT_FROM \/ IMPORT_FROM_returns \/ IMPORT_STAR
  BY <1>2, InstructionCache
<1>3. CASE HALT_main \/ HALT_module \/ BodyFails \/ Ended \/ UNCHANGED vars
  BY <1>3, EndCache
<1> QED BY <1>1, <1>2, <1>3 DEF Next

(* At first the cache has the module sys. *)
LEMMA CacheStart ==
  ASSUME ImportInv, Start
  PROVE  Cache!Init
<1>1. PICK script \in Seq(Statements) : InitWith(files, script)
  BY DEF Start
<1>2. modules = <<Sys>> /\ sys_modules = [n \in {<<"sys">>} |-> 1]
  BY <1>1 DEF InitWith
<1>3. Len(modules) = 1 /\ modules[1] = Sys /\ 1..1 = {1}
  BY <1>2
<1>4. Sys.name = <<"sys">> /\ Sys.initialized = TRUE
  BY DEF Sys
<1>5. DOMAIN Loads = {1} /\ Loads[1] = [name |-> <<"sys">>, state |-> LoadState(1)]
  BY <1>3, <1>4, LoadsTyped
<1>6. LoadState(1) = "ready"
  BY <1>3, <1>4 DEF LoadState
<1>7. Loads[1].name = <<"sys">> /\ Loads[1].state = "ready"
  BY <1>5, <1>6
<1>8. DOMAIN sys_modules = {<<"sys">>} /\ sys_modules[<<"sys">>] = 1
  BY <1>2
<1> QED BY <1>5, <1>7, <1>8 DEF Cache!Init

(* As long as no request is overtaken, resolve_import implements an import
   cache: a name is loaded when it is not in the cache, it is there before
   its body runs, and loads end in the reverse of the order they began in. *)
THEOREM CacheAlwaysImplemented == ImportSpec /\ []NotOvertaken => CacheImplemented
<1>1. ImportInv /\ Start => Cache!Init
  BY CacheStart
<1> QED BY <1>1, ImportInvAlways, CacheStep, PTL DEF ImportSpec, CacheImplemented, Cache!Spec

(* ... and no name is ever loaded twice. *)
THEOREM AlwaysOneModuleOfAName == ImportSpec /\ []NotOvertaken => []NameLoadedOnce
<1>1. ASSUME Start  PROVE NameLoadedOnce
  <2>1. PICK script \in Seq(Statements) : InitWith(files, script)
    BY <1>1 DEF Start
  <2>2. DOMAIN modules = {1}
    BY <2>1 DEF InitWith
  <2> QED BY <2>2 DEF NameLoadedOnce
<1>2. ASSUME ImportInv, ImportInv', NotOvertaken, NameLoadedOnce, [Next]_vars
      PROVE  NameLoadedOnce'
  <2>1. /\ DOMAIN Loads = DOMAIN modules /\ DOMAIN modules = 1..Len(modules)
        /\ Len(modules) \in Nat /\ Len(Loads) = Len(modules)
        /\ \A m \in DOMAIN modules : Loads[m].name = modules[m].name
    BY <1>2, LoadsTyped
  <2>2. /\ DOMAIN Loads' = DOMAIN modules'
        /\ \A m \in DOMAIN modules' : Loads'[m].name = modules'[m].name
    BY DEF Loads
  <2>3. \A m \in DOMAIN modules : modules[m].name \in DOMAIN sys_modules
    BY <1>2, <2>1 DEF ImportInv, CacheClosed
  <2>4. CASE UNCHANGED Cache!vars
    <3>1. Loads' = Loads
      BY <2>4 DEF Cache!vars
    <3> QED BY <1>2, <2>1, <2>2, <3>1 DEF NameLoadedOnce
  <2>5. ASSUME NEW m, NEW s, Cache!End(m, s)  PROVE NameLoadedOnce'
    <3>1. Loads' = [Loads EXCEPT ![m].state = s]
      BY <2>5 DEF Cache!End
    <3>2. DOMAIN Loads' = DOMAIN Loads
      BY <3>1
    <3>3. \A k \in DOMAIN Loads : Loads'[k].name = Loads[k].name
      <4>1. \A k \in DOMAIN Loads : Loads[k] = [name |-> modules[k].name, state |-> LoadState(k)]
        BY <1>2, <2>1, LoadsTyped
      <4> QED BY <3>1, <4>1
    <3> QED BY <1>2, <2>1, <2>2, <3>2, <3>3 DEF NameLoadedOnce
  <2>6. ASSUME NEW n, Cache!Begin(n)  PROVE NameLoadedOnce'
    <3> PICK x : x = [name |-> n, state |-> "loading"]
      OBVIOUS
    <3>1. Loads' = Append(Loads, x) /\ n \notin DOMAIN sys_modules /\ x.name = n
      BY <2>6 DEF Cache!Begin
    <3> PICK L : L = Len(modules)
      OBVIOUS
    <3> DEFINE T == [name : Seq(Identifiers), state : {"loading", "ready", "failed"}] \cup {x}
    <3>2. Loads \in Seq(T) /\ x \in T
      BY <1>2, LoadsTyped, SeqGrows
    <3> HIDE DEF T
    <3>3. /\ Loads' \in Seq(T) /\ Len(Loads') = L + 1 /\ Loads'[L + 1] = x
          /\ \A i \in 1..L : Loads'[i] = Loads[i]
      BY <2>1, <3>1, <3>2, SeqPush
    <3>4. DOMAIN Loads' = 1..L + 1 /\ L \in Nat
      BY <2>1, <3>3
    <3>5. \A i \in 1..L + 1 : i \in 1..L \/ i = L + 1
      BY <3>4
    <3>6. \A i \in 1..L : modules'[i].name = modules[i].name /\ modules[i].name # n
      BY <2>1, <2>2, <2>3, <3>1, <3>3, <3>4
    <3>7. modules'[L + 1].name = n
      BY <2>2, <3>1, <3>3, <3>4
    <3>8. DOMAIN modules' = 1..L + 1 /\ DOMAIN modules = 1..L
      BY <2>1, <2>2, <3>4
    <3>9. ASSUME NEW m \in 1..L + 1, NEW k \in 1..L + 1, modules'[m].name = modules'[k].name
          PROVE  m = k
      BY <1>2, <3>5, <3>6, <3>7, <3>8, <3>9 DEF NameLoadedOnce
    <3> QED BY <3>8, <3>9 DEF NameLoadedOnce
  <2> QED BY <1>2, <2>4, <2>5, <2>6, CacheStep DEF Cache!Next
<1>3. ImportInv /\ ImportInv' /\ NotOvertaken /\ NameLoadedOnce /\ [Next]_vars => NameLoadedOnce'
  BY <1>2
<1> QED BY <1>1, <1>3, ImportInvAlways, PTL DEF ImportSpec

-------------------------------------------------------------------------------
(* Submodules. *)
(* As long as no import has failed, a module has run or runs, and a submodule
   that has run is the attribute of its package.                             *)
Succeeding == status = "running" /\ ~Failed(reply)
Attribute(p, m) ==
  \/ Leaf(modules[m].name) \in BoundBy(BodyOf(p)) \/ Stars(BodyOf(p))
  \/ /\ Leaf(modules[m].name) \in DOMAIN modules[p].globals
     /\ modules[p].globals[Leaf(modules[m].name)] = Module(m)
IsParent(p, m) == Len(modules[m].name) > 1 /\ modules[p].name = Parent(modules[m].name)
Attached(m) ==
  /\ modules[m].initialized \/ Executing(m)
  /\ Len(modules[m].name) > 1 =>
       \E p \in 2..Len(modules) :
         IsParent(p, m) /\ (modules[m].initialized => Attribute(p, m))
AttachInv ==
  /\ Len(modules) > 0 /\ modules[1].name = <<"sys">> /\ modules[1].file = NoPath
  /\ Succeeding => \A m \in 2..Len(modules) : Attached(m)

(* A name is its parent's with one more segment. *)
LEMMA SameName ==
  ASSUME NEW x \in Seq(Identifiers), NEW y \in Seq(Identifiers), Len(x) > 1, Len(y) > 1,
         Parent(x) = Parent(y), Leaf(x) = Leaf(y)
  PROVE  x = y
<1> PICK n : n = Len(x)
  OBVIOUS
<1> PICK k : k = Len(y)
  OBVIOUS
<1>1. n \in Nat /\ k \in Nat /\ 1 <= n /\ 1 <= k /\ 1 \in Nat
  OBVIOUS
<1>2. /\ Parent(x) = SubSeq(x, 1, n - 1) /\ Parent(y) = SubSeq(y, 1, k - 1)
      /\ Leaf(x) = x[n] /\ Leaf(y) = y[k]
  BY DEF Parent, Leaf
<1> PICK u : u = SubSeq(x, 1, n - 1)
  OBVIOUS
<1> PICK v : v = SubSeq(y, 1, k - 1)
  OBVIOUS
<1>3. Len(u) = n - 1 /\ \A i \in 1..n - 1 : u[i] = x[i]
  BY <1>1, SeqTrim
<1>4. Len(v) = k - 1 /\ \A i \in 1..k - 1 : v[i] = y[i]
  BY <1>1, SeqTrim
<1>5. u = v /\ n = k
  <2>1. u = v
    BY <1>2
  <2>2. n - 1 = k - 1
    BY <1>3, <1>4, <2>1
  <2> QED BY <1>1, <2>1, <2>2
<1>6. \A i \in 1..n : i \in 1..n - 1 \/ i = n
  BY <1>1
<1>7. \A i \in 1..n : x[i] = y[i]
  BY <1>2, <1>3, <1>4, <1>5, <1>6
<1>8. x = [i \in 1..n |-> x[i]] /\ y = [i \in 1..n |-> y[i]]
  BY <1>1, <1>5, SeqFunction
<1> QED BY <1>7, <1>8

(* Names of modules are sequences of segments. *)
LEMMA NamesTyped ==
  ASSUME ImportInv
  PROVE  /\ Len(modules) \in Nat /\ DOMAIN modules = 1..Len(modules)
         /\ \A m \in 1..Len(modules) : modules[m].name \in Seq(Identifiers)
<1>1. Len(modules) \in Nat /\ DOMAIN modules = 1..Len(modules) /\ modules \in Seq(Records)
  BY TopFits DEF HeapTyped
<1>2. ASSUME NEW m \in 1..Len(modules)  PROVE modules[m].name \in Seq(Identifiers)
  <2>1. modules[m] \in Records
    BY <1>1
  <2> QED BY <2>1 DEF Records
<1> QED BY <1>1, <1>2

(* Submodules stay attached where no module comes or ends and no attribute is
   lost. *)
LEMMA AttachKeeps ==
  ASSUME ImportInv, AttachInv, files' = files, Len(modules') = Len(modules),
         \A m \in 1..Len(modules) : /\ modules'[m].name = modules[m].name
                                    /\ modules'[m].file = modules[m].file
                                    /\ modules'[m].initialized = modules[m].initialized
                                    /\ Executing(m)' <=> Executing(m),
         Succeeding' => Succeeding,
         \A p, m \in 2..Len(modules) : IsParent(p, m) /\ Attribute(p, m) => Attribute(p, m)'
  PROVE  AttachInv'
<1>1. Len(modules) \in Nat /\ Len(modules) > 0
  BY NamesTyped DEF AttachInv
<1>2. \A m \in 2..Len(modules) : m \in 1..Len(modules)
  BY <1>1
<1>3. 1 \in 1..Len(modules)
  BY <1>1
<1>4. ASSUME Succeeding, NEW m \in 2..Len(modules)  PROVE Attached(m)'
  <2>1. Attached(m)
    BY <1>4 DEF AttachInv
  <2>2. modules'[m].initialized \/ Executing(m)'
    BY <1>2, <2>1 DEF Attached
  <2>3. ASSUME Len(modules[m].name) > 1
        PROVE  \E p \in 2..Len(modules) :
                 IsParent(p, m)' /\ (modules'[m].initialized => Attribute(p, m)')
    <3>1. PICK p \in 2..Len(modules) : IsParent(p, m) /\ (modules[m].initialized => Attribute(p, m))
      BY <2>1, <2>3 DEF Attached
    <3>2. IsParent(p, m)'
      BY <1>2, <3>1 DEF IsParent
    <3>3. modules'[m].initialized => Attribute(p, m)'
      BY <1>2, <3>1
    <3> QED BY <3>2, <3>3
  <2>4. modules'[m].name = modules[m].name
    BY <1>2
  <2> QED BY <2>2, <2>3, <2>4 DEF Attached
<1> QED BY <1>1, <1>3, <1>4 DEF AttachInv

(* Once an import has failed, nothing is left to show. *)
LEMMA AttachFails ==
  ASSUME ImportInv, AttachInv, ~Succeeding', modules' = modules
  PROVE  AttachInv'
BY DEF AttachInv

(* Steps that leave the heap alone. *)
LEMMA AttachSame ==
  ASSUME ImportInv, AttachInv, UNCHANGED <<files, heap>>, SameBodies, Succeeding' => Succeeding
  PROVE  AttachInv'
<1>1. \A m : Executing(m)' <=> Executing(m)
  BY SameExecuting
<1>2. \A p, m \in 2..Len(modules) : Attribute(p, m) => Attribute(p, m)'
  BY DEF Attribute, BodyOf, heap
<1> QED BY <1>1, <1>2, AttachKeeps DEF heap

(* A body that sets its namespace by a name it binds, or by a star. *)
LEMMA AttachSet ==
  ASSUME ImportInv, AttachInv, UNCHANGED <<files, sys_modules>>, SameBodies, Succeeding,
         NEW b \in 0..Len(modules), NEW g, SetNamespace(b, g),
         b # 0 => \/ Stars(BodyOf(b))
                  \/ \E x \in BoundBy(BodyOf(b)) : \E v : g = Insert(modules[b].globals, x, v)
  PROVE  AttachInv'
<1>1. \A m : Executing(m)' <=> Executing(m)
  BY SameExecuting
<1>2. /\ SameHeap
      /\ \A i \in 1..Len(modules) : /\ modules'[i].file = modules[i].file
                                    /\ i # b => modules'[i] = modules[i]
  BY SetSame
<1>3. Len(modules) \in Nat /\ \A m \in 2..Len(modules) : m \in 1..Len(modules)
  BY NamesTyped
<1>4. ASSUME NEW p \in 2..Len(modules), NEW m \in 2..Len(modules), Attribute(p, m)
      PROVE  Attribute(p, m)'
  <2> PICK leaf : leaf = Leaf(modules[m].name)
    OBVIOUS
  <2>1. Leaf(modules[m].name)' = leaf /\ BodyOf(p)' = BodyOf(p)
    BY <1>2, <1>3 DEF SameHeap, BodyOf
  <2>2. CASE p # b
    BY <1>2, <1>3, <1>4, <2>1, <2>2 DEF Attribute
  <2>3. CASE Stars(BodyOf(p)) \/ leaf \in BoundBy(BodyOf(p))
    BY <2>1, <2>3 DEF Attribute
  <2>4. CASE p = b /\ ~Stars(BodyOf(p)) /\ leaf \notin BoundBy(BodyOf(p))
    <3>1. b # 0 /\ b \in 1..Len(modules)
      BY <1>3, <2>4
    <3>2. PICK x \in BoundBy(BodyOf(b)) : \E v : g = Insert(modules[b].globals, x, v)
      BY <2>4, <3>1
    <3>3. leaf # x
      BY <2>4, <3>2
    <3>4. leaf \in DOMAIN modules[b].globals /\ modules[b].globals[leaf] = Module(m)
      BY <1>4, <2>4 DEF Attribute
    <3>5. leaf \in DOMAIN g /\ g[leaf] = Module(m)
      BY <3>2, <3>3, <3>4 DEF Insert
    <3>6. modules'[b].globals = g
      <4>1. modules \in Seq(Records) /\ modules' = [modules EXCEPT ![b].globals = g]
        BY <3>1, TopFits DEF HeapTyped, SetNamespace
      <4>2. modules[b] \in Records
        BY <3>1, <4>1
      <4> DEFINE r == [modules[b] EXCEPT !.globals = g]
                 T == Records \cup {r}
      <4>3. modules \in Seq(T) /\ r \in T /\ modules' = [modules EXCEPT ![b] = r]
        BY <4>1, SeqGrows
      <4>4. r.globals = g
        BY <4>2 DEF Records
      <4> HIDE DEF r, T
      <4>5. modules'[b] = r
        BY <3>1, <4>3, SeqSet
      <4> QED BY <4>4, <4>5
    <3> QED BY <2>1, <2>4, <3>5, <3>6 DEF Attribute
  <2> QED BY <2>2, <2>3, <2>4
<1> QED BY <1>1, <1>2, <1>3, <1>4, AttachKeeps DEF SameHeap

(* The code that runs is that of the module's body, so that what it stores is
   what the body binds. *)
LEMMA StoresBound ==
  ASSUME ImportInv, top.kind = "body", top.module # 0
  PROVE  /\ Instr[1] = "STORE_GLOBAL" => Arg \in BoundBy(BodyOf(top.module))
         /\ Instr[1] = "IMPORT_STAR" => Stars(BodyOf(top.module))
<1> PICK c : c = top
  OBVIOUS
<1>1. CallFits(c) /\ c.kind = "body" /\ c.module # 0
  BY TopFits
<1>2. Code(c.code, BodyOf(c.module))
  BY <1>1 DEF CallFits, BodyFits, OfModule
<1>3. c.ip \in 1..Len(c.code) /\ Instr = c.code[c.ip] /\ Arg = c.code[c.ip][2]
  BY Fetched DEF Instr, Arg
<1>4. ASSUME Instr[1] = "STORE_GLOBAL"  PROVE Storing(c.code, Arg)
  <2>1. Instr = <<"STORE_GLOBAL", Arg>>
    BY <1>4, Fetched DEF Instructions, Arg
  <2> QED BY <1>3, <2>1 DEF Storing
<1>5. ASSUME Instr[1] = "IMPORT_STAR"  PROVE Starring(c.code)
  BY <1>3, <1>5 DEF Starring, Op
<1> QED BY <1>2, <1>4, <1>5 DEF Code

(* Instructions. *)
LEMMA AttachInstruction ==
  ASSUME ImportInv, AttachInv,
         \/ LOAD_CONST \/ STORE_GLOBAL \/ LOAD_ATTR \/ POP_TOP \/ RAISE \/ IMPORT_NAME
         \/ IMPORT_NAME_returns \/ IMPORT_FROM \/ IMPORT_FROM_returns \/ IMPORT_STAR
  PROVE  AttachInv'
<1>1. SameBodies
  BY InstructionSame
<1>2. top.kind = "body" /\ files' = files /\ status = "running" /\ ~Failed(reply)
  <2>1. CASE IMPORT_NAME_returns \/ IMPORT_FROM_returns
    BY <2>1 DEF IMPORT_NAME_returns, IMPORT_FROM_returns, Answered
  <2>2. CASE \/ LOAD_CONST \/ STORE_GLOBAL \/ LOAD_ATTR \/ POP_TOP \/ RAISE
             \/ IMPORT_NAME \/ IMPORT_FROM \/ IMPORT_STAR
    <3>1. top.kind = "body" /\ files' = files /\ Running
      BY <2>2 DEF LOAD_CONST, STORE_GLOBAL, LOAD_ATTR, POP_TOP, RAISE, IMPORT_NAME,
         IMPORT_FROM, IMPORT_STAR, Fetch
    <3> QED BY <3>1 DEF Running, Failed, Unset
  <2> QED BY <2>1, <2>2
<1>3. Succeeding /\ top.module \in 0..Len(modules)
  BY <1>2, Fetched DEF Succeeding
<1>4. CASE \/ LOAD_CONST \/ LOAD_ATTR \/ POP_TOP \/ RAISE \/ IMPORT_NAME
           \/ IMPORT_NAME_returns \/ IMPORT_FROM \/ IMPORT_FROM_returns
  <2>1. UNCHANGED heap
    BY <1>4 DEF LOAD_CONST, LOAD_ATTR, POP_TOP, RAISE, IMPORT_NAME,
       IMPORT_NAME_returns, IMPORT_FROM, IMPORT_FROM_returns
  <2> QED BY <1>1, <1>2, <1>3, <2>1, AttachSame
<1>5. CASE STORE_GLOBAL
  <2> PICK g : g = Insert(Namespace(top.module), Arg, Operand(0))
    OBVIOUS
  <2>1. SetNamespace(top.module, g) /\ sys_modules' = sys_modules /\ Instr[1] = "STORE_GLOBAL"
    BY <1>5 DEF STORE_GLOBAL, Fetch
  <2>2. top.module # 0 =>
          \E x \in BoundBy(BodyOf(top.module)) : \E v : g = Insert(modules[top.module].globals, x, v)
    BY <1>2, <2>1, StoresBound DEF Namespace
  <2> QED BY <1>1, <1>2, <1>3, <2>1, <2>2, AttachSet
<1>6. CASE IMPORT_STAR
  <2>1. sys_modules' = sys_modules /\ heap_lost' = heap_lost /\ Instr[1] = "IMPORT_STAR"
    BY <1>6 DEF IMPORT_STAR, Fetch
  <2>2. CASE ~IsModule(Operand(0))
    <3>1. UNCHANGED heap
      BY <1>6, <2>1, <2>2 DEF IMPORT_STAR, heap
    <3> QED BY <1>1, <1>2, <1>3, <3>1, AttachSame
  <2>3. CASE IsModule(Operand(0))
    <3>1. PICK g : SetNamespace(top.module, g)
      BY <1>6, <2>3 DEF IMPORT_STAR
    <3>2. top.module # 0 => Stars(BodyOf(top.module))
      BY <1>2, <2>1, StoresBound
    <3> QED BY <1>1, <1>2, <1>3, <2>1, <3>1, <3>2, AttachSet
  <2> QED BY <2>2, <2>3
<1> QED BY <1>4, <1>5, <1>6

(* A module that begins runs, and has a package if it is a submodule. *)
LEMMA AttachBegin ==
  ASSUME ImportInv, AttachInv, files' = files, Succeeding, top.kind = "resolve",
         NEW parent, NEW file, NEW is_package, Begin(top.name, parent, file, is_package),
         Len(top.name) > 1 => /\ parent \in 2..Len(modules)
                              /\ modules[parent].name = Parent(top.name)
  PROVE  AttachInv'
<1> PICK N : N = Len(modules)
  OBVIOUS
<1> PICK name : name = top.name
  OBVIOUS
<1> PICK r : r = NewModule(name, file, is_package)
  OBVIOUS
<1>1. /\ N \in Nat /\ Len(modules') = N + 1 /\ modules'[N + 1] = r
      /\ \A m \in 1..N : modules'[m] = modules[m]
  <2>1. N \in Nat
    BY Begun
  <2>2. Len(modules') = N + 1
    BY Begun
  <2>3. modules'[N + 1] = r
    BY Begun
  <2>4. \A m \in 1..N : modules'[m] = modules[m]
    BY Begun
  <2> QED BY <2>1, <2>2, <2>3, <2>4
<1>7. Executing(N + 1)'
  BY Begun
<1>8. ASSUME NEW m \in 1..N  PROVE Executing(m)' <=> Executing(m)
  BY Begun
<1>2. r.name = name /\ r.initialized = FALSE
  BY DEF NewModule
<1>3. N > 0
  BY DEF AttachInv
<1>4. /\ 1 \in 1..N /\ \A m \in 2..N : m \in 1..N /\ m \in 2..N + 1
      /\ \A m \in 2..N + 1 : m \in 2..N \/ m = N + 1
  BY <1>1, <1>3
<1>5. ASSUME NEW m \in 2..N  PROVE Attached(m)'
  <2>1. Attached(m) /\ modules'[m] = modules[m] /\ (Executing(m)' <=> Executing(m))
    BY <1>1, <1>4, <1>8 DEF AttachInv
  <2>2. ASSUME Len(modules[m].name) > 1
        PROVE  \E p \in 2..N + 1 : IsParent(p, m)' /\ (modules'[m].initialized => Attribute(p, m)')
    <3>1. PICK p \in 2..N : IsParent(p, m) /\ (modules[m].initialized => Attribute(p, m))
      BY <2>1, <2>2 DEF Attached
    <3>2. modules'[p] = modules[p] /\ p \in 2..N + 1
      BY <1>1, <1>4
    <3>3. IsParent(p, m)' /\ (modules'[m].initialized => Attribute(p, m)')
      BY <2>1, <3>1, <3>2 DEF IsParent, Attribute, BodyOf
    <3> QED BY <3>2, <3>3
  <2> QED BY <1>1, <2>1, <2>2 DEF Attached
<1>6. Attached(N + 1)'
  <2>1. ASSUME Len(name) > 1  PROVE parent \in 2..N + 1 /\ IsParent(parent, N + 1)'
    <3>1. parent \in 2..N /\ modules[parent].name = Parent(name)
      BY <2>1
    <3> QED BY <1>1, <1>2, <1>4, <2>1, <3>1 DEF IsParent
  <2> QED BY <1>1, <1>2, <1>7, <2>1 DEF Attached
<1> QED BY <1>1, <1>3, <1>4, <1>5, <1>6 DEF AttachInv

(* The search. *)
LEMMA AttachLoad ==
  ASSUME ImportInv, AttachInv, files' = files, Succeeding, top.kind = "resolve",
         NEW parent, NEW dirs, Load(top.name, parent, dirs),
         Len(top.name) > 1 => /\ parent \in 2..Len(modules)
                              /\ modules[parent].name = Parent(top.name)
  PROVE  AttachInv'
<1> PICK package : package = find_package_in(dirs, Leaf(top.name))
  OBVIOUS
<1> PICK file : file = IF package # NoPath THEN package
                       ELSE find_source_file_in(dirs, Leaf(top.name))
  OBVIOUS
<1>1. \/ modules' = modules /\ \E e : reply' = Err(e)
      \/ modules' = modules /\ status' = "overflow"
      \/ Begin(top.name, parent, file, package # NoPath)
  BY DEF Load, Return, heap
<1>2. CASE modules' = modules /\ ((\E e : reply' = Err(e)) \/ status' = "overflow")
  <2>1. ~Succeeding'
    BY <1>2 DEF Succeeding, Failed, Err
  <2> QED BY <1>2, <2>1, AttachFails
<1>3. CASE Begin(top.name, parent, file, package # NoPath)
  <2> PICK is_package : is_package = (package # NoPath)
    OBVIOUS
  <2>1. Begin(top.name, parent, file, is_package)
    BY <1>3
  <2> QED BY <2>1, AttachBegin
<1> QED BY <1>1, <1>2, <1>3

(* Requests. *)
LEMMA AttachRequest ==
  ASSUME ImportInv, AttachInv,
         ResolveCached \/ ResolveParent \/ ResolveTopLevel \/ ResolveSubmodule \/ ResolveFails
  PROVE  AttachInv'
<1>1. CASE ResolveCached
  <2>1. /\ top.kind = "resolve" /\ calls' = Below /\ UNCHANGED <<files, heap>>
        /\ status = "running" /\ reply = Unset
    BY <1>1 DEF ResolveCached, Requested, Running, Return
  <2>2. SameBodies /\ Succeeding
    BY <2>1 DEF SameBodies, Succeeding, Failed, Unset
  <2> QED BY <2>1, <2>2, AttachSame
<1>2. CASE ResolveParent
  <2> PICK d : d = [top EXCEPT !.waiting = TRUE]
    OBVIOUS
  <2>1. /\ top.kind = "resolve" /\ calls' = Append(WithTop(d), Resolve(Parent(top.name)))
        /\ UNCHANGED <<files, heap>> /\ status = "running" /\ reply = Unset
    BY <1>2 DEF ResolveParent, Requested, Running
  <2>2. d.kind = top.kind /\ ~(d.kind = "body")
    <3>1. top \in Requests
      BY <2>1, RequestTyped
    <3> QED BY <2>1, <3>1 DEF Requests
  <2>3. SameBodies /\ Succeeding
    BY <2>1, <2>2 DEF SameBodies, Succeeding, Failed, Unset
  <2> QED BY <2>1, <2>3, AttachSame
<1>3. CASE ResolveFails
  <2>1. Failed(reply') /\ modules' = modules
    BY <1>3 DEF ResolveFails, Answered, Return, heap
  <2>2. ~Succeeding'
    BY <2>1 DEF Succeeding, Failed
  <2> QED BY <2>1, <2>2, AttachFails
<1>4. CASE ResolveTopLevel
  <2>1. /\ top.kind = "resolve" /\ Len(top.name) = 1 /\ files' = files
        /\ Load(top.name, 0, sys_path) /\ status = "running" /\ reply = Unset
    BY <1>4 DEF ResolveTopLevel, Requested, Running
  <2>2. Succeeding /\ ~(Len(top.name) > 1)
    BY <2>1 DEF Succeeding, Failed, Unset
  <2> QED BY <2>1, <2>2, AttachLoad
<1>5. CASE ResolveSubmodule
  <2> PICK p : p = reply[2]
    OBVIOUS
  <2>1. /\ top.kind = "resolve" /\ ~Failed(reply) /\ reply # Unset /\ files' = files
        /\ status = "running"
    BY <1>5 DEF ResolveSubmodule, Answered
  <2>2. p \in 1..Len(modules) /\ modules[p].name = Parent(top.name) /\ Succeeding
    BY <2>1, ReplyFound DEF Asked, Succeeding
  <2>3. CASE modules[p].file = NoPath
    <3>1. reply' = Err("NotAPackage") /\ modules' = modules
      BY <1>5, <2>3 DEF ResolveSubmodule, Return, heap
    <3>2. ~Succeeding'
      BY <3>1 DEF Succeeding, Failed, Err
    <3> QED BY <3>1, <3>2, AttachFails
  <2>4. CASE modules[p].file # NoPath
    <3> PICK dirs : dirs = <<package_dir_of(p)>>
      OBVIOUS
    <3>1. Load(top.name, p, dirs)
      BY <1>5, <2>4 DEF ResolveSubmodule
    <3>2. p # 1
      BY <2>4 DEF AttachInv
    <3>3. p \in 2..Len(modules)
      BY <2>2, <3>2, NamesTyped
    <3> QED BY <2>1, <2>2, <3>1, <3>3, AttachLoad
  <2> QED BY <2>3, <2>4
<1> QED BY <1>1, <1>2, <1>3, <1>4, <1>5

(* The end of a body makes its module the attribute of its package; only it has
   that name there. *)
LEMMA AttachHalt ==
  ASSUME ImportInv, AttachInv, NameLoadedOnce, HALT_module
  PROVE  AttachInv'
<1> PICK b : b = top.module
  OBVIOUS
<1> PICK c : c = top
  OBVIOUS
<1> PICK N : N = Len(modules)
  OBVIOUS
<1>1. /\ c.kind = "body" /\ b # 0 /\ calls' = Below /\ files' = files
      /\ status = "running" /\ reply = Unset
  BY DEF HALT_module, Fetch, Running, Return
<1>2. /\ Len(modules') = N /\ b \in 1..N /\ modules'[b].initialized
      /\ \A m \in 1..N :
           /\ modules'[m].name = modules[m].name /\ modules'[m].file = modules[m].file
           /\ m # b => modules'[m].initialized = modules[m].initialized
           /\ modules'[m].globals = IF c.parent = m
                                    THEN Insert(modules[m].globals, Leaf(c.name), Module(b))
                                    ELSE modules[m].globals
  BY HaltedModules
<1>3. \A m : m # b => (Executing(m)' <=> Executing(m))
  BY <1>1, EndExecuting
<1>4. modules[b].name = c.name /\ Child(c.name, c.parent) /\ b # 1
  <2>1. CallFits(c)
    BY TopFits
  <2> QED BY <1>1, <2>1 DEF CallFits, BodyFits, OfModule
<1>5. /\ N \in Nat /\ N > 0 /\ DOMAIN modules = 1..N
      /\ \A m \in 1..N : modules[m].name \in Seq(Identifiers)
  BY NamesTyped DEF AttachInv
<1>6. 1 \in 1..N /\ \A m \in 2..N : m \in 1..N
  BY <1>5
<1>7. ASSUME NEW m \in 2..N  PROVE Attached(m)'
  <2>1. Attached(m)
    BY <1>1 DEF AttachInv, Succeeding, Failed, Unset
  <2>2. modules'[m].initialized \/ Executing(m)'
    BY <1>2, <1>3, <1>6, <2>1 DEF Attached
  <2>3. ASSUME Len(modules[m].name) > 1
        PROVE  \E p \in 2..N : \/ IsParent(p, m)' /\ Attribute(p, m)'
                               \/ ~modules'[m].initialized /\ IsParent(p, m)'
    <3>1. PICK p \in 2..N : IsParent(p, m) /\ (modules[m].initialized => Attribute(p, m))
      BY <2>1, <2>3 DEF Attached
    <3>2. IsParent(p, m)' /\ BodyOf(p)' = BodyOf(p)
      BY <1>1, <1>2, <1>6, <3>1 DEF IsParent, BodyOf
    <3>3. CASE ~modules'[m].initialized
      BY <3>2, <3>3
    <3>4. CASE modules'[m].initialized
      <4>1. Attribute(p, m)'
        <5>1. CASE m = b
          <6>1. c.parent = p
            <7>1. Len(c.name) > 1 /\ modules[p].name = Parent(c.name)
              BY <1>4, <3>1, <5>1 DEF IsParent
            <7>2. c.parent \in 1..N /\ modules[c.parent].name = Parent(c.name)
              <8>1. c.parent \in 0..N
                <9>1. c \in Bodies
                  BY <1>1, Fetched
                <9> QED BY <9>1 DEF Bodies
              <8>2. Len(c.name) # 1
                <9> PICK k : k = Len(c.name)
                  OBVIOUS
                <9>1. k \in Nat /\ k > 1
                  BY <1>2, <1>4, <1>5, <7>1
                <9> QED BY <9>1, MoreThanOne
              <8>3. c.parent # 0 /\ modules[c.parent].name = Parent(c.name)
                BY <1>4, <8>2 DEF Child
              <8> QED BY <8>1, <8>3, <1>5
            <7> QED BY <1>5, <1>6, <7>1, <7>2 DEF NameLoadedOnce
          <6>2. modules'[p].globals = Insert(modules[p].globals, Leaf(c.name), Module(b))
            BY <1>2, <1>6, <6>1
          <6>3. Leaf(modules[m].name)' = Leaf(c.name)
            BY <1>2, <1>4, <1>6, <5>1
          <6>4. /\ Leaf(c.name) \in DOMAIN modules'[p].globals
                /\ modules'[p].globals[Leaf(c.name)] = Module(m)
            BY <5>1, <6>2 DEF Insert
          <6> QED BY <6>3, <6>4 DEF Attribute
        <5>2. CASE m # b
          <6> PICK leaf : leaf = Leaf(modules[m].name)
            OBVIOUS
          <6>1. Attribute(p, m)
            BY <1>2, <1>6, <3>1, <3>4, <5>2
          <6>2. Leaf(modules[m].name)' = leaf
            BY <1>2, <1>6
          <6>3. CASE leaf \in BoundBy(BodyOf(p)) \/ Stars(BodyOf(p))
            BY <3>2, <6>2, <6>3 DEF Attribute
          <6>4. CASE ~(leaf \in BoundBy(BodyOf(p)) \/ Stars(BodyOf(p)))
            <7>1. leaf \in DOMAIN modules[p].globals /\ modules[p].globals[leaf] = Module(m)
              BY <6>1, <6>4 DEF Attribute
            <7>2. CASE c.parent # p
              BY <1>2, <1>6, <6>2, <7>1, <7>2 DEF Attribute
            <7>3. CASE c.parent = p
              <8>1. leaf # Leaf(c.name)
                <9> SUFFICES ASSUME leaf = Leaf(c.name)  PROVE FALSE
                  OBVIOUS
                <9> PICK x : x = modules[m].name
                  OBVIOUS
                <9> PICK y : y = c.name
                  OBVIOUS
                <9>1. x \in Seq(Identifiers) /\ y \in Seq(Identifiers) /\ Len(x) > 1
                  BY <1>2, <1>4, <1>5, <1>6, <2>3
                <9>2. p # 0
                  BY <1>5
                <9>3. Len(y) # 1 /\ modules[p].name = Parent(y)
                  BY <1>4, <7>3, <9>2 DEF Child
                <9>4. modules[p].name = Parent(x)
                  BY <3>1 DEF IsParent
                <9>5. Len(y) > 1
                  <10>1. Len(Parent(x)) = Len(x) - 1 /\ Len(x) \in Nat
                    BY <9>1, SeqTrim DEF Parent
                  <10>2. CASE y = << >>
                    BY <10>2, <9>3, <9>4, <10>1, <9>1 DEF Parent
                  <10>3. CASE y # << >>
                    <11>1. Len(y) \in Nat /\ Len(y) # 0
                      BY <9>1, <10>3
                    <11> PICK k : k = Len(y)
                      OBVIOUS
                    <11>2. k \in Nat /\ k > 0 /\ k # 1
                      BY <9>3, <11>1
                    <11> QED BY <11>2, MoreThanOne
                  <10> QED BY <10>2, <10>3
                <9>6. x = y
                  BY <9>1, <9>3, <9>4, <9>5, SameName
                <9>7. m = b
                  <10>1. modules[m].name = modules[b].name
                    BY <1>4, <9>6
                  <10>2. m \in DOMAIN modules /\ b \in DOMAIN modules
                    BY <1>2, <1>5, <1>6
                  <10> QED BY <10>1, <10>2 DEF NameLoadedOnce
                <9> QED BY <5>2, <9>7
              <8>2. modules'[p].globals = Insert(modules[p].globals, Leaf(c.name), Module(b))
                BY <1>2, <1>6, <7>3
              <8>3. leaf \in DOMAIN modules'[p].globals /\ modules'[p].globals[leaf] = Module(m)
                BY <7>1, <8>1, <8>2 DEF Insert
              <8> QED BY <6>2, <8>3 DEF Attribute
            <7> QED BY <7>2, <7>3
          <6> QED BY <6>3, <6>4
        <5> QED BY <5>1, <5>2
      <4> QED BY <3>2, <4>1
    <3> QED BY <3>3, <3>4
  <2> QED BY <1>2, <1>6, <2>2, <2>3 DEF Attached
<1> QED BY <1>2, <1>5, <1>6, <1>7 DEF AttachInv

(* Every step keeps the invariant. *)
LEMMA AttachStep ==
  ImportInv /\ NameLoadedOnce /\ AttachInv /\ [Next]_vars => AttachInv'
<1> SUFFICES ASSUME ImportInv, NameLoadedOnce, AttachInv, [Next]_vars
             PROVE  AttachInv'
  OBVIOUS
<1>1. CASE ResolveCached \/ ResolveParent \/ ResolveTopLevel \/ ResolveSubmodule \/ ResolveFails
  BY <1>1, AttachRequest
<1>2. CASE \/ LOAD_CONST \/ STORE_GLOBAL \/ LOAD_ATTR \/ POP_TOP \/ RAISE \/ IMPORT_NAME
           \/ IMPORT_NAME_returns \/ IMPORT_FROM \/ IMPORT_FROM_returns \/ IMPORT_STAR
  BY <1>2, AttachInstruction
<1>3. CASE HALT_module
  BY <1>3, AttachHalt
<1>4. CASE HALT_main \/ BodyFails
  <2>1. modules' = modules
    BY <1>4 DEF HALT_main, BodyFails, heap
  <2>2. status' # "running" \/ Failed(reply')
    <3>1. CASE HALT_main
      BY <3>1 DEF HALT_main
    <3>2. CASE BodyFails
      <4>1. CASE top.module = 0
        BY <3>2, <4>1 DEF BodyFails
      <4>2. CASE top.module # 0 /\ heap_lost
        BY <3>2, <4>2 DEF BodyFails
      <4>3. CASE top.module # 0 /\ ~heap_lost
        <5>1. reply' = (IF Instr[1] = "IMPORT_FROM" THEN Err("CannotImportName") ELSE reply)
          BY <3>2, <4>3 DEF BodyFails, Return
        <5>2. Failed(reply) /\ Failed(Err("CannotImportName"))
          BY <3>2 DEF BodyFails, Failed, Err
        <5> QED BY <5>1, <5>2
      <4> QED BY <4>1, <4>2, <4>3
    <3> QED BY <1>4, <3>1, <3>2
  <2>3. ~Succeeding'
    BY <2>2 DEF Succeeding, Failed
  <2> QED BY <2>1, <2>3, AttachFails
<1>5. CASE Ended \/ UNCHANGED vars
  <2>1. UNCHANGED <<files, heap, calls, reply, status>>
    BY <1>5 DEF Ended, vars
  <2>2. SameBodies /\ (Succeeding' => Succeeding)
    BY <2>1 DEF SameBodies, Succeeding, Failed
  <2> QED BY <2>1, <2>2, AttachSame
<1> QED BY <1>1, <1>2, <1>3, <1>4, <1>5 DEF Next

(* When no import is under way, every submodule in the cache is the attribute of
   its package that HALT makes it, unless the package binds that name itself.  *)
THEOREM SubmodulesAlwaysBound == ImportSpec /\ []NotOvertaken => []SubmodulesBound
<1>1. ASSUME Start  PROVE AttachInv
  <2>1. PICK script \in Seq(Statements) : InitWith(files, script)
    BY <1>1 DEF Start
  <2>2. modules = <<Sys>>
    BY <2>1 DEF InitWith
  <2>3. Len(modules) = 1 /\ modules[1] = Sys /\ 2..1 = {}
    BY <2>2
  <2> QED BY <2>3 DEF AttachInv, Sys
<1>2. ASSUME ImportInv, NameLoadedOnce, AttachInv  PROVE SubmodulesBound
  <2> SUFFICES ASSUME Len(calls) = 1, Running, NEW n \in DOMAIN sys_modules, Len(n) > 1
               PROVE  LET parent == sys_modules[Parent(n)] IN
                      \/ Leaf(n) \in BoundBy(BodyOf(parent)) \/ Stars(BodyOf(parent))
                      \/ /\ Leaf(n) \in DOMAIN modules[parent].globals
                         /\ modules[parent].globals[Leaf(n)] = Module(sys_modules[n])
    BY DEF SubmodulesBound
  <2> PICK m : m = sys_modules[n]
    OBVIOUS
  <2>1. m \in DOMAIN modules /\ modules[m].name = n
    BY <1>2 DEF ImportInv, TypeOK
  <2>2. m # 1
    <3> SUFFICES ASSUME m = 1  PROVE FALSE
      OBVIOUS
    <3>1. n = <<"sys">>
      BY <1>2, <2>1 DEF AttachInv
    <3>2. Len(n) = 1
      BY <3>1
    <3> QED BY <3>2
  <2>3. m \in 2..Len(modules)
    BY <1>2, <2>1, <2>2, NamesTyped
  <2>4. Attached(m)
    BY <1>2, <2>3 DEF AttachInv, Succeeding, Running, Failed, Unset
  <2>5. ~Executing(m)
    <3>1. CallsFit /\ DOMAIN calls = {1}
      BY <1>2, TopFits
    <3> QED BY <2>3, <3>1 DEF CallsFit, Executing
  <2>6. PICK p \in 2..Len(modules) : IsParent(p, m) /\ Attribute(p, m)
    BY <2>1, <2>4, <2>5 DEF Attached
  <2>7. sys_modules[Parent(n)] = p
    <3>1. p \in 1..Len(modules) /\ DOMAIN modules = 1..Len(modules) /\ modules[p].name = Parent(n)
      BY <1>2, <2>1, <2>6, NamesTyped DEF IsParent
    <3>2. Parent(n) \in DOMAIN sys_modules
      BY <1>2, <3>1 DEF ImportInv, CacheClosed
    <3>3. sys_modules[Parent(n)] \in DOMAIN modules /\ modules[sys_modules[Parent(n)]].name = Parent(n)
      BY <1>2, <3>2 DEF ImportInv, TypeOK
    <3> QED BY <1>2, <3>1, <3>3 DEF NameLoadedOnce
  <2> QED BY <2>1, <2>6, <2>7 DEF Attribute
<1> QED BY <1>1, <1>2, ImportInvAlways, AlwaysOneModuleOfAName, AttachStep, PTL DEF ImportSpec

-------------------------------------------------------------------------------
(* What a step finds, and what it does to the modules and the calls. *)

(* What a search finds is one of what it looks for. *)
LEMMA FirstFileAmong ==
  ASSUME NEW cands, NEW n \in Nat, DOMAIN cands = 1..n
  PROVE  FirstFile(cands) = NoPath \/ \E i \in 1..n : FirstFile(cands) = cands[i]
<1> DEFINE S == {i \in 1..n : cands[i] \in DOMAIN files}
<1>1. CASE S = {}
  BY <1>1 DEF FirstFile
<1>2. CASE S # {}
  <2>1. S \in SUBSET Nat
    OBVIOUS
  <2>2. PICK m \in S : \A k \in S : m <= k
    <3> HIDE DEF S
    <3> QED BY <1>2, <2>1, Least
  <2>3. m \in 1..n /\ cands[m] \in DOMAIN files
    OBVIOUS
  <2>4. \A j \in 1..m - 1 : cands[j] \notin DOMAIN files
    <3> SUFFICES ASSUME NEW j \in 1..m - 1, cands[j] \in DOMAIN files  PROVE FALSE
      OBVIOUS
    <3>1. j \in S /\ j < m /\ m \in Nat /\ j \in Nat
      BY <2>3
    <3> QED BY <2>2, <3>1
  <2> DEFINE P(i) == cands[i] \in DOMAIN files /\ \A j \in 1..i - 1 : cands[j] \notin DOMAIN files
  <2>5. \E i \in DOMAIN cands : P(i)
    BY <2>3, <2>4
  <2>6. FirstFile(cands) = cands[CHOOSE i \in DOMAIN cands : P(i)]
    BY <2>3 DEF FirstFile
  <2>7. (CHOOSE i \in DOMAIN cands : P(i)) \in DOMAIN cands
    <3> HIDE DEF P
    <3> QED BY <2>5
  <2> QED BY <2>6, <2>7
<1> QED BY <1>1, <1>2

(* The file of a module is the first that a search in those directories finds. *)
FileIn(dirs, leaf, file) ==
  file \in DOMAIN files /\ \E i \in DOMAIN dirs :
    file \in {Append(Join(dirs[i], leaf), "__init__"), dirs[i] \o <<leaf>>}
Finds(parent, file, is_package) ==
  /\ Begin(top.name, parent, file, is_package)
  /\ IF Len(top.name) = 1 THEN FileIn(sys_path, Leaf(top.name), file)
     ELSE /\ parent \in 1..Len(modules) /\ modules[parent].name = Parent(top.name)
          /\ modules[parent].file # NoPath
          /\ FileIn(<<package_dir_of(parent)>>, Leaf(top.name), file)
Founds(parent, file, is_package) == ~Cached(top.name) /\ Finds(parent, file, is_package)
Stands ==
  /\ sys_modules' = sys_modules /\ Len(modules') = Len(modules)
  /\ \A m \in 1..Len(modules) : /\ modules'[m].name = modules[m].name
                                /\ modules'[m].file = modules[m].file

LEMMA LoadFinds ==
  ASSUME NEW name, NEW parent, NEW dirs, NEW n \in Nat, DOMAIN dirs = 1..n, Load(name, parent, dirs)
  PROVE  \/ modules' = modules /\ sys_modules' = sys_modules /\ calls' \in {calls, Below}
         \/ \E file, is_package : /\ Begin(name, parent, file, is_package)
                                  /\ FileIn(dirs, Leaf(name), file)
<1> PICK package : package = find_package_in(dirs, Leaf(name))
  OBVIOUS
<1> PICK source : source = find_source_file_in(dirs, Leaf(name))
  OBVIOUS
<1> PICK file : file = IF package # NoPath THEN package ELSE source
  OBVIOUS
<1>1. \/ modules' = modules /\ sys_modules' = sys_modules /\ calls' \in {calls, Below}
      \/ file # NoPath /\ Begin(name, parent, file, package # NoPath)
  BY DEF Load, heap, Return
<1>2. ASSUME file # NoPath  PROVE FileIn(dirs, Leaf(name), file)
  <2>1. CASE package # NoPath
    <3> PICK cands : cands = [i \in DOMAIN dirs |-> Append(Join(dirs[i], Leaf(name)), "__init__")]
      OBVIOUS
    <3>1. DOMAIN cands = 1..n /\ package = FirstFile(cands)
      BY DEF find_package_in
    <3>2. PICK i \in 1..n : package = cands[i]
      BY <2>1, <3>1, FirstFileAmong
    <3>3. package \in DOMAIN files
      BY <2>1, <3>1, FirstFileFinds
    <3> QED BY <2>1, <3>2, <3>3 DEF FileIn
  <2>2. CASE package = NoPath
    <3> PICK cands : cands = [i \in DOMAIN dirs |-> dirs[i] \o <<Leaf(name)>>]
      OBVIOUS
    <3>1. DOMAIN cands = 1..n /\ source = FirstFile(cands) /\ source = file
      BY <2>2 DEF find_source_file_in
    <3>2. PICK i \in 1..n : source = cands[i]
      BY <1>2, <3>1, FirstFileAmong
    <3>3. source \in DOMAIN files
      BY <1>2, <3>1, FirstFileFinds
    <3> QED BY <3>1, <3>2, <3>3 DEF FileIn
  <2> QED BY <2>1, <2>2
<1> QED BY <1>1, <1>2

(* What a step does to the calls, if it finds no file. *)
Asks(name) ==
  /\ top.kind = "body" /\ Ask(name)
  /\ \/ Instr[1] = "IMPORT_NAME" /\ RelativeError(top.module, Level) = "none" /\ name = Absolute
     \/ Instr[1] = "IMPORT_FROM" /\ name = Append(modules[Operand(0)[2]].name, Arg)
Moves ==
  \/ calls' = calls \/ calls' = Below
  \/ top.kind = "body" /\ \E s : Advance(s)
  \/ \E name : Asks(name)
  \/ ResolveParent

LEMMA OthersMove ==
  ASSUME [Next]_vars, ~ResolveTopLevel, ~ResolveSubmodule
  PROVE  Moves
<1>1. CASE IMPORT_NAME
  BY <1>1 DEF IMPORT_NAME, Fetch, Fail, Moves, Asks
<1>2. CASE IMPORT_FROM
  BY <1>2 DEF IMPORT_FROM, Fetch, Fail, Moves, Asks
<1>3. CASE LOAD_CONST \/ STORE_GLOBAL \/ LOAD_ATTR \/ POP_TOP \/ IMPORT_STAR
  BY <1>3 DEF LOAD_CONST, STORE_GLOBAL, LOAD_ATTR, POP_TOP, IMPORT_STAR, Fetch, Fail, Moves
<1>4. CASE IMPORT_NAME_returns \/ IMPORT_FROM_returns
  BY <1>4 DEF IMPORT_NAME_returns, IMPORT_FROM_returns, Answered, Fail, Moves
<1>5. CASE \/ RAISE \/ HALT_main \/ HALT_module \/ BodyFails \/ Ended \/ UNCHANGED vars
           \/ ResolveCached \/ ResolveFails
  <2>1. calls' = calls \/ calls' = Below
    BY <1>5 DEF RAISE, HALT_main, HALT_module, BodyFails, Ended, vars, ResolveCached, ResolveFails,
       Return, Fail
  <2> QED BY <2>1 DEF Moves
<1> QED BY <1>1, <1>2, <1>3, <1>4, <1>5 DEF Next, Moves

LEMMA FilesStand ==
  ASSUME [Next]_vars
  PROVE  files' = files
BY DEF Next, vars, ResolveCached, ResolveParent, ResolveTopLevel, ResolveSubmodule, ResolveFails,
   LOAD_CONST, STORE_GLOBAL, LOAD_ATTR, POP_TOP, RAISE, IMPORT_NAME, IMPORT_NAME_returns,
   IMPORT_FROM, IMPORT_FROM_returns, IMPORT_STAR, HALT_main, HALT_module, BodyFails, Ended

(* A step finds a file for a name, which is not in the cache unless it was
   overtaken, or leaves the names and files of modules alone.                 *)
LEMMA FindsOrStands ==
  ASSUME ImportInv, [Next]_vars
  PROVE  \/ Stands /\ Moves
         \/ /\ top.kind = "resolve" /\ (~Cached(top.name) \/ top.waiting)
            /\ \E parent, file, is_package : Finds(parent, file, is_package)
<1> PICK N : N = Len(modules)
  OBVIOUS
<1>1. N \in Nat /\ DOMAIN modules = 1..N
  BY NamesTyped
<1>2. UNCHANGED heap => Stands
  BY DEF heap, Stands
<1>3. CASE ResolveTopLevel
  <2>1. /\ top.kind = "resolve" /\ ~Cached(top.name) /\ Len(top.name) = 1
        /\ Load(top.name, 0, sys_path)
    BY <1>3 DEF ResolveTopLevel, Requested
  <2> PICK n : n = Len(sys_path)
    OBVIOUS
  <2>2. n \in Nat /\ DOMAIN sys_path = 1..n
    BY PathAssumption
  <2>3. \/ modules' = modules /\ sys_modules' = sys_modules /\ calls' \in {calls, Below}
        \/ \E file, is_package : /\ Begin(top.name, 0, file, is_package)
                                 /\ FileIn(sys_path, Leaf(top.name), file)
    BY <2>1, <2>2, LoadFinds
  <2> QED BY <2>1, <2>3 DEF Stands, Finds, Moves
<1>4. CASE ResolveSubmodule
  <2> PICK p : p = reply[2]
    OBVIOUS
  <2>1. top.kind = "resolve" /\ ~Failed(reply) /\ reply # Unset
    BY <1>4 DEF ResolveSubmodule, Answered
  <2>2. p \in 1..N /\ Waits(top) /\ modules[p].name = Asked(top)
    BY <2>1, ReplyFound
  <2>3. Len(top.name) > 1 /\ Asked(top) = Parent(top.name) /\ top.waiting
    BY <2>1, <2>2 DEF Waits, Asked
  <2>4. Len(top.name) # 1
    <3> PICK k : k = Len(top.name)
      OBVIOUS
    <3>1. k \in Nat /\ k > 1
      BY <2>1, <2>3, RequestTyped
    <3> QED BY <3>1, MoreThanOne
  <2>6. CASE modules[p].file = NoPath
    BY <1>2, <1>4, <2>6 DEF ResolveSubmodule, Return, Moves
  <2>7. CASE modules[p].file # NoPath
    <3> PICK dirs : dirs = <<package_dir_of(p)>>
      OBVIOUS
    <3>1. Load(top.name, p, dirs) /\ DOMAIN dirs = 1..1 /\ 1 \in Nat
      BY <1>4, <2>7 DEF ResolveSubmodule
    <3>2. \/ modules' = modules /\ sys_modules' = sys_modules /\ calls' \in {calls, Below}
          \/ \E file, is_package : /\ Begin(top.name, p, file, is_package)
                                   /\ FileIn(dirs, Leaf(top.name), file)
      BY <3>1, LoadFinds
    <3> QED BY <2>1, <2>2, <2>3, <2>4, <2>7, <3>2 DEF Stands, Finds, Moves
  <2> QED BY <2>6, <2>7
<1>5. ASSUME NEW m \in 0..N, NEW g, SetNamespace(m, g), sys_modules' = sys_modules  PROVE Stands
  <2>1. CASE m = 0
    BY <1>5, <2>1 DEF SetNamespace, Stands
  <2>2. CASE m # 0
    <3>1. modules' = [modules EXCEPT ![m].globals = g]
      BY <1>5, <2>2 DEF SetNamespace
    <3> PICK r : r = [modules[m] EXCEPT !.globals = g]
      OBVIOUS
    <3>2. modules' = [modules EXCEPT ![m] = r] /\ m \in 1..N
      BY <1>1, <2>2, <3>1
    <3>3. modules \in Seq(Records) /\ modules[m] \in Records
      BY <3>2 DEF ImportInv, HeapTyped
    <3>4. r.name = modules[m].name /\ r.file = modules[m].file
      BY <3>3 DEF Records
    <3>5. Len(modules') = N /\ \A i \in 1..N : modules'[i] = IF i = m THEN r ELSE modules[i]
      BY <1>1, <3>2, <3>3
    <3> QED BY <1>5, <3>4, <3>5 DEF Stands
  <2> QED BY <2>1, <2>2
<1>6. ASSUME STORE_GLOBAL \/ IMPORT_STAR  PROVE Stands
  <2>1. top.kind = "body" /\ sys_modules' = sys_modules
    BY <1>6 DEF STORE_GLOBAL, IMPORT_STAR, Fetch
  <2>2. top.module \in 0..N
    BY <2>1, Fetched
  <2>3. (\E g : SetNamespace(top.module, g)) \/ modules' = modules
    BY <1>6 DEF STORE_GLOBAL, IMPORT_STAR
  <2> QED BY <1>5, <2>1, <2>2, <2>3 DEF Stands
<1>7. ASSUME HALT_module  PROVE Stands
  <2>1. sys_modules' = sys_modules
    BY <1>7 DEF HALT_module
  <2> QED BY <1>7, <2>1, HaltedModules DEF Stands
<1>8. ASSUME \/ ResolveCached \/ ResolveParent \/ ResolveFails \/ LOAD_CONST \/ LOAD_ATTR \/ POP_TOP
             \/ RAISE \/ IMPORT_NAME \/ IMPORT_NAME_returns \/ IMPORT_FROM \/ IMPORT_FROM_returns
             \/ HALT_main \/ BodyFails \/ Ended \/ UNCHANGED vars
      PROVE  Stands
  <2>1. UNCHANGED heap
    BY <1>8 DEF ResolveCached, ResolveParent, ResolveFails, LOAD_CONST, LOAD_ATTR, POP_TOP,
       RAISE, IMPORT_NAME, IMPORT_NAME_returns, IMPORT_FROM, IMPORT_FROM_returns, HALT_main,
       BodyFails, Ended, vars
  <2> QED BY <1>2, <2>1
<1>9. CASE ~ResolveTopLevel /\ ~ResolveSubmodule
  BY <1>6, <1>7, <1>8, <1>9, OthersMove DEF Next
<1> QED BY <1>3, <1>4, <1>9

LEMMA FoundsOrStands ==
  ASSUME ImportInv, NotOvertaken, [Next]_vars
  PROVE  \/ Stands /\ Moves
         \/ top.kind = "resolve" /\ \E parent, file, is_package : Founds(parent, file, is_package)
<1>1. top.kind = "resolve" /\ top.waiting => ~Cached(top.name)
  <2>1. Len(calls) \in DOMAIN calls
    BY TopFits
  <2> QED BY <2>1 DEF NotOvertaken, Cached, top
<1> QED BY <1>1, FindsOrStands DEF Founds

(* The calls after a step: those that stay ask the same and run the same code. *)
Alike(d, c) ==
  /\ d.kind = c.kind /\ d.name = c.name
  /\ IF c.kind = "resolve" THEN d.waiting => c.waiting \/ ~Cached(c.name) ELSE d.code = c.code
CallsKept ==
  /\ Len(calls') \in Nat /\ Len(calls') <= Len(calls)
  /\ \A i \in 1..Len(calls') : i \in 1..Len(calls) /\ Alike(calls'[i], calls[i])
AsksParent(name) ==
  /\ top.kind = "resolve" /\ ~Cached(top.name) /\ Len(top.name) > 1 /\ name = Parent(top.name)
CallPushed(name) ==
  /\ Asks(name) \/ AsksParent(name)
  /\ Len(calls') = Len(calls) + 1 /\ calls'[Len(calls) + 1] = Resolve(name)
  /\ \A i \in 1..Len(calls) : Alike(calls'[i], calls[i])

LEMMA CallsSet ==
  ASSUME ImportInv, NEW d
  PROVE  /\ Len(WithTop(d)) = Len(calls) /\ WithTop(d)[Len(calls)] = d
         /\ \A i \in 1..Len(calls) : i # Len(calls) => WithTop(d)[i] = calls[i]
         /\ WithTop(d) \in Seq((Requests \cup Bodies) \cup {d})
<1> PICK n : n = Len(calls)
  OBVIOUS
<1> PICK q : q = WithTop(d)
  OBVIOUS
<1> DEFINE T == (Requests \cup Bodies) \cup {d}
<1>1. calls \in Seq(Requests \cup Bodies) /\ n \in 1..n /\ n \in Nat
  BY TopFits
<1>2. calls \in Seq(T) /\ d \in T
  BY <1>1, SeqGrows
<1> HIDE DEF T
<1>3. q \in Seq(T) /\ Len(q) = n /\ q[n] = d /\ \A i \in 1..n : i # n => q[i] = calls[i]
  BY <1>1, <1>2, SeqSet DEF WithTop
<1>4. q \in Seq((Requests \cup Bodies) \cup {d})
  BY <1>3 DEF T
<1> QED BY <1>3, <1>4

LEMMA CallsGrow ==
  ASSUME ImportInv, NEW d, Alike(d, top), NEW name, calls' = Append(WithTop(d), Resolve(name)),
         Asks(name) \/ AsksParent(name)
  PROVE  CallPushed(name)
<1> PICK n : n = Len(calls)
  OBVIOUS
<1> PICK q : q = WithTop(d)
  OBVIOUS
<1> PICK r : r = Resolve(name)
  OBVIOUS
<1>1. Len(q) = n /\ q[n] = d /\ (\A i \in 1..n : i # n => q[i] = calls[i])
      /\ n \in Nat /\ top = calls[n]
  BY CallsSet, TopFits DEF top
<1> DEFINE T == (Requests \cup Bodies) \cup {d}
           U == T \cup {r}
<1>2. q \in Seq(U) /\ r \in U
  <2>1. q \in Seq(T)
    BY CallsSet
  <2> HIDE DEF T
  <2> QED BY <2>1, SeqGrows
<1> HIDE DEF T, U
<1>3. Len(calls') = n + 1 /\ calls'[n + 1] = r /\ \A i \in 1..n : calls'[i] = q[i]
  BY <1>1, <1>2, SeqPush
<1>4. \A c : Alike(c, c)
  BY DEF Alike
<1>5. \A i \in 1..n : Alike(calls'[i], calls[i])
  BY <1>1, <1>3, <1>4
<1> QED BY <1>3, <1>5 DEF CallPushed

LEMMA CallsMoved ==
  ASSUME ImportInv, Moves
  PROVE  CallsKept \/ \E name : CallPushed(name)
<1> PICK n : n = Len(calls)
  OBVIOUS
<1>1. n \in Nat /\ n > 0 /\ n \in 1..n /\ calls \in Seq(Requests \cup Bodies) /\ top = calls[n]
  BY TopFits DEF top
<1>2. \A c : Alike(c, c)
  BY DEF Alike
<1>3. CASE calls' = calls
  BY <1>1, <1>2, <1>3 DEF CallsKept
<1>4. CASE calls' = Below
  <2>1. 1 \in Nat /\ 1 <= n
    BY <1>1
  <2>2. Len(calls') = n - 1 /\ \A i \in 1..n - 1 : calls'[i] = calls[i]
    BY <1>1, <1>4, <2>1, SeqTrim DEF Below
  <2>3. n - 1 \in Nat /\ n - 1 <= n /\ \A i \in 1..n - 1 : i \in 1..n
    BY <1>1
  <2> QED BY <1>2, <2>2, <2>3 DEF CallsKept
<1>5. ASSUME top.kind = "body", NEW s, Advance(s)  PROVE CallsKept
  <2> PICK c : c = top
    OBVIOUS
  <2> PICK d : d = [c EXCEPT !.ip = @ + 1, !.stack = s]
    OBVIOUS
  <2>1. c \in Bodies /\ c.kind = "body"
    BY <1>5, Fetched
  <2>2. d.kind = c.kind /\ d.name = c.name /\ d.code = c.code
    BY <2>1 DEF Bodies
  <2>3. Alike(d, c)
    BY <2>1, <2>2 DEF Alike
  <2> PICK q : q = WithTop(d)
    OBVIOUS
  <2>4. /\ Len(q) = n /\ q[n] = d /\ \A i \in 1..n : i # n => q[i] = calls[i]
    BY CallsSet
  <2>5. calls' = q
    BY <1>5 DEF Advance
  <2>6. \A i \in 1..n : Alike(q[i], calls[i])
    BY <1>1, <1>2, <2>3, <2>4
  <2>7. n <= n /\ \A i \in 1..n : i \in 1..n
    BY <1>1
  <2> QED BY <1>1, <2>4, <2>5, <2>6, <2>7 DEF CallsKept
<1>6. ASSUME NEW name, Asks(name)  PROVE CallPushed(name)
  <2> PICK c : c = top
    OBVIOUS
  <2> PICK d : d = [c EXCEPT !.asked = name]
    OBVIOUS
  <2>1. c \in Bodies /\ c.kind = "body"
    BY <1>6, Fetched DEF Asks
  <2>2. d.kind = c.kind /\ d.name = c.name /\ d.code = c.code
    BY <2>1 DEF Bodies
  <2>3. Alike(d, c)
    BY <2>1, <2>2 DEF Alike
  <2>4. calls' = Append(WithTop(d), Resolve(name))
    BY <1>6 DEF Asks, Ask
  <2> QED BY <1>6, <2>3, <2>4, CallsGrow
<1>7. CASE ResolveParent
  <2> PICK c : c = top
    OBVIOUS
  <2> PICK d : d = [c EXCEPT !.waiting = TRUE]
    OBVIOUS
  <2> PICK name : name = Parent(c.name)
    OBVIOUS
  <2>1. AsksParent(name) /\ calls' = Append(WithTop(d), Resolve(name))
    BY <1>7 DEF ResolveParent, Requested, AsksParent
  <2>2. c \in Requests /\ c.kind = "resolve" /\ ~Cached(c.name)
    BY <2>1, RequestTyped DEF AsksParent
  <2>3. d.kind = c.kind /\ d.name = c.name
    BY <2>2 DEF Requests
  <2>4. Alike(d, c)
    BY <2>2, <2>3 DEF Alike
  <2> QED BY <2>1, <2>4, CallsGrow
<1> QED BY <1>3, <1>4, <1>5, <1>6, <1>7 DEF Moves

LEMMA CallsFound ==
  ASSUME ImportInv, NEW parent, NEW file, NEW is_package, Begin(top.name, parent, file, is_package)
  PROVE  /\ Len(calls') = Len(calls)
         /\ calls'[Len(calls)] = Body(top.name, Len(modules) + 1, parent, files[file].body)
         /\ \A i \in 1..Len(calls) : i # Len(calls) => calls'[i] = calls[i]
<1> PICK d : d = Body(top.name, Len(modules) + 1, parent, files[file].body)
  OBVIOUS
<1>1. calls' = WithTop(d)
  BY DEF Begin
<1> QED BY <1>1, CallsSet

-------------------------------------------------------------------------------
(* The package a namespace says it is of.  Unless the program has bound
   __package__, it is what the module was given, and the script has none.      *)
PackageIs(v, name) == v = None \/ v = Str(name) \/ (Len(name) > 1 /\ v = Str(Parent(name)))
Given ==
  /\ "__package__" \notin DOMAIN globals
  /\ \A m \in 2..Len(modules) :
       /\ "__package__" \in DOMAIN modules[m].globals
       /\ PackageIs(modules[m].globals["__package__"], modules[m].name)
NotText == Err("NotAString")
PackageInv == (reply = NotText => PackageRebound) /\ (PackageRebound \/ Given)

(* The script stays what it is, and so do the names and bodies of modules. *)
LEMMA ScriptStays ==
  ASSUME ImportInv, ImportInv', [Next]_vars
  PROVE  /\ 1 \in 1..Len(calls) /\ calls'[1].code = calls[1].code
         /\ Len(modules) \in Nat /\ Len(modules') \in Nat /\ Len(modules) <= Len(modules')
         /\ DOMAIN modules = 1..Len(modules) /\ DOMAIN modules' = 1..Len(modules')
         /\ \A m \in 1..Len(modules) : /\ modules'[m].name = modules[m].name
                                       /\ modules'[m].file = modules[m].file
                                       /\ BodyOf(m)' = BodyOf(m)
<1>1. /\ Len(calls) \in Nat /\ Len(calls) > 0 /\ calls[1].kind = "body"
      /\ Len(calls') \in Nat /\ Len(calls') > 0
  BY DEF ImportInv, CallsFit
<1>2. 1 \in 1..Len(calls) /\ 1 \in 1..Len(calls')
  BY <1>1
<1>3. Len(modules) \in Nat /\ DOMAIN modules = 1..Len(modules)
  BY NamesTyped
<1>4. Len(modules') \in Nat /\ DOMAIN modules' = 1..Len(modules')
  BY DEF ImportInv, HeapTyped
<1>5. files' = files
  BY FilesStand
<1>6. CASE Stands /\ Moves
  <2>1. calls'[1].code = calls[1].code
    BY <1>1, <1>2, <1>6, CallsMoved DEF CallsKept, CallPushed, Alike
  <2> QED BY <1>2, <1>3, <1>4, <1>5, <1>6, <2>1 DEF Stands, BodyOf
<1>7. ASSUME top.kind = "resolve", NEW parent, NEW file, NEW is_package, Finds(parent, file, is_package)
      PROVE  /\ calls'[1].code = calls[1].code /\ Len(modules) <= Len(modules')
             /\ \A m \in 1..Len(modules) : modules'[m] = modules[m]
  <2>1. Begin(top.name, parent, file, is_package)
    BY <1>7 DEF Finds
  <2>2. 1 # Len(calls)
    BY <1>1, <1>7 DEF top
  <2>3. calls'[1] = calls[1]
    BY <1>2, <2>1, <2>2, CallsFound
  <2> PICK r : r = NewModule(top.name, file, is_package)
    OBVIOUS
  <2>4. Len(modules') = Len(modules) + 1 /\ \A m \in 1..Len(modules) : modules'[m] = modules[m]
    BY <1>7, <2>1, Begun
  <2> QED BY <1>3, <2>3, <2>4
<1>8. CASE top.kind = "resolve" /\ \E parent, file, is_package : Finds(parent, file, is_package)
  BY <1>2, <1>3, <1>4, <1>5, <1>7, <1>8 DEF BodyOf
<1> QED BY <1>6, <1>8, FindsOrStands

(* What has been bound stays bound. *)
LEMMA ReboundStays ==
  ASSUME ImportInv, ImportInv', [Next]_vars, PackageRebound
  PROVE  PackageRebound'
<1>1. CASE \E i \in 1..Len(calls[1].code) : calls[1].code[i] = <<"STORE_GLOBAL", "__package__">>
  BY <1>1, ScriptStays DEF PackageRebound
<1>2. ASSUME NEW m \in DOMAIN modules \ {1},
             \/ "__package__" \in BoundBy(BodyOf(m))
             \/ Len(modules[m].name) > 1 /\ Leaf(modules[m].name) = "__package__"
      PROVE  PackageRebound'
  <2>1. m \in 1..Len(modules) /\ m \in DOMAIN modules' \ {1}
    BY ScriptStays
  <2>2. BodyOf(m)' = BodyOf(m) /\ modules'[m].name = modules[m].name
    BY <2>1, ScriptStays
  <2>3. \/ "__package__" \in BoundBy(BodyOf(m)')
        \/ Len(modules'[m].name) > 1 /\ Leaf(modules'[m].name) = "__package__"
    BY <1>2, <2>2
  <2> QED BY <2>1, <2>3 DEF PackageRebound, BoundBy, Bound
<1> QED BY <1>1, <1>2 DEF PackageRebound

(* A namespace that is set to one that says the same of its package. *)
SaysSame(h, g) ==
  /\ "__package__" \in DOMAIN h <=> "__package__" \in DOMAIN g
  /\ "__package__" \in DOMAIN g => h["__package__"] = g["__package__"]
PackagesStay ==
  /\ SaysSame(globals', globals)
  /\ \A m \in 1..Len(modules) : SaysSame(modules'[m].globals, modules[m].globals)

LEMMA StillSays ==
  ASSUME globals' = globals, modules' = modules
  PROVE  PackagesStay
BY DEF PackagesStay, SaysSame

LEMMA SetSays ==
  ASSUME ImportInv, NEW m \in 0..Len(modules), NEW g, SetNamespace(m, g), SaysSame(g, Namespace(m))
  PROVE  PackagesStay
<1>1. \A h : SaysSame(h, h)
  BY DEF SaysSame
<1>2. CASE m = 0
  BY <1>1, <1>2 DEF SetNamespace, Namespace, PackagesStay
<1>3. CASE m # 0
  <2> PICK N : N = Len(modules)
    OBVIOUS
  <2>1. N \in Nat /\ DOMAIN modules = 1..N /\ modules \in Seq(Records) /\ m \in 1..N
    BY <1>3, TopFits DEF HeapTyped
  <2>2. modules[m] \in Records
    BY <2>1
  <2> PICK r : r = [modules[m] EXCEPT !.globals = g]
    OBVIOUS
  <2>3. r.globals = g
    BY <2>2 DEF Records
  <2>4. modules' = [modules EXCEPT ![m] = r] /\ globals' = globals
    BY <1>3 DEF SetNamespace
  <2>5. \A i \in 1..N : modules'[i] = IF i = m THEN r ELSE modules[i]
    BY <2>1, <2>4
  <2> QED BY <1>1, <1>3, <2>3, <2>4, <2>5 DEF Namespace, PackagesStay
<1> QED BY <1>2, <1>3

(* A name that is inserted says nothing else of the package unless it is
   __package__. *)
LEMMA InsertSays ==
  ASSUME NEW g, NEW k, NEW v, k # "__package__"
  PROVE  SaysSame(Insert(g, k, v), g)
BY DEF SaysSame, Insert

(* Where __package__ is not bound, no step changes it. *)
LEMMA NobodyStores ==
  ASSUME ImportInv, top.kind = "body", Instr[1] = "STORE_GLOBAL", ~PackageRebound
  PROVE  Arg # "__package__"
<1>1. top.ip \in 1..Len(top.code) /\ Instr = top.code[top.ip] /\ Instr = <<"STORE_GLOBAL", Arg>>
  BY Fetched DEF Instr, Arg, Instructions
<1>2. CASE top.module = 0
  <2>1. top = calls[1]
    <3> PICK n : n = Len(calls)
      OBVIOUS
    <3>1. n \in Nat /\ n > 0 /\ CallsFit
      BY TopFits
    <3>2. \A i \in 2..n : calls[i].kind = "body" => calls[i].module # 0
      BY <3>1 DEF CallsFit
    <3>3. n \notin 2..n
      BY <1>2, <3>2 DEF top
    <3>4. n = 1
      BY <3>1, <3>3
    <3> QED BY <3>4 DEF top
  <2> QED BY <1>1, <2>1 DEF PackageRebound
<1>3. CASE top.module # 0
  <2>1. Arg \in BoundBy(BodyOf(top.module))
    BY <1>3, StoresBound
  <2>2. top.module \in DOMAIN modules \ {1}
    <3>1. CallFits(top) /\ DOMAIN modules = 1..Len(modules)
      BY TopFits
    <3>2. top.module # 1
      BY <1>3, <3>1 DEF CallFits, BodyFits, OfModule
    <3>3. top.module \in 1..Len(modules)
      BY <1>3, Fetched
    <3> QED BY <3>1, <3>2, <3>3
  <2> QED BY <2>1, <2>2 DEF PackageRebound
<1> QED BY <1>2, <1>3

LEMMA StoreSays ==
  ASSUME ImportInv, STORE_GLOBAL, ~PackageRebound
  PROVE  PackagesStay
<1> PICK m : m = top.module
  OBVIOUS
<1> PICK g : g = Insert(Namespace(m), Arg, Operand(0))
  OBVIOUS
<1>1. SetNamespace(m, g) /\ top.kind = "body" /\ Instr[1] = "STORE_GLOBAL"
  BY DEF STORE_GLOBAL, Fetch
<1>2. m \in 0..Len(modules)
  BY <1>1, Fetched
<1>3. SaysSame(g, Namespace(m))
  BY <1>1, NobodyStores, InsertSays
<1> QED BY <1>1, <1>2, <1>3, SetSays

LEMMA StarSays ==
  ASSUME ImportInv, IMPORT_STAR
  PROVE  PackagesStay
<1> PICK m : m = top.module
  OBVIOUS
<1> PICK from : from = modules[Operand(0)[2]].globals
  OBVIOUS
<1> PICK into : into = Namespace(m)
  OBVIOUS
<1> PICK public : public = DOMAIN from \ Private
  OBVIOUS
<1> PICK g : g = [x \in DOMAIN into \cup public |-> IF x \in public THEN from[x] ELSE into[x]]
  OBVIOUS
<1>1. top.kind = "body" /\ m \in 0..Len(modules)
  BY Fetched DEF IMPORT_STAR, Fetch
<1>2. CASE ~IsModule(Operand(0))
  BY <1>2, StillSays DEF IMPORT_STAR
<1>3. CASE IsModule(Operand(0))
  <2>1. SetNamespace(m, g)
    BY <1>3 DEF IMPORT_STAR
  <2>2. "__package__" \notin public
    BY PrivateAssumption DEF ModuleNames
  <2>3. SaysSame(g, into)
    BY <2>2 DEF SaysSame
  <2> QED BY <1>1, <2>1, <2>3, SetSays
<1> QED BY <1>2, <1>3

LEMMA HaltSays ==
  ASSUME ImportInv, HALT_module, ~PackageRebound
  PROVE  PackagesStay
<1> PICK c : c = top
  OBVIOUS
<1> PICK leaf : leaf = Leaf(c.name)
  OBVIOUS
<1>1. c.kind = "body" /\ c.module # 0 /\ globals' = globals
  BY DEF HALT_module, Fetch
<1>2. /\ DOMAIN modules = 1..Len(modules) /\ c.module \in 1..Len(modules) /\ c.module # 1
      /\ modules[c.module].name = c.name /\ Child(c.name, c.parent)
  BY <1>1, TopFits, Fetched DEF CallFits, BodyFits, OfModule
<1>3. c.parent # 0 => Len(c.name) > 1
  <2> PICK k : k = Len(c.name)
    OBVIOUS
  <2>1. c.name \in Seq(Identifiers) /\ c.name # << >>
    BY <1>1, TopFits, Fetched DEF CallFits, BodyFits, OfModule, Bodies
  <2>2. k \in Nat /\ k > 0
    BY <2>1
  <2>3. c.parent # 0 => k # 1
    BY <1>2 DEF Child
  <2> QED BY <2>2, <2>3, MoreThanOne
<1>4. c.parent # 0 => leaf # "__package__"
  BY <1>2, <1>3 DEF PackageRebound
<1>5. ASSUME NEW m \in 1..Len(modules)  PROVE SaysSame(modules'[m].globals, modules[m].globals)
  <2> PICK g : g = modules[m].globals
    OBVIOUS
  <2>1. modules'[m].globals = IF c.parent = m THEN Insert(g, leaf, Module(c.module)) ELSE g
    BY HaltedModules
  <2>2. CASE c.parent = m
    <3>1. c.parent # 0
      BY <1>2, <2>2, TopFits
    <3> QED BY <1>4, <2>1, <2>2, <3>1, InsertSays
  <2>3. CASE c.parent # m
    BY <2>1, <2>3 DEF SaysSame
  <2> QED BY <2>2, <2>3
<1>6. SaysSame(globals', globals)
  BY <1>1 DEF SaysSame
<1> QED BY <1>5, <1>6 DEF PackagesStay

LEMMA StepSays ==
  ASSUME ImportInv, [Next]_vars, ~PackageRebound
  PROVE  PackagesStay
<1>1. ASSUME NEW name, NEW parent, NEW dirs, Load(name, parent, dirs), name = top.name, top.kind = "resolve"
      PROVE  PackagesStay
  <2>1. CASE globals' = globals /\ modules' = modules
    BY <2>1, StillSays
  <2>2. ASSUME NEW file, NEW is_package, Begin(name, parent, file, is_package)  PROVE PackagesStay
    <3> PICK r : r = NewModule(name, file, is_package)
      OBVIOUS
    <3>1. \A m \in 1..Len(modules) : modules'[m] = modules[m]
      BY <1>1, <2>2, Begun
    <3>2. globals' = globals
      BY <2>2 DEF Begin
    <3> QED BY <3>1, <3>2 DEF PackagesStay, SaysSame
  <2>3. \/ globals' = globals /\ modules' = modules
        \/ \E file, is_package : Begin(name, parent, file, is_package)
    BY <1>1 DEF Load, heap
  <2> QED BY <2>1, <2>2, <2>3
<1>2. CASE ResolveTopLevel
  BY <1>1, <1>2 DEF ResolveTopLevel, Requested
<1>3. CASE ResolveSubmodule
  <2>1. CASE UNCHANGED heap
    BY <2>1, StillSays DEF heap
  <2>2. top.kind = "resolve"
    BY <1>3 DEF ResolveSubmodule, Answered
  <2>3. \/ UNCHANGED heap
        \/ \E parent, dirs : Load(top.name, parent, dirs)
    BY <1>3 DEF ResolveSubmodule
  <2> QED BY <1>1, <2>1, <2>2, <2>3
<1>4. CASE \/ ResolveCached \/ ResolveParent \/ ResolveFails \/ LOAD_CONST \/ LOAD_ATTR \/ POP_TOP
           \/ RAISE \/ IMPORT_NAME \/ IMPORT_NAME_returns \/ IMPORT_FROM \/ IMPORT_FROM_returns
           \/ HALT_main \/ BodyFails \/ Ended \/ UNCHANGED vars
  <2>1. UNCHANGED heap
    BY <1>4 DEF ResolveCached, ResolveParent, ResolveFails, LOAD_CONST, LOAD_ATTR, POP_TOP,
       RAISE, IMPORT_NAME, IMPORT_NAME_returns, IMPORT_FROM, IMPORT_FROM_returns, HALT_main,
       BodyFails, Ended, vars
  <2> QED BY <2>1, StillSays DEF heap
<1> QED BY <1>2, <1>3, <1>4, StoreSays, StarSays, HaltSays DEF Next

(* What a module is given. *)
LEMMA PackageGiven ==
  ASSUME NEW name, NEW is_package
  PROVE  PackageIs(PackageOf(name, is_package), name)
BY DEF PackageIs, PackageOf

(* Every module that begins is given its package, and nobody changes it. *)
LEMMA GivenStays ==
  ASSUME ImportInv, ImportInv', [Next]_vars, ~PackageRebound, Given
  PROVE  Given'
<1>1. PackagesStay
  BY StepSays
<1>2. "__package__" \notin DOMAIN globals'
  BY <1>1 DEF PackagesStay, SaysSame, Given
<1>3. Len(modules) \in Nat
  BY ScriptStays
<1>4. ASSUME NEW m \in 2..Len(modules)
      PROVE  /\ "__package__" \in DOMAIN modules'[m].globals
             /\ PackageIs(modules'[m].globals["__package__"], modules'[m].name)
  <2>1. m \in 1..Len(modules)
    BY <1>3
  <2>2. modules'[m].name = modules[m].name /\ SaysSame(modules'[m].globals, modules[m].globals)
    BY <1>1, <2>1, ScriptStays DEF PackagesStay
  <2> QED BY <2>2 DEF Given, SaysSame
<1>5. CASE Stands
  <2>1. Len(modules') = Len(modules)
    BY <1>5 DEF Stands
  <2> QED BY <1>2, <1>4, <2>1 DEF Given
<1>6. ASSUME top.kind = "resolve", NEW parent, NEW file, NEW is_package, Finds(parent, file, is_package)
      PROVE  Given'
  <2> PICK N : N = Len(modules)
    OBVIOUS
  <2> PICK name : name = top.name
    OBVIOUS
  <2> PICK r : r = NewModule(name, file, is_package)
    OBVIOUS
  <2>1. name \in Seq(Identifiers) /\ name # << >>
    BY <1>6, RequestTyped
  <2>2. Len(modules') = N + 1 /\ modules'[N + 1] = r
    <3>1. top.kind = "resolve"
      BY <1>6
    <3>2. Begin(top.name, parent, file, is_package)
      BY <1>6 DEF Finds
    <3> QED BY <3>1, <3>2, Begun
  <2>3. r.globals = NewGlobals(name, is_package) /\ r.name = name
    BY DEF NewModule
  <2>4. /\ "__package__" \in DOMAIN r.globals
        /\ r.globals["__package__"] = PackageOf(name, is_package)
    <3>1. /\ DOMAIN NewGlobals(name, is_package) = ModuleNames
          /\ NewGlobals(name, is_package)["__package__"] = PackageOf(name, is_package)
      BY <2>1, NewGlobalsTyped
    <3> QED BY <2>3, <3>1 DEF ModuleNames
  <2>5. PackageIs(r.globals["__package__"], r.name)
    BY <2>3, <2>4, PackageGiven
  <2>6. \A m \in 2..N + 1 : m \in 2..N \/ m = N + 1
    BY <1>3
  <2> QED BY <1>2, <1>4, <2>2, <2>4, <2>5, <2>6 DEF Given
<1> QED BY <1>5, <1>6, FindsOrStands

(* Where a namespace says what it was given, a relative import reads a string or
   nothing. *)
LEMMA ReadsText ==
  ASSUME ImportInv, top.kind = "body", Given, NEW level
  PROVE  RelativeError(top.module, level) # "NotAString"
<1> PICK m : m = top.module
  OBVIOUS
<1> PICK v : v = Package(m)
  OBVIOUS
<1>1. v = None \/ v[1] = "str"
  <2>1. CASE m = 0
    BY <2>1 DEF Package, Namespace, Given
  <2>2. CASE m # 0
    <3>1. m \in 1..Len(modules) /\ Len(modules) \in Nat /\ m # 1
      BY <2>2, TopFits, Fetched DEF CallFits, BodyFits, OfModule
    <3>2. m \in 2..Len(modules)
      BY <3>1
    <3>3. v = modules[m].globals["__package__"]
      BY <2>2, <3>2 DEF Package, Namespace, Given
    <3>4. PackageIs(v, modules[m].name)
      BY <3>2, <3>3 DEF Given
    <3> QED BY <3>4 DEF PackageIs, Str
  <2> QED BY <2>1, <2>2
<1> QED BY <1>1 DEF RelativeError

(* The Err is made by a relative import, and handed down from there. *)
LEMMA NotTextFrom ==
  ASSUME ImportInv, [Next]_vars, reply' = NotText
  PROVE  \/ reply = NotText
         \/ top.kind = "body" /\ RelativeError(top.module, Level) = "NotAString"
<1>1. \A e : Err(e) = NotText => e = "NotAString"
  BY DEF Err, NotText
<1>2. Unset # NotText /\ \A m : Module(m) # NotText
  BY DEF Unset, Err, Module, NotText
<1>3. ASSUME NEW name, NEW parent, NEW dirs, NEW n \in Nat, DOMAIN dirs = 1..n, Load(name, parent, dirs)
      PROVE  reply = NotText
  <2> PICK package : package = find_package_in(dirs, Leaf(name))
    OBVIOUS
  <2> PICK source : source = find_source_file_in(dirs, Leaf(name))
    OBVIOUS
  <2> PICK file : file = IF package # NoPath THEN package ELSE source
    OBVIOUS
  <2>1. file # NoPath => file \in DOMAIN files
    <3>1. package # NoPath => package \in DOMAIN files
      <4> PICK cands : cands = [i \in DOMAIN dirs |-> Append(Join(dirs[i], Leaf(name)), "__init__")]
        OBVIOUS
      <4>1. DOMAIN cands = 1..n /\ package = FirstFile(cands)
        BY <1>3 DEF find_package_in
      <4> QED BY <4>1, FirstFileFinds
    <3>2. source # NoPath => source \in DOMAIN files
      <4> PICK cands : cands = [i \in DOMAIN dirs |-> dirs[i] \o <<Leaf(name)>>]
        OBVIOUS
      <4>1. DOMAIN cands = 1..n /\ source = FirstFile(cands)
        BY <1>3 DEF find_source_file_in
      <4> QED BY <4>1, FirstFileFinds
    <3> QED BY <3>1, <3>2
  <2>2. file # NoPath => files[file].kind \in {"compiles", "SyntaxError", "CompileError"}
    BY <2>1 DEF ImportInv, TypeOK, FilesTyped
  <2>3. \/ reply' = Err("ModuleNotFound")
        \/ file # NoPath /\ reply' = Err(files[file].kind)
        \/ reply' = reply \/ reply' = Unset
    BY <1>3 DEF Load, Return, Begin
  <2> QED BY <1>1, <1>2, <2>2, <2>3
<1>4. CASE ResolveTopLevel
  <2>1. Load(top.name, 0, sys_path)
    BY <1>4 DEF ResolveTopLevel
  <2> PICK n : n = Len(sys_path)
    OBVIOUS
  <2>2. n \in Nat /\ DOMAIN sys_path = 1..n
    BY PathAssumption
  <2> QED BY <1>3, <2>1, <2>2
<1>5. CASE ResolveSubmodule
  <2> PICK dirs : dirs = <<package_dir_of(reply[2])>>
    OBVIOUS
  <2>1. DOMAIN dirs = 1..1 /\ 1 \in Nat
    OBVIOUS
  <2>2. reply' = Err("NotAPackage") \/ Load(top.name, reply[2], dirs)
    BY <1>5 DEF ResolveSubmodule, Return
  <2> QED BY <1>1, <1>3, <2>1, <2>2
<1>6. CASE IMPORT_NAME
  BY <1>1, <1>6 DEF IMPORT_NAME, Fetch, Fail, Ask
<1>7. CASE LOAD_CONST \/ STORE_GLOBAL \/ LOAD_ATTR \/ POP_TOP \/ RAISE
  BY <1>1, <1>2, <1>7 DEF LOAD_CONST, STORE_GLOBAL, LOAD_ATTR, POP_TOP, RAISE, Advance, Fail
<1>8. CASE IMPORT_FROM \/ IMPORT_STAR \/ IMPORT_NAME_returns \/ IMPORT_FROM_returns
  BY <1>1, <1>2, <1>8 DEF IMPORT_FROM, IMPORT_STAR, IMPORT_NAME_returns, IMPORT_FROM_returns,
     Advance, Fail, Ask
<1>9. CASE \/ ResolveCached \/ ResolveParent \/ ResolveFails \/ HALT_main \/ HALT_module
           \/ BodyFails \/ Ended \/ UNCHANGED vars
  BY <1>1, <1>2, <1>9 DEF ResolveCached, ResolveParent, ResolveFails, HALT_main, HALT_module,
     BodyFails, Ended, vars, Return
<1> QED BY <1>4, <1>5, <1>6, <1>7, <1>8, <1>9 DEF Next

LEMMA PackageStep ==
  ASSUME ImportInv, ImportInv', [Next]_vars, PackageInv
  PROVE  PackageInv'
<1>1. CASE PackageRebound
  BY <1>1, ReboundStays DEF PackageInv
<1>2. CASE ~PackageRebound
  <2>1. Given /\ reply # NotText
    BY <1>2 DEF PackageInv
  <2>2. Given'
    BY <1>2, <2>1, GivenStays
  <2>3. reply' # NotText
    BY <2>1, NotTextFrom, ReadsText
  <2>4. NotText' = NotText
    BY DEF NotText, Err
  <2> QED BY <2>2, <2>3, <2>4 DEF PackageInv
<1> QED BY <1>1, <1>2

LEMMA PackageAlways == ImportSpec => []PackageInv
<1>1. Start => PackageInv
  <2> SUFFICES ASSUME Start  PROVE PackageInv
    OBVIOUS
  <2>1. globals = EmptyMap /\ modules = <<Sys>> /\ reply = Unset
    BY DEF Start, InitWith
  <2>2. DOMAIN globals = {} /\ 2..Len(modules) = {} /\ reply # NotText
    BY <2>1 DEF EmptyMap, Unset, NotText, Err
  <2> QED BY <2>2 DEF PackageInv, Given
<1>2. ImportInv /\ ImportInv' /\ PackageInv /\ [Next]_vars => PackageInv'
  BY PackageStep
<1> QED BY <1>1, <1>2, ImportInvAlways, PTL DEF ImportSpec

(* Of the errors that import_name, import_from and import_star_into_globals call
   internal only one ever happens, whatever is imported: that the __package__ a
   relative import reads is not a string, and it does not unless the script, a
   body that was begun or a submodule of that name binds __package__.          *)
THEOREM NeverInternal == ImportSpec => []NoInternalError
<1>1. ImportInv /\ PackageInv => NoInternalError
  BY DEF ImportInv, ReplyFits, NoInternalError, PackageInv, NotText
<1> QED BY <1>1, ImportInvAlways, PackageAlways, PTL

-------------------------------------------------------------------------------
(* One module of each file.  The file of a module spells its name behind a
   directory of sys.path, unless the name goes through a module that is no
   package or out of the top-level package.                                  *)
Spelled(m) ==
  \E d \in Range(sys_path) :
    modules[m].file \in {d \o modules[m].name, Append(d \o modules[m].name, "__init__")}
PlacedInv ==
  /\ modules[1].name = <<"sys">> /\ modules[1].file = NoPath
  /\ \A m \in 2..Len(modules) : Ordinary(modules[m].name)
  /\ \A m \in 2..Len(modules) : Strays(modules[m].name) \/ Spelled(m)

(* What is asked for has an ordinary name. *)
OrdinaryAsked == \A i \in DOMAIN calls : calls[i].kind = "resolve" => Ordinary(calls[i].name)

(* Names joined, taken apart and told apart. *)
LEMMA LastOf ==
  ASSUME NEW S, NEW s \in Seq(S), NEW x \in S
  PROVE  Leaf(Append(s, x)) = x /\ Parent(Append(s, x)) = s
<1>1. Append(s, x) \in Seq(S) /\ Len(Append(s, x)) = Len(s) + 1 /\ Append(s, x)[Len(s) + 1] = x
      /\ Len(s) \in Nat
  OBVIOUS
<1>2. SubSeq(Append(s, x), 1, Len(s)) = s
  OBVIOUS
<1>3. Len(s) + 1 - 1 = Len(s)
  BY <1>1
<1> QED BY <1>1, <1>2, <1>3 DEF Leaf, Parent

LEMMA JoinedLeaf ==
  ASSUME NEW S, NEW d \in Seq(S), NEW x \in Seq(S), x # << >>
  PROVE  Leaf(d \o x) = Leaf(x) /\ Leaf(x) = x[Len(x)] /\ Len(x) \in 1..Len(x)
<1>1. Len(x) \in Nat /\ Len(x) > 0 /\ Len(d) \in Nat /\ Len(d \o x) = Len(d) + Len(x)
  OBVIOUS
<1>2. (d \o x)[Len(d) + Len(x)] = x[Len(x)]
  BY <1>1
<1> QED BY <1>1, <1>2 DEF Leaf

LEMMA JoinAppend ==
  ASSUME NEW S, NEW d \in Seq(S), NEW p \in Seq(S), NEW l \in S
  PROVE  d \o Append(p, l) = Append(d \o p, l)
<1> PICK k : k = Len(d)
  OBVIOUS
<1> PICK n : n = Len(p)
  OBVIOUS
<1> PICK q : q = Append(p, l)
  OBVIOUS
<1> PICK s : s = d \o p
  OBVIOUS
<1>1. k \in Nat /\ n \in Nat
  OBVIOUS
<1>2. q \in Seq(S) /\ Len(q) = n + 1 /\ q[n + 1] = l /\ \A i \in 1..n : q[i] = p[i]
  OBVIOUS
<1>3. s \in Seq(S) /\ Len(s) = k + n
  OBVIOUS
<1>4. \A i \in 1..k + n : s[i] = IF i <= k THEN d[i] ELSE p[i - k]
  BY <1>1
<1> PICK t : t = Append(s, l)
  OBVIOUS
<1>5. t \in Seq(S) /\ Len(t) = k + n + 1 /\ t[k + n + 1] = l /\ \A i \in 1..k + n : t[i] = s[i]
  BY <1>3, SeqPush
<1>6. d \o q \in Seq(S) /\ Len(d \o q) = k + n + 1
  BY <1>1, <1>2
<1>7. \A i \in 1..k + n + 1 : (d \o q)[i] = IF i <= k THEN d[i] ELSE q[i - k]
  BY <1>1, <1>2
<1>8. ASSUME NEW i \in 1..k + n + 1  PROVE (d \o q)[i] = t[i]
  <2>1. CASE i <= k
    BY <1>1, <1>4, <1>5, <1>7, <2>1
  <2>2. CASE i > k /\ i < k + n + 1
    <3>1. i - k \in 1..n /\ i \in 1..k + n
      BY <1>1, <2>2
    <3> QED BY <1>1, <1>2, <1>4, <1>5, <1>7, <2>2, <3>1
  <2>3. CASE i = k + n + 1
    <3>1. i - k = n + 1 /\ ~(i <= k)
      BY <1>1, <2>3
    <3> QED BY <1>2, <1>5, <1>7, <2>3, <3>1
  <2> QED BY <1>1, <2>1, <2>2, <2>3
<1> PICK u : u = d \o q
  OBVIOUS
<1>9. t = [i \in 1..k + n + 1 |-> t[i]] /\ u = [i \in 1..k + n + 1 |-> u[i]]
  <2> PICK m : m = k + n + 1
    OBVIOUS
  <2>1. m \in Nat /\ t \in Seq(S) /\ Len(t) = m /\ u \in Seq(S) /\ Len(u) = m
    BY <1>1, <1>5, <1>6
  <2> QED BY <2>1, SeqFunction
<1>10. t = u
  BY <1>8, <1>9
<1> QED BY <1>10

LEMMA JoinedAgain ==
  ASSUME NEW S, NEW d \in Seq(S), NEW x \in Seq(S), x # << >>
  PROVE  /\ (d \o Parent(x)) \o <<Leaf(x)>> = d \o x
         /\ Append(Append(d \o Parent(x), Leaf(x)), "__init__") = Append(d \o x, "__init__")
<1> PICK n : n = Len(x)
  OBVIOUS
<1> PICK p : p = Parent(x)
  OBVIOUS
<1> PICK l : l = Leaf(x)
  OBVIOUS
<1>1. n \in Nat /\ n > 0 /\ 1 \in Nat /\ 1 <= n
  OBVIOUS
<1>2. p = SubSeq(x, 1, n - 1) /\ l = x[n]
  BY DEF Parent, Leaf
<1>3. p \in Seq(S) /\ Len(p) = n - 1 /\ l \in S /\ \A i \in 1..n - 1 : p[i] = x[i]
  BY <1>1, <1>2, SeqTrim
<1>4. x = Append(p, l)
  <2>1. Append(p, l) \in Seq(S) /\ Len(Append(p, l)) = n
    BY <1>1, <1>3
  <2>2. \A i \in 1..n : Append(p, l)[i] = x[i]
    BY <1>1, <1>2, <1>3
  <2> QED BY <2>1, <2>2
<1>5. (d \o p) \o <<l>> = d \o Append(p, l) /\ Append(d \o p, l) = d \o Append(p, l)
  <2>1. (d \o p) \o <<l>> = Append(d \o p, l)
    BY <1>3
  <2>2. d \o Append(p, l) = Append(d \o p, l)
    BY <1>3, JoinAppend
  <2> QED BY <2>1, <2>2
<1> QED BY <1>4, <1>5

(* Modules stay where they were found, and a name that goes through a module that
   is no package goes through it for ever.                                      *)
LEMMA StandsPlaced ==
  ASSUME ImportInv, PlacedInv, Stands
  PROVE  PlacedInv'
<1> PICK N : N = Len(modules)
  OBVIOUS
<1>1. /\ N \in Nat /\ N > 0 /\ DOMAIN modules = 1..N /\ Len(modules') = N /\ 1 \in 1..N
      /\ \A m \in 2..N : m \in 1..N
  BY NamesTyped DEF ImportInv, CacheClosed, Stands
<1>2. \A m \in 1..N : modules'[m].name = modules[m].name /\ modules'[m].file = modules[m].file
  BY DEF Stands
<1>3. sys_modules' = sys_modules /\ \A n \in DOMAIN sys_modules : sys_modules[n] \in 1..N
  BY <1>1 DEF Stands, ImportInv, TypeOK
<1>4. \A n \in DOMAIN sys_modules : IsPackage(sys_modules[n])' <=> IsPackage(sys_modules[n])
  BY <1>2, <1>3 DEF IsPackage, Leaf
<1>5. ASSUME NEW x  PROVE Strays(x)' <=> Strays(x)
  BY <1>3, <1>4 DEF Strays, AboveTop, ThroughAFile
<1>6. ASSUME NEW m \in 2..N  PROVE Strays(modules[m].name)' <=> Strays(modules[m].name)
  <2> PICK x : x = modules[m].name
    OBVIOUS
  <2>1. modules'[m].name = x
    BY <1>1, <1>2
  <2> QED BY <1>5, <2>1
<1>7. \A m \in 2..N : Spelled(m)' <=> Spelled(m)
  BY <1>1, <1>2 DEF Spelled
<1> QED BY <1>1, <1>2, <1>6, <1>7 DEF PlacedInv, Ordinary

LEMMA ParentOf ==
  ASSUME NEW S, NEW x \in Seq(S), Len(x) > 1
  PROVE  /\ Parent(x) \in Seq(S) /\ Parent(x) # << >> /\ Len(Parent(x)) = Len(x) - 1
         /\ \A i \in 1..Len(x) - 1 : Parent(x)[i] = x[i]
         /\ \A j \in 1..Len(x) - 1 : SubSeq(Parent(x), 1, j) = SubSeq(x, 1, j)
<1> PICK n : n = Len(x)
  OBVIOUS
<1> PICK p : p = Parent(x)
  OBVIOUS
<1>1. n \in Nat /\ n > 1 /\ 1 \in Nat /\ 1 <= n /\ p = SubSeq(x, 1, n - 1)
  BY DEF Parent
<1>2. p \in Seq(S) /\ Len(p) = n - 1 /\ \A i \in 1..n - 1 : p[i] = x[i]
  BY <1>1, SeqTrim
<1>3. p # << >>
  <2>1. Len(p) > 0
    <3>1. Len(p) = n - 1 /\ n \in Nat /\ n > 1
      BY <1>1, <1>2
    <3> QED BY <3>1
  <2> QED BY <2>1
<1>4. ASSUME NEW j \in 1..n - 1  PROVE SubSeq(p, 1, j) = SubSeq(x, 1, j)
  <2> PICK u : u = SubSeq(p, 1, j)
    OBVIOUS
  <2> PICK v : v = SubSeq(x, 1, j)
    OBVIOUS
  <2>1. u \in Seq(S) /\ Len(u) = j /\ \A i \in 1..j : u[i] = p[i]
    BY <1>1, <1>2
  <2>2. v \in Seq(S) /\ Len(v) = j /\ \A i \in 1..j : v[i] = x[i]
    <3>1. j <= n /\ j \in Nat
      BY <1>1
    <3> QED BY <1>1, <3>1
  <2>3. u = [i \in 1..j |-> u[i]] /\ v = [i \in 1..j |-> v[i]] /\ j \in Nat
    BY <2>1, <2>2, SeqFunction
  <2>4. \A i \in 1..j : u[i] = v[i]
    BY <1>1, <1>2, <2>1, <2>2
  <2> QED BY <2>3, <2>4
<1> QED BY <1>1, <1>2, <1>3, <1>4

(* The package of a submodule whose name goes through packages only spells its
   own name, and so does the directory it is the file of.                      *)
LEMMA PackageSpelled ==
  ASSUME ImportInv, PlacedInv, NEW k \in 2..Len(modules), IsPackage(k),
         ~Strays(modules[k].name)
  PROVE  \E d \in Range(sys_path) : package_dir_of(k) = d \o modules[k].name
<1> PICK N : N = Len(modules)
  OBVIOUS
<1> PICK x : x = modules[k].name
  OBVIOUS
<1> PICK f : f = modules[k].file
  OBVIOUS
<1> DEFINE T == Identifiers \cup {"__init__"}
<1>1. k \in 1..N /\ N \in Nat
  BY NamesTyped
<1>2. x \in Seq(T)
  <2>1. x \in Seq(Identifiers) /\ Identifiers \subseteq T
    BY <1>1, NamesTyped
  <2> HIDE DEF T
  <2> QED BY <2>1, SeqGrows
<1>3. x # << >>
  <2>1. x \in DOMAIN sys_modules
    BY <1>1 DEF ImportInv, CacheClosed
  <2> QED BY <2>1 DEF ImportInv, HeapTyped
<1>4. Ordinary(x) /\ Leaf(f) = "__init__"
  BY DEF PlacedInv, IsPackage
<1>5. PICK d \in Range(sys_path) : f \in {d \o x, Append(d \o x, "__init__")}
  BY DEF PlacedInv, Spelled
<1>6. d \in Seq(T)
  <2>1. d \in Seq(STRING) /\ STRING \subseteq T
    BY PathAssumption DEF Range, Identifiers
  <2> HIDE DEF T
  <2> QED BY <2>1, SeqGrows
<1>7. "__init__" \in T
  OBVIOUS
<1> HIDE DEF T
<1>8. f # d \o x
  <2>1. Leaf(d \o x) = x[Len(x)] /\ Len(x) \in 1..Len(x)
    BY <1>2, <1>3, <1>6, JoinedLeaf
  <2> QED BY <1>4, <2>1 DEF Ordinary, Reserved
<1> PICK s : s = d \o x
  OBVIOUS
<1>9. s \in Seq(T)
  BY <1>2, <1>6
<1>10. Parent(f) = s
  <2>1. f = Append(s, "__init__")
    BY <1>5, <1>8
  <2> QED BY <1>7, <1>9, <2>1, LastOf
<1> QED BY <1>10 DEF package_dir_of

LEMMA FoundPlaced ==
  ASSUME ImportInv, NameLoadedOnce, PlacedInv, OrdinaryAsked, top.kind = "resolve",
         NEW parent, NEW file, NEW is_package, Founds(parent, file, is_package)
  PROVE  PlacedInv'
<1> PICK N : N = Len(modules)
  OBVIOUS
<1> PICK name : name = top.name
  OBVIOUS
<1> PICK r : r = NewModule(name, file, is_package)
  OBVIOUS
<1>1. Begin(top.name, parent, file, is_package) /\ name \notin DOMAIN sys_modules
  BY DEF Founds, Finds, Cached
<1>2. sys_modules' = Insert(sys_modules, name, N + 1)
  BY <1>1, Begun
<1>3. /\ N \in Nat /\ Len(modules') = N + 1 /\ modules'[N + 1] = r
      /\ \A m \in 1..N : modules'[m] = modules[m]
  <2>1. N \in Nat
    BY <1>1, Begun
  <2>2. Len(modules') = N + 1
    BY <1>1, Begun
  <2>3. modules'[N + 1] = r
    BY <1>1, Begun
  <2>4. \A m \in 1..N : modules'[m] = modules[m]
    BY <1>1, Begun
  <2> QED BY <2>1, <2>2, <2>3, <2>4
<1>4. r.name = name /\ r.file = file
  BY DEF NewModule
<1>5. name \in Seq(Identifiers) /\ name # << >> /\ Len(name) \in Nat /\ Len(name) > 0
  BY RequestTyped
<1>6. Ordinary(name)
  <2>1. Len(calls) \in DOMAIN calls
    BY TopFits
  <2> QED BY <2>1 DEF OrdinaryAsked, top
<1>7. /\ N > 0 /\ 1 \in 1..N /\ DOMAIN modules = 1..N
      /\ \A m \in 2..N : m \in 1..N
      /\ \A m \in 2..N + 1 : m \in 2..N \/ m = N + 1
  BY <1>3, NamesTyped DEF ImportInv, CacheClosed
<1>8. ASSUME NEW n \in DOMAIN sys_modules
      PROVE  /\ sys_modules[n] \in 1..N /\ n \in DOMAIN sys_modules'
             /\ sys_modules'[n] = sys_modules[n]
             /\ IsPackage(sys_modules[n])' <=> IsPackage(sys_modules[n])
  <2>1. sys_modules[n] \in 1..N /\ n # name
    BY <1>1, <1>7 DEF ImportInv, TypeOK
  <2>2. n \in DOMAIN sys_modules' /\ sys_modules'[n] = sys_modules[n]
    BY <1>2, <2>1 DEF Insert
  <2> PICK k : k = sys_modules[n]
    OBVIOUS
  <2>3. modules'[k] = modules[k] /\ sys_modules'[n] = k
    BY <1>3, <2>1, <2>2
  <2> QED BY <2>1, <2>2, <2>3 DEF IsPackage, Leaf
<1>9. ASSUME NEW x, Strays(x)  PROVE Strays(x)'
  BY <1>8, <1>9 DEF Strays, AboveTop, ThroughAFile
<1>10. ASSUME NEW m \in 2..N  PROVE /\ Ordinary(modules[m].name)'
                                    /\ Strays(modules[m].name)' \/ Spelled(m)'
  <2> PICK x : x = modules[m].name
    OBVIOUS
  <2>1. modules'[m].name = x /\ modules'[m] = modules[m]
    BY <1>3, <1>7
  <2>2. Ordinary(x) /\ (Strays(x) \/ Spelled(m))
    BY DEF PlacedInv
  <2> QED BY <1>9, <2>1, <2>2 DEF Spelled, Ordinary
<1>11. Strays(name)' \/ Spelled(N + 1)'
  <2> DEFINE T == Identifiers \cup {"__init__"}
  <2>1. /\ name \in Seq(T) /\ \A m \in 1..N : modules[m].name \in Seq(T)
        /\ \A d \in Range(sys_path) : d \in Seq(T)
    <3>1. /\ name \in Seq(Identifiers) /\ \A m \in 1..N : modules[m].name \in Seq(Identifiers)
          /\ \A d \in Range(sys_path) : d \in Seq(STRING)
          /\ Identifiers \subseteq T /\ STRING \subseteq T
      BY <1>5, NamesTyped, PathAssumption DEF Range, Identifiers
    <3> HIDE DEF T
    <3> QED BY <3>1, SeqGrows
  <2> HIDE DEF T
  <2>2. SUFFICES ASSUME ~Strays(name)'
                 PROVE  \E d \in Range(sys_path) :
                          file \in {d \o name, Append(d \o name, "__init__")}
    BY <1>3, <1>4 DEF Spelled
  <2>5. \A i \in 1..Len(name) : name[i] # Empty
    BY <2>2 DEF Strays, AboveTop
  <2>6. Leaf(name) # Empty
    <3> PICK k : k = Len(name)
      OBVIOUS
    <3>1. k \in 1..k
      BY <1>5
    <3> QED BY <2>5, <3>1 DEF Leaf
  <2>7. \A dir : Join(dir, Leaf(name)) = Append(dir, Leaf(name))
    BY <2>6 DEF Join
  <2>3. CASE Len(name) = 1
    <3>1. PICK i \in DOMAIN sys_path :
            file \in {Append(Append(sys_path[i], Leaf(name)), "__init__"), sys_path[i] \o <<Leaf(name)>>}
      BY <2>3, <2>7 DEF Founds, Finds, FileIn
    <3> PICK d : d = sys_path[i]
      OBVIOUS
    <3>2. d \in Range(sys_path)
      BY DEF Range
    <3>3. Parent(name) = << >>
      BY <1>5, <2>3 DEF Parent
    <3>4. d \in Seq(T)
      BY <2>1, <3>2
    <3>5. sys_path[i] = d \o Parent(name)
      BY <3>3, <3>4
    <3>6. file \in {d \o name, Append(d \o name, "__init__")}
      <4>1. name \in Seq(T) /\ name # << >>
        BY <1>5, <2>1
      <4>2. /\ (d \o Parent(name)) \o <<Leaf(name)>> = d \o name
            /\ Append(Append(d \o Parent(name), Leaf(name)), "__init__") = Append(d \o name, "__init__")
        BY <3>4, <4>1, JoinedAgain
      <4>3. d = d \o Parent(name)
        BY <3>5
      <4> QED BY <3>1, <4>2, <4>3
    <3> QED BY <3>2, <3>6
  <2>4. CASE Len(name) # 1
    <3>1. /\ parent \in 1..N /\ modules[parent].name = Parent(name) /\ modules[parent].file # NoPath
          /\ FileIn(<<package_dir_of(parent)>>, Leaf(name), file)
      BY <2>4 DEF Founds, Finds
    <3>2. Len(name) > 1 /\ parent \in 2..N
      BY <1>5, <1>7, <2>4, <3>1 DEF PlacedInv
    <3> PICK p : p = Parent(name)
      OBVIOUS
    <3>3. /\ p # << >> /\ p \in Seq(T) /\ Len(p) = Len(name) - 1 /\ p = SubSeq(name, 1, Len(name) - 1)
          /\ \A j \in 1..Len(p) - 1 : SubSeq(p, 1, j) = SubSeq(name, 1, j)
      <4>1. /\ p # << >> /\ p \in Seq(T) /\ Len(p) = Len(name) - 1
            /\ \A j \in 1..Len(name) - 1 : SubSeq(p, 1, j) = SubSeq(name, 1, j)
        BY <2>1, <3>2, ParentOf
      <4> QED BY <1>5, <4>1 DEF Parent
    <3>4. p \in DOMAIN sys_modules /\ sys_modules[p] = parent
      <4>1. p \in DOMAIN sys_modules
        BY <3>1 DEF ImportInv, CacheClosed
      <4>2. sys_modules[p] \in DOMAIN modules /\ modules[sys_modules[p]].name = p
        BY <4>1 DEF ImportInv, TypeOK
      <4> QED BY <1>7, <3>1, <4>1, <4>2 DEF NameLoadedOnce
    <3>5. IsPackage(parent)
      <4>1. p \in DOMAIN sys_modules' /\ sys_modules'[p] = parent
            /\ (IsPackage(sys_modules[p])' <=> IsPackage(sys_modules[p]))
        BY <1>8, <3>4
      <4>2. Len(name) - 1 \in 1..Len(name) - 1
        BY <1>5, <3>2
      <4>3. ~(p \in DOMAIN sys_modules' /\ ~IsPackage(sys_modules[p])')
        BY <2>2, <3>3, <3>4, <4>1, <4>2 DEF Strays, ThroughAFile, IsPackage, Leaf
      <4> QED BY <3>4, <4>1, <4>3
    <3>6. ~Strays(p)
      <4> SUFFICES ASSUME ThroughAFile(p)  PROVE Strays(name)'
        <5>1. \A i \in 1..Len(name) - 1 : p[i] = name[i] /\ i \in 1..Len(name)
          BY <1>5, <2>1, <3>2, ParentOf
        <5>2. ~AboveTop(p)
          BY <2>5, <3>3, <5>1 DEF AboveTop
        <5> QED BY <2>2, <5>2 DEF Strays
      <4>1. PICK j \in 1..Len(p) - 1 : /\ SubSeq(p, 1, j) \in DOMAIN sys_modules
                                       /\ ~IsPackage(sys_modules[SubSeq(p, 1, j)])
        BY DEF ThroughAFile
      <4>2. j \in 1..Len(name) - 1 /\ SubSeq(name, 1, j) = SubSeq(p, 1, j)
        BY <1>5, <3>3
      <4>3. Strays(name)
        BY <4>1, <4>2 DEF Strays, ThroughAFile
      <4> QED BY <1>9, <4>3
    <3>7. PICK d \in Range(sys_path) : package_dir_of(parent) = d \o p
      BY <3>1, <3>2, <3>5, <3>6, PackageSpelled
    <3> PICK dir : dir = package_dir_of(parent)
      OBVIOUS
    <3>8. file \in {Append(Append(dir, Leaf(name)), "__init__"), dir \o <<Leaf(name)>>}
      <4> PICK dirs : dirs = <<dir>>
        OBVIOUS
      <4>1. DOMAIN dirs = {1} /\ dirs[1] = dir
        OBVIOUS
      <4>2. FileIn(dirs, Leaf(name), file)
        BY <3>1
      <4> QED BY <2>7, <4>1, <4>2 DEF FileIn
    <3>9. dir = d \o Parent(name) /\ d \in Seq(T) /\ name \in Seq(T) /\ name # << >>
      BY <1>5, <2>1, <3>7
    <3>10. file \in {d \o name, Append(d \o name, "__init__")}
      <4>1. /\ (d \o Parent(name)) \o <<Leaf(name)>> = d \o name
            /\ Append(Append(d \o Parent(name), Leaf(name)), "__init__") = Append(d \o name, "__init__")
        BY <3>9, JoinedAgain
      <4> QED BY <3>8, <3>9, <4>1
    <3> QED BY <3>10
  <2> QED BY <2>3, <2>4
<1>12. \A m \in 2..N + 1 : /\ Ordinary(modules[m].name)'
                           /\ Strays(modules[m].name)' \/ Spelled(m)'
  <2>1. modules'[N + 1].name = name
    BY <1>3, <1>4
  <2>2. Ordinary(modules[N + 1].name)' /\ (Strays(modules[N + 1].name)' \/ Spelled(N + 1)')
    BY <1>6, <1>11, <2>1 DEF Ordinary
  <2> QED BY <1>7, <1>10, <2>2
<1> QED BY <1>3, <1>7, <1>12 DEF PlacedInv

LEMMA NameOfPath ==
  ASSUME NEW x \in Seq(Identifiers)
  PROVE  x \in Seq(Identifiers \cup {"__init__"})
OBVIOUS

LEMMA PathTyped ==
  ASSUME NEW d \in Range(sys_path)
  PROVE  d \in Seq(Identifiers \cup {"__init__"})
<1>1. d \in Seq(STRING)
  BY PathAssumption DEF Range
<1>2. STRING \subseteq Identifiers \cup {"__init__"}
  BY DEF Identifiers
<1> QED BY <1>1, <1>2, SeqGrows

(* A path that starts with d and ends in x. *)
Joins(s, d, x) == /\ Len(d) \in Nat /\ \A i \in 1..Len(d) : s[i] = d[i]
                  /\ x = [i \in 1..Len(s) - Len(d) |-> s[Len(d) + i]]

LEMMA Joined ==
  ASSUME NEW S, NEW d \in Seq(S), NEW x \in Seq(S), NEW s, s = d \o x
  PROVE  Joins(s, d, x)
<1>1. Len(d) \in Nat /\ Len(x) \in Nat /\ Len(s) = Len(d) + Len(x)
  OBVIOUS
<1>2. \A i \in 1..Len(d) : s[i] = d[i]
  BY <1>1
<1>3. \A i \in 1..Len(x) : s[Len(d) + i] = x[i]
  BY <1>1
<1>4. Len(s) - Len(d) = Len(x)
  BY <1>1
<1>5. x = [i \in 1..Len(x) |-> x[i]]
  BY <1>1, SeqFunction
<1> QED BY <1>1, <1>2, <1>3, <1>4, <1>5 DEF Joins

(* A path spells one name behind the directories of sys.path. *)
LEMMA OneSpelling ==
  ASSUME PathsApart, NEW d \in Range(sys_path), NEW e \in Range(sys_path),
         NEW s, NEW x, NEW y, Joins(s, d, x), Joins(s, e, y)
  PROVE  x = y
<1>1. Len(d) \in Nat /\ Len(e) \in Nat
  BY DEF Joins
<1>2. d = e
  <2>1. CASE Len(d) <= Len(e)
    <3>1. IsPrefix(d, e)
      BY <1>1, <2>1 DEF IsPrefix, Joins
    <3> QED BY <3>1 DEF PathsApart
  <2>2. CASE Len(e) <= Len(d)
    <3>1. IsPrefix(e, d)
      BY <1>1, <2>2 DEF IsPrefix, Joins
    <3> QED BY <3>1 DEF PathsApart
  <2> QED BY <1>1, <2>1, <2>2
<1> QED BY <1>2 DEF Joins

LEMMA PlacedApart ==
  ASSUME ImportInv, NameLoadedOnce, PlacedInv, PathsApart
  PROVE  OneModulePerFile
<1>1. /\ Len(modules) \in Nat /\ DOMAIN modules = 1..Len(modules)
      /\ \A m \in 1..Len(modules) : modules[m].name \in Seq(Identifiers) /\ modules[m].name # << >>
  <2>1. Len(modules) \in Nat /\ DOMAIN modules = 1..Len(modules)
    BY NamesTyped
  <2>2. ASSUME NEW m \in 1..Len(modules)  PROVE modules[m].name # << >>
    BY <2>1 DEF ImportInv, CacheClosed, HeapTyped
  <2> QED BY <2>1, <2>2, NamesTyped
<1> DEFINE T == Identifiers \cup {"__init__"}
<1>t. /\ "__init__" \in T
      /\ \A x \in Seq(Identifiers) : x \in Seq(T)
      /\ \A d \in Range(sys_path) : d \in Seq(T)
  BY NameOfPath, PathTyped
<1> HIDE DEF T
<1>2. ASSUME NEW m \in 2..Len(modules), Spelled(m)
      PROVE  /\ modules[m].file # NoPath
             /\ Leaf(modules[m].file) = "__init__" =>
                  \E d \in Range(sys_path) : modules[m].file = Append(d \o modules[m].name, "__init__")
             /\ Leaf(modules[m].file) # "__init__" =>
                  \E d \in Range(sys_path) : modules[m].file = d \o modules[m].name
  <2> PICK x : x = modules[m].name
    OBVIOUS
  <2> PICK f : f = modules[m].file
    OBVIOUS
  <2>1. PICK d \in Range(sys_path) : f \in {d \o x, Append(d \o x, "__init__")}
    BY <1>2 DEF Spelled
  <2>2. m \in 1..Len(modules)
    BY <1>1
  <2>3. x \in Seq(T) /\ x # << >> /\ d \in Seq(T)
    BY <1>1, <1>t, <2>2
  <2>4. "__init__" \in T
    BY <1>t
  <2>5. Ordinary(x)
    BY DEF PlacedInv
  <2>6. CASE f = d \o x
    <3>1. Leaf(f) # "__init__"
      BY <2>3, <2>5, <2>6, JoinedLeaf DEF Ordinary, Reserved
    <3>2. f # NoPath
      BY <2>3, <2>6 DEF NoPath
    <3> QED BY <2>6, <3>1, <3>2
  <2>7. CASE f = Append(d \o x, "__init__")
    <3> PICK s : s = d \o x
      OBVIOUS
    <3>1. s \in Seq(T) /\ f = Append(s, "__init__")
      BY <2>3, <2>7
    <3>2. Leaf(f) = "__init__"
      BY <2>4, <3>1, LastOf
    <3>3. f # NoPath
      BY <2>4, <3>1 DEF NoPath
    <3> QED BY <2>7, <3>2, <3>3
  <2> QED BY <2>1, <2>6, <2>7
<1>3. ASSUME NEW m \in 2..Len(modules), NEW k \in 2..Len(modules), m # k, Spelled(m), Spelled(k)
      PROVE  modules[m].file # modules[k].file
  <2> SUFFICES ASSUME modules[m].file = modules[k].file  PROVE FALSE
    OBVIOUS
  <2> PICK f : f = modules[m].file
    OBVIOUS
  <2> PICK x : x = modules[m].name
    OBVIOUS
  <2> PICK y : y = modules[k].name
    OBVIOUS
  <2>1. m \in 1..Len(modules) /\ k \in 1..Len(modules)
    BY <1>1
  <2>2. x \in Seq(Identifiers) /\ y \in Seq(Identifiers) /\ x # y
    BY <1>1, <1>3, <2>1 DEF NameLoadedOnce
  <2>3. CASE Leaf(f) # "__init__"
    <3>1. \E d \in Range(sys_path) : Joins(f, d, x)
      <4>1. PICK d \in Range(sys_path) : f = d \o x
        BY <1>2, <1>3, <2>3
      <4> QED BY <1>t, <2>2, <4>1, Joined
    <3>2. \E e \in Range(sys_path) : Joins(f, e, y)
      <4>1. PICK e \in Range(sys_path) : f = e \o y
        BY <1>2, <1>3, <2>3
      <4> QED BY <1>t, <2>2, <4>1, Joined
    <3> QED BY <2>2, <3>1, <3>2, OneSpelling
  <2>4. CASE Leaf(f) = "__init__"
    <3>1. ASSUME NEW d \in Seq(T), NEW z \in Seq(T), f = Append(d \o z, "__init__")
          PROVE  Joins(Parent(f), d, z)
      <4> PICK s : s = d \o z
        OBVIOUS
      <4>1. s \in Seq(T) /\ f = Append(s, "__init__")
        BY <3>1
      <4>2. Parent(f) = s
        BY <1>t, <4>1, LastOf
      <4> QED BY <4>2, Joined
    <3>2. \E d \in Range(sys_path) : Joins(Parent(f), d, x)
      <4>1. PICK d \in Range(sys_path) : f = Append(d \o x, "__init__")
        BY <1>2, <1>3, <2>4
      <4> QED BY <1>t, <2>2, <3>1, <4>1
    <3>3. \E e \in Range(sys_path) : Joins(Parent(f), e, y)
      <4>1. PICK e \in Range(sys_path) : f = Append(e \o y, "__init__")
        BY <1>2, <1>3, <2>4
      <4> QED BY <1>t, <2>2, <3>1, <4>1
    <3> QED BY <2>2, <3>2, <3>3, OneSpelling
  <2> QED BY <2>3, <2>4
<1>4. ASSUME NEW m \in DOMAIN modules, NEW k \in DOMAIN modules, m # k,
             modules[m].file = modules[k].file, ~Strays(modules[m].name), ~Strays(modules[k].name)
      PROVE  FALSE
  <2>1. CASE m = 1
    <3>1. k \in 2..Len(modules) /\ modules[k].file = NoPath
      BY <1>1, <1>4, <2>1 DEF PlacedInv
    <3> QED BY <1>2, <1>4, <3>1 DEF PlacedInv
  <2>2. CASE k = 1
    <3>1. m \in 2..Len(modules) /\ modules[m].file = NoPath
      BY <1>1, <1>4, <2>2 DEF PlacedInv
    <3> QED BY <1>2, <1>4, <3>1 DEF PlacedInv
  <2>3. CASE m # 1 /\ k # 1
    <3>1. m \in 2..Len(modules) /\ k \in 2..Len(modules)
      BY <1>1, <1>4, <2>3
    <3> QED BY <1>3, <1>4, <3>1 DEF PlacedInv
  <2> QED BY <2>1, <2>2, <2>3
<1> QED BY <1>4 DEF OneModulePerFile

LEMMA PlacedStep ==
  ImportInv /\ NameLoadedOnce /\ NotOvertaken /\ PlacedInv /\ OrdinaryAsked /\ [Next]_vars => PlacedInv'
<1> SUFFICES ASSUME ImportInv, NameLoadedOnce, NotOvertaken, PlacedInv, OrdinaryAsked, [Next]_vars
             PROVE  PlacedInv'
  OBVIOUS
<1>1. \/ Stands
      \/ top.kind = "resolve" /\ \E parent, file, is_package : Founds(parent, file, is_package)
  BY FoundsOrStands
<1> QED BY <1>1, StandsPlaced, FoundPlaced

LEMMA PlacedStart ==
  ASSUME Start
  PROVE  PlacedInv
<1>1. PICK script \in Seq(Statements) : InitWith(files, script)
  BY DEF Start
<1>2. modules = <<Sys>>
  BY <1>1 DEF InitWith
<1>3. Len(modules) = 1 /\ modules[1] = Sys /\ 2..1 = {}
  BY <1>2
<1> QED BY <1>3 DEF PlacedInv, Sys

(* Every call and every module has ordinary names, as the files have. *)
OrdinaryCall(c) == IF c.kind = "resolve" THEN Ordinary(c.name) ELSE OrdinaryCode(c.code)
OrdinaryInv ==
  /\ OrdinaryFiles
  /\ \A i \in 1..Len(calls) : OrdinaryCall(calls[i])
  /\ \A m \in 1..Len(modules) : Ordinary(modules[m].name)

(* Names that are cut, joined or grown. *)
LEMMA OrdinaryCut ==
  ASSUME NEW S, NEW x \in Seq(S), Ordinary(x), NEW k \in Nat, k <= Len(x)
  PROVE  Ordinary(SubSeq(x, 1, Len(x) - k))
<1> PICK q : q = SubSeq(x, 1, Len(x) - k)
  OBVIOUS
<1>1. q \in Seq(S) /\ Len(q) = Len(x) - k /\ (\A i \in 1..Len(x) - k : q[i] = x[i]) /\ Len(x) \in Nat
  BY SeqTrim
<1>2. \A i \in 1..Len(q) : i \in 1..Len(x) /\ q[i] = x[i]
  BY <1>1
<1>3. Ordinary(q)
  BY <1>2 DEF Ordinary
<1> QED BY <1>3

LEMMA OrdinaryParent ==
  ASSUME NEW S, NEW x \in Seq(S), Ordinary(x), x # << >>
  PROVE  Ordinary(Parent(x))
<1>1. 1 \in Nat /\ 1 <= Len(x)
  OBVIOUS
<1> QED BY <1>1, OrdinaryCut DEF Parent

LEMMA OrdinaryTail ==
  ASSUME NEW S, NEW x \in Seq(S), Ordinary(x), x # << >>
  PROVE  Ordinary(Tail(x))
<1> PICK n : n = Len(x)
  OBVIOUS
<1> PICK q : q = Tail(x)
  OBVIOUS
<1>1. n \in Nat /\ n > 0 /\ Len(q) = n - 1 /\ \A i \in 1..n - 1 : q[i] = x[i + 1]
  OBVIOUS
<1>2. \A i \in 1..n - 1 : i + 1 \in 1..n
  BY <1>1
<1>3. Ordinary(q)
  BY <1>1, <1>2 DEF Ordinary
<1> QED BY <1>3

LEMMA OrdinaryJoin ==
  ASSUME NEW S, NEW x \in Seq(S), NEW y \in Seq(S), Ordinary(x), Ordinary(y)
  PROVE  Ordinary(x \o y)
<1> PICK n : n = Len(x)
  OBVIOUS
<1> PICK k : k = Len(y)
  OBVIOUS
<1> PICK q : q = x \o y
  OBVIOUS
<1>1. n \in Nat /\ k \in Nat /\ Len(q) = n + k
  OBVIOUS
<1>2. \A i \in 1..n + k : q[i] = IF i <= n THEN x[i] ELSE y[i - n]
  BY <1>1
<1>3. \A i \in 1..n + k : i <= n \/ i - n \in 1..k
  BY <1>1
<1>4. \A i \in 1..n + k : q[i] \notin Reserved
  BY <1>1, <1>2, <1>3 DEF Ordinary
<1>5. Ordinary(q)
  BY <1>1, <1>4 DEF Ordinary
<1> QED BY <1>5

LEMMA OrdinaryGrown ==
  ASSUME NEW S, NEW x \in Seq(S), NEW y \in S, Ordinary(x), y \notin Reserved
  PROVE  Ordinary(Append(x, y))
<1> PICK q : q = Append(x, y)
  OBVIOUS
<1>1. q \in Seq(S) /\ Len(q) = Len(x) + 1 /\ q[Len(x) + 1] = y /\ (\A i \in 1..Len(x) : q[i] = x[i])
      /\ Len(x) \in Nat
  BY SeqPush
<1>2. Ordinary(q)
  BY <1>1 DEF Ordinary
<1> QED BY <1>2

(* Nobody binds __package__, and so a namespace says what it was given: the name of
   its module or of that module's parent.                                      *)
LEMMA NotRebound ==
  ASSUME ImportInv, OrdinaryInv, PackageInv
  PROVE  Given
<1> SUFFICES ~PackageRebound
  BY DEF PackageInv
<1>1. calls[1].kind = "body" /\ 1 \in 1..Len(calls)
  BY DEF ImportInv, CallsFit
<1>2. \A i \in 1..Len(calls[1].code) : calls[1].code[i] # <<"STORE_GLOBAL", "__package__">>
  BY <1>1 DEF OrdinaryInv, OrdinaryCall, OrdinaryCode
<1>3. ASSUME NEW m \in DOMAIN modules \ {1}
      PROVE  "__package__" \notin BoundBy(BodyOf(m))
  <2> PICK body : body = BodyOf(m)
    OBVIOUS
  <2> PICK f : f = modules[m].file
    OBVIOUS
  <2>1. f \in DOMAIN files /\ body = files[f].body
    <3>1. m \in 2..Len(modules)
      BY NamesTyped
    <3> QED BY <3>1 DEF BodyOf, ImportInv, HeapTyped
  <2>2. body \in Seq(Statements)
    BY <2>1 DEF ImportInv, TypeOK, FilesTyped
  <2>3. Code(compile(body), body) /\ OrdinaryCode(compile(body))
    BY <2>1, <2>2, CompiledCode DEF OrdinaryInv, OrdinaryFiles
  <2> PICK c : c = compile(body)
    OBVIOUS
  <2>4. ~Storing(c, "__package__")
    BY <2>3 DEF OrdinaryCode, Storing
  <2> QED BY <2>3, <2>4 DEF Code
<1>4. ASSUME NEW m \in DOMAIN modules \ {1}, Len(modules[m].name) > 1
      PROVE  Leaf(modules[m].name) # "__package__"
  <2> PICK x : x = modules[m].name
    OBVIOUS
  <2> PICK k : k = Len(x)
    OBVIOUS
  <2>1. m \in 1..Len(modules) /\ x \in Seq(Identifiers) /\ Ordinary(x)
    BY NamesTyped DEF OrdinaryInv
  <2>2. k \in 1..k
    BY <1>4, <2>1
  <2> QED BY <2>1, <2>2 DEF Ordinary, Reserved, Leaf
<1> QED BY <1>2, <1>3, <1>4 DEF PackageRebound

LEMMA PackageOrdinary ==
  ASSUME ImportInv, OrdinaryInv, Given, NEW m \in 0..Len(modules), m # 1, Package(m) # None
  PROVE  \E x \in Seq(Identifiers) : x # << >> /\ Ordinary(x) /\ Package(m) = Str(x)
<1> PICK N : N = Len(modules)
  OBVIOUS
<1>1. m # 0
  BY DEF Package, Namespace, Given
<1>2. N \in Nat /\ m \in 2..N /\ m \in 1..N
  BY <1>1, NamesTyped
<1> PICK y : y = modules[m].name
  OBVIOUS
<1>3. y \in Seq(Identifiers) /\ Ordinary(y)
  BY <1>2, NamesTyped DEF OrdinaryInv
<1>4. y # << >>
  BY <1>2, NamesTyped DEF ImportInv, CacheClosed, HeapTyped
<1>5. Package(m) = Str(y) \/ (Len(y) > 1 /\ Package(m) = Str(Parent(y)))
  <2>1. PackageIs(modules[m].globals["__package__"], y)
    BY <1>2 DEF Given
  <2>2. Package(m) = modules[m].globals["__package__"]
    BY <1>1 DEF Package, Namespace
  <2> QED BY <2>1, <2>2 DEF PackageIs
<1>6. ASSUME Len(y) > 1  PROVE Parent(y) \in Seq(Identifiers) /\ Parent(y) # << >> /\ Ordinary(Parent(y))
  BY <1>3, <1>4, <1>6, ParentOf, OrdinaryParent
<1> QED BY <1>3, <1>4, <1>5, <1>6

(* The name that an import asks for: that of the package or of the module is an
   ordinary one, and so is the rest.                                          *)
LEMMA AbsoluteOrdinary ==
  ASSUME ImportInv, OrdinaryInv, Given, top.kind = "body", Instr[1] = "IMPORT_NAME",
         RelativeError(top.module, Level) = "none"
  PROVE  Ordinary(Absolute)
<1> PICK raw : raw = Arg
  OBVIOUS
<1>1. Level \in Nat /\ raw \in Seq(Identifiers) /\ Empty \notin Reserved
  <2>1. Empty \notin Reserved
    BY DEF Empty, Reserved
  <2> QED BY <2>1, AbsoluteName
<1>2. Ordinary(raw)
  <2> PICK c : c = top
    OBVIOUS
  <2>1. OrdinaryCall(c) /\ c.kind = "body"
    BY TopFits DEF OrdinaryInv, top
  <2>2. c.ip \in 1..Len(c.code) /\ raw = c.code[c.ip][2] /\ Op(c.code, c.ip) = "IMPORT_NAME"
    BY Fetched DEF Opcode
  <2> QED BY <2>1, <2>2 DEF OrdinaryCall, OrdinaryCode, Op
<1>3. ASSUME NEW q, Ordinary(q), Absolute = IF q = << >> THEN <<Empty>> ELSE q
      PROVE  Ordinary(Absolute)
  <2>1. Ordinary(<<Empty>>)
    BY <1>1 DEF Ordinary
  <2> QED BY <1>3, <2>1
<1>4. CASE Level = 0
  <2>1. Absolute = IF raw = << >> THEN <<Empty>> ELSE raw
    BY <1>4 DEF Absolute, resolve_relative_name
  <2> QED BY <1>2, <1>3, <2>1
<1>5. CASE Level # 0
  <2> PICK k : k = Level - 1
    OBVIOUS
  <2> PICK m : m = top.module
    OBVIOUS
  <2> PICK p : p = Parts(m)
    OBVIOUS
  <2>1. k \in Nat /\ m \in 0..Len(modules) /\ m # 1
    <3>1. m = 0 \/ m # 1
      BY TopFits DEF CallFits, BodyFits, OfModule
    <3> QED BY <1>1, <1>5, <3>1, Fetched
  <2>2. Package(m) # None /\ Package(m)[1] = "str" /\ ~(k > Len(p))
    BY <1>5 DEF RelativeError
  <2>3. p \in Seq(Identifiers)
    BY <2>1, <2>2, PartsTyped
  <2>4. k <= Len(p)
    BY <2>1, <2>2, <2>3
  <2>5. Ordinary(p)
    <3>1. PICK x \in Seq(Identifiers) : x # << >> /\ Ordinary(x) /\ Package(m) = Str(x)
      BY <2>1, <2>2, PackageOrdinary
    <3>2. p = IF Head(x) = Empty THEN Tail(x) ELSE x
      BY <3>1 DEF Parts, Str
    <3> QED BY <3>1, <3>2, OrdinaryTail
  <2> PICK q : q = SubSeq(p, 1, Len(p) - k)
    OBVIOUS
  <2>6. Ordinary(q) /\ q \in Seq(Identifiers)
    BY <2>1, <2>3, <2>4, <2>5, OrdinaryCut, SeqTrim
  <2>7. Ordinary(q \o raw)
    BY <1>1, <1>2, <2>6, OrdinaryJoin
  <2>8. Absolute = IF q \o raw = << >> THEN <<Empty>> ELSE q \o raw
    BY <1>5 DEF Absolute, resolve_relative_name
  <2> QED BY <1>3, <2>7, <2>8
<1> QED BY <1>4, <1>5

LEMMA FromOrdinary ==
  ASSUME ImportInv, OrdinaryInv, top.kind = "body", Instr[1] = "IMPORT_FROM"
  PROVE  Ordinary(Append(modules[Operand(0)[2]].name, Arg))
<1> PICK x : x = modules[Operand(0)[2]].name
  OBVIOUS
<1>1. x \in Seq(Identifiers) /\ Ordinary(x) /\ Arg \in Identifiers
  BY FromModule, NamesTyped DEF OrdinaryInv
<1>2. Arg \notin Reserved
  <2> PICK c : c = top
    OBVIOUS
  <2>1. OrdinaryCall(c) /\ c.kind = "body"
    BY TopFits DEF OrdinaryInv, top
  <2>2. c.ip \in 1..Len(c.code) /\ Arg = c.code[c.ip][2] /\ Op(c.code, c.ip) = "IMPORT_FROM"
    BY Fetched DEF Opcode
  <2> QED BY <2>1, <2>2 DEF OrdinaryCall, OrdinaryCode, Op
<1> QED BY <1>1, <1>2, OrdinaryGrown

LEMMA OrdinaryCalls ==
  ASSUME ImportInv, NotOvertaken, OrdinaryInv, Given, [Next]_vars
  PROVE  \A i \in 1..Len(calls') : OrdinaryCall(calls'[i])
<1> PICK n : n = Len(calls)
  OBVIOUS
<1>1. n \in Nat /\ n \in 1..n /\ \A i \in 1..n + 1 : i \in 1..n \/ i = n + 1
  BY TopFits
<1>2. \A i \in 1..n : OrdinaryCall(calls[i])
  BY DEF OrdinaryInv
<1>3. \A c, d : Alike(d, c) /\ OrdinaryCall(c) => OrdinaryCall(d)
  BY DEF Alike, OrdinaryCall
<1>4. CASE CallsKept
  BY <1>2, <1>3, <1>4 DEF CallsKept
<1>5. ASSUME NEW name, CallPushed(name)  PROVE \A i \in 1..Len(calls') : OrdinaryCall(calls'[i])
  <2>1. Ordinary(name)
    <3>1. CASE Asks(name)
      BY <3>1, AbsoluteOrdinary, FromOrdinary DEF Asks
    <3>2. CASE AsksParent(name)
      <4> PICK c : c = top
        OBVIOUS
      <4>1. c.kind = "resolve" /\ name = Parent(c.name) /\ c.name \in Seq(Identifiers) /\ c.name # << >>
        BY <3>2, RequestTyped DEF AsksParent
      <4>2. Ordinary(c.name)
        BY <1>1, <1>2, <4>1 DEF top, OrdinaryCall
      <4> QED BY <4>1, <4>2, OrdinaryParent
    <3> QED BY <1>5, <3>1, <3>2 DEF CallPushed
  <2>2. OrdinaryCall(Resolve(name))
    BY <2>1 DEF OrdinaryCall, Resolve
  <2> QED BY <1>1, <1>2, <1>3, <1>5, <2>2 DEF CallPushed
<1>6. ASSUME top.kind = "resolve", NEW parent, NEW file, NEW is_package,
             Founds(parent, file, is_package)
      PROVE  \A i \in 1..Len(calls') : OrdinaryCall(calls'[i])
  <2> PICK d : d = Body(top.name, Len(modules) + 1, parent, files[file].body)
    OBVIOUS
  <2>1. file \in DOMAIN files
    BY <1>6 DEF Founds, Finds, FileIn
  <2>2. OrdinaryCall(d)
    BY <2>1 DEF OrdinaryInv, OrdinaryFiles, OrdinaryCall, Body
  <2>3. Len(calls') = n /\ calls'[n] = d /\ \A i \in 1..n : i # n => calls'[i] = calls[i]
    BY <1>6, CallsFound DEF Founds, Finds
  <2> QED BY <1>2, <2>2, <2>3
<1> QED BY <1>4, <1>5, <1>6, FoundsOrStands, CallsMoved

LEMMA OrdinaryStep ==
  ImportInv /\ NotOvertaken /\ PackageInv /\ OrdinaryInv /\ [Next]_vars => OrdinaryInv'
<1> SUFFICES ASSUME ImportInv, NotOvertaken, PackageInv, OrdinaryInv, [Next]_vars
             PROVE  OrdinaryInv'
  OBVIOUS
<1> PICK N : N = Len(modules)
  OBVIOUS
<1>1. files' = files
  BY FilesStand
<1>2. OrdinaryFiles'
  BY <1>1 DEF OrdinaryInv, OrdinaryFiles, compile
<1>3. \A i \in 1..Len(calls') : OrdinaryCall(calls'[i])
  BY NotRebound, OrdinaryCalls
<1>4. \A m \in 1..N : Ordinary(modules[m].name)
  BY DEF OrdinaryInv
<1>5. \A m \in 1..Len(modules') : Ordinary(modules'[m].name)
  <2>1. CASE Stands
    BY <1>4, <2>1 DEF Stands
  <2>2. ASSUME top.kind = "resolve", NEW parent, NEW file, NEW is_package,
               Founds(parent, file, is_package)
        PROVE  \A m \in 1..Len(modules') : Ordinary(modules'[m].name)
    <3> PICK name : name = top.name
      OBVIOUS
    <3> PICK r : r = NewModule(name, file, is_package)
      OBVIOUS
    <3>1. Begin(top.name, parent, file, is_package)
      BY <2>2 DEF Founds, Finds
    <3>2. N \in Nat /\ Len(modules') = N + 1 /\ modules'[N + 1] = r
      BY <2>2, <3>1, Begun
    <3>3. \A m \in 1..N : modules'[m] = modules[m]
      BY <2>2, <3>1, Begun
    <3>4. name \in Seq(Identifiers) /\ name # << >>
      BY <2>2, RequestTyped
    <3>5. Ordinary(name)
      <4> PICK c : c = top
        OBVIOUS
      <4>1. OrdinaryCall(c)
        BY TopFits DEF OrdinaryInv, top
      <4> QED BY <2>2, <4>1 DEF OrdinaryCall
    <3>7. Ordinary(r.name)
      BY <3>5 DEF NewModule
    <3>8. \A m \in 1..N + 1 : m \in 1..N \/ m = N + 1
      BY <3>2
    <3> QED BY <1>4, <3>2, <3>3, <3>7, <3>8
  <2> QED BY <2>1, <2>2, FoundsOrStands
<1> QED BY <1>2, <1>3, <1>5 DEF OrdinaryInv, OrdinaryCall, OrdinaryCode, Ordinary

LEMMA OrdinaryStart ==
  ASSUME Start, OrdinaryFiles, OrdinaryScript
  PROVE  OrdinaryInv
<1>1. PICK script \in Seq(Statements) : InitWith(files, script)
  BY DEF Start
<1>2. modules = <<Sys>> /\ calls = <<Body(<< >>, 0, 0, script)>>
  BY <1>1 DEF InitWith
<1>3. Len(modules) = 1 /\ modules[1] = Sys /\ Len(calls) = 1 /\ calls[1].kind = "body" /\ 1..1 = {1}
  BY <1>2 DEF Body
<1>4. Ordinary(Sys.name)
  BY DEF Ordinary, Reserved, Sys
<1> QED BY <1>3, <1>4 DEF OrdinaryInv, OrdinaryScript, OrdinaryCall

(* However a file is reached, there is one module of it, unless a name strays: it goes
   through a module that is no package, or out of its top-level package. *)
THEOREM AlwaysOneModulePerFile ==
  ASSUME PathsApart
  PROVE  ImportSpec /\ OrdinaryFiles /\ OrdinaryScript /\ []NotOvertaken => []OneModulePerFile
<1>1. ImportInv /\ OrdinaryInv => OrdinaryAsked
  <2> SUFFICES ASSUME ImportInv, OrdinaryInv, NEW i \in DOMAIN calls, calls[i].kind = "resolve"
               PROVE  Ordinary(calls[i].name)
    BY DEF OrdinaryAsked
  <2> PICK T : T = Requests \cup Bodies
    OBVIOUS
  <2>1. calls \in Seq(T)
    BY TopFits
  <2>2. i \in 1..Len(calls)
    BY <2>1
  <2> QED BY <2>2 DEF OrdinaryInv, OrdinaryCall
<1>2. ImportInv /\ NameLoadedOnce /\ PlacedInv => OneModulePerFile
  BY PlacedApart
<1>3. Start => PlacedInv
  BY PlacedStart
<1>4. Start /\ OrdinaryFiles /\ OrdinaryScript => OrdinaryInv
  BY OrdinaryStart
<1> QED BY <1>1, <1>2, <1>3, <1>4, ImportInvAlways, PackageAlways, AlwaysOneModuleOfAName, OrdinaryStep,
           PlacedStep, PTL DEF ImportSpec

-------------------------------------------------------------------------------
(* Where a request is never overtaken.  The names asked for, and the code that
   runs: a name has its prefixes in the cache but where they end in what is the
   stem of no file that imports, ...                                          *)
GoesStraight(name) ==
  \A k \in 1..Len(name) - 1 : SubSeq(name, 1, k) \in DOMAIN sys_modules \/ name[k] \notin Importing
StraightCall(c) == IF c.kind = "resolve" THEN GoesStraight(c.name) ELSE StraightCode(c.code)
(* ... and above a request there are only requests for shorter names, or a body
   that imports nothing.                                                      *)
Above(c, d) ==
  c.kind = "resolve" => IF d.kind = "resolve" THEN Len(d.name) < Len(c.name) ELSE ~Imports_(d.code)
PrefixesCached ==
  \A n \in DOMAIN sys_modules : \A k \in 1..Len(n) : SubSeq(n, 1, k) \in DOMAIN sys_modules
NoEmptyName == <<Empty>> \notin DOMAIN sys_modules
StraightInv ==
  /\ StraightFiles
  /\ \A i \in 1..Len(calls) : StraightCall(calls[i])
  /\ \A i, j \in 1..Len(calls) : i < j => Above(calls[i], calls[j])
  /\ NotOvertaken /\ PrefixesCached /\ NoEmptyName

(* Prefixes of names that are cut, grown or joined. *)
LEMMA PrefixIs ==
  ASSUME NEW S, NEW x \in Seq(S), NEW k \in Nat, k <= Len(x)
  PROVE  SubSeq(x, 1, k) = [i \in 1..k |-> x[i]]
<1> PICK q : q = SubSeq(x, 1, k)
  OBVIOUS
<1>1. q \in Seq(S) /\ Len(q) = k /\ \A i \in 1..k : q[i] = x[i]
  OBVIOUS
<1>2. q = [i \in 1..k |-> q[i]]
  BY <1>1, SeqFunction
<1>3. [i \in 1..k |-> q[i]] = [i \in 1..k |-> x[i]]
  BY <1>1
<1> QED BY <1>2, <1>3

LEMMA SamePrefix ==
  ASSUME NEW S, NEW x \in Seq(S), NEW y \in Seq(S), NEW k \in Nat, k <= Len(x), k <= Len(y),
         \A i \in 1..k : x[i] = y[i]
  PROVE  SubSeq(x, 1, k) = SubSeq(y, 1, k)
<1> PICK p : p = [i \in 1..k |-> x[i]]
  OBVIOUS
<1> PICK q : q = [i \in 1..k |-> y[i]]
  OBVIOUS
<1>1. p = q
  OBVIOUS
<1>2. SubSeq(x, 1, k) = p
  BY PrefixIs
<1>3. SubSeq(y, 1, k) = q
  BY PrefixIs
<1> QED BY <1>1, <1>2, <1>3

LEMMA WholePrefix ==
  ASSUME NEW S, NEW x \in Seq(S)
  PROVE  SubSeq(x, 1, Len(x)) = x
<1> PICK k : k = Len(x)
  OBVIOUS
<1> PICK q : q = SubSeq(x, 1, k)
  OBVIOUS
<1>1. k \in Nat /\ q = [i \in 1..k |-> x[i]]
  BY PrefixIs
<1>2. x = [i \in 1..k |-> x[i]]
  BY <1>1, SeqFunction
<1> QED BY <1>1, <1>2

LEMMA CutPrefixes ==
  ASSUME NEW S, NEW x \in Seq(S), NEW n \in Nat, n <= Len(x), NEW q, q = SubSeq(x, 1, n)
  PROVE  /\ q \in Seq(S) /\ Len(q) = n
         /\ \A k \in 1..n : SubSeq(q, 1, k) = SubSeq(x, 1, k) /\ q[k] = x[k]
<1>1. q \in Seq(S) /\ Len(q) = n /\ \A k \in 1..n : q[k] = x[k]
  OBVIOUS
<1>2. ASSUME NEW k \in 1..n  PROVE SubSeq(q, 1, k) = SubSeq(x, 1, k)
  <2>1. k \in Nat /\ k <= Len(q) /\ k <= Len(x) /\ \A i \in 1..k : i \in 1..n
    BY <1>1
  <2>2. \A i \in 1..k : q[i] = x[i]
    BY <1>1, <2>1
  <2> QED BY <1>1, <2>1, <2>2, SamePrefix
<1> QED BY <1>1, <1>2

LEMMA GrownPrefixes ==
  ASSUME NEW S, NEW x \in Seq(S), NEW a \in S, NEW q, q = Append(x, a)
  PROVE  /\ q \in Seq(S) /\ Len(q) = Len(x) + 1 /\ Len(x) \in Nat
         /\ \A k \in 1..Len(x) : SubSeq(q, 1, k) = SubSeq(x, 1, k)
<1> PICK n : n = Len(x)
  OBVIOUS
<1>1. q \in Seq(S) /\ Len(q) = n + 1 /\ n \in Nat /\ \A k \in 1..n : q[k] = x[k]
  BY SeqPush
<1>2. ASSUME NEW k \in 1..n  PROVE SubSeq(q, 1, k) = SubSeq(x, 1, k)
  <2>1. k \in Nat /\ k <= Len(q) /\ k <= Len(x) /\ \A i \in 1..k : i \in 1..n
    BY <1>1
  <2>2. \A i \in 1..k : q[i] = x[i]
    BY <1>1, <2>1
  <2> QED BY <1>1, <2>1, <2>2, SamePrefix
<1> QED BY <1>1, <1>2

LEMMA JoinedPrefixes ==
  ASSUME NEW S, NEW x \in Seq(S), NEW y \in Seq(S), NEW q, q = x \o y
  PROVE  /\ q \in Seq(S) /\ Len(q) = Len(x) + Len(y) /\ Len(x) \in Nat /\ Len(y) \in Nat
         /\ \A k \in 1..Len(x) : SubSeq(q, 1, k) = SubSeq(x, 1, k)
         /\ \A k \in 1..Len(y) : q[Len(x) + k] = y[k]
<1> PICK n : n = Len(x)
  OBVIOUS
<1>1. /\ q \in Seq(S) /\ Len(q) = n + Len(y) /\ n \in Nat /\ Len(y) \in Nat
      /\ \A k \in 1..n : q[k] = x[k]
  OBVIOUS
<1>2. \A k \in 1..Len(y) : q[n + k] = y[k]
  BY <1>1
<1>3. ASSUME NEW k \in 1..n  PROVE SubSeq(q, 1, k) = SubSeq(x, 1, k)
  <2>1. k \in Nat /\ k <= Len(q) /\ k <= Len(x) /\ \A i \in 1..k : i \in 1..n
    BY <1>1
  <2>2. \A i \in 1..k : q[i] = x[i]
    BY <1>1, <2>1
  <2> QED BY <1>1, <2>1, <2>2, SamePrefix
<1> QED BY <1>1, <1>2, <1>3

(* The package a module has been given is a name of the cache. *)
LEMMA PackageCached ==
  ASSUME ImportInv, StraightInv, Given, NEW m \in 0..Len(modules), m # 1, Package(m) # None
  PROVE  Parts(m) \in Seq(Identifiers) /\ Parts(m) \in DOMAIN sys_modules
<1>0. \A k \in Nat : 1 \in 1..k => k # 0
  OBVIOUS
<1> PICK N : N = Len(modules)
  OBVIOUS
<1>1. m # 0
  BY DEF Package, Namespace, Given
<1>2. N \in Nat /\ m \in 2..N /\ m \in 1..N
  BY <1>1, NamesTyped
<1> PICK y : y = modules[m].name
  OBVIOUS
<1>3. y \in Seq(Identifiers) /\ y # << >> /\ y \in DOMAIN sys_modules /\ <<y[1]>> \in DOMAIN sys_modules
  BY <1>2, NamesTyped DEF ImportInv, CacheClosed, HeapTyped
<1>4. y[1] # Empty
  BY <1>3 DEF StraightInv, NoEmptyName
<1>5. ASSUME NEW x \in Seq(Identifiers), x # << >>, x[1] = y[1], Package(m) = Str(x), x \in DOMAIN sys_modules
      PROVE  Parts(m) \in Seq(Identifiers) /\ Parts(m) \in DOMAIN sys_modules
  <2>1. Package(m)[2] = x /\ Head(x) # Empty
    BY <1>4, <1>5 DEF Str
  <2>2. Parts(m) = x
    BY <2>1 DEF Parts
  <2> QED BY <1>5, <2>2
<1>6. Package(m) = Str(y) \/ (Len(y) > 1 /\ Package(m) = Str(Parent(y)))
  <2>1. PackageIs(modules[m].globals["__package__"], y)
    BY <1>2 DEF Given
  <2>2. Package(m) = modules[m].globals["__package__"]
    BY <1>1 DEF Package, Namespace
  <2> QED BY <2>1, <2>2 DEF PackageIs
<1>7. ASSUME Len(y) > 1
      PROVE  /\ Parent(y) \in Seq(Identifiers) /\ Parent(y) # << >> /\ Parent(y)[1] = y[1]
             /\ Parent(y) \in DOMAIN sys_modules
  <2> PICK k : k = Len(y) - 1
    OBVIOUS
  <2> PICK p : p = Parent(y)
    OBVIOUS
  <2>1. k \in Nat /\ k <= Len(y) /\ k \in 1..Len(y) /\ 1 \in 1..k /\ p = SubSeq(y, 1, k)
    BY <1>3, <1>7 DEF Parent
  <2>2. p \in Seq(Identifiers) /\ Len(p) = k /\ p[1] = y[1]
    BY <1>3, <2>1, CutPrefixes
  <2>3. p \in DOMAIN sys_modules
    BY <1>3, <2>1 DEF StraightInv, PrefixesCached
  <2>4. p # << >>
    <3>1. k \in Nat /\ 1 \in 1..k
      BY <2>1
    <3>2. k # 0
      BY <1>0, <3>1
    <3>3. Len(p) = k /\ p \in Seq(Identifiers)
      BY <2>2
    <3> QED BY <3>2, <3>3
  <2> QED BY <2>2, <2>3, <2>4
<1> QED BY <1>3, <1>5, <1>6, <1>7

(* The names that are asked for. *)
LEMMA StraightAbsolute ==
  ASSUME ImportInv, StraightInv, Given, top.kind = "body", Instr[1] = "IMPORT_NAME",
         RelativeError(top.module, Level) = "none"
  PROVE  GoesStraight(Absolute)
<1> PICK raw : raw = Arg
  OBVIOUS
<1>1. Level \in Nat /\ raw \in Seq(Identifiers)
  BY AbsoluteName
<1>2. \A k \in 1..Len(raw) - 1 : raw[k] \notin Importing
  <2> PICK c : c = top
    OBVIOUS
  <2>1. StraightCall(c) /\ c.kind = "body"
    BY TopFits DEF StraightInv, top
  <2>2. c.ip \in 1..Len(c.code) /\ raw = c.code[c.ip][2] /\ c.code[c.ip][1] = "IMPORT_NAME"
    BY Fetched DEF Opcode, Op
  <2>3. StraightName(raw)
    BY <2>1, <2>2 DEF StraightCall, StraightCode
  <2> QED BY <2>3 DEF StraightName
<1>3. ASSUME NEW a, GoesStraight(a), Absolute = IF a = << >> THEN <<Empty>> ELSE a
      PROVE  GoesStraight(Absolute)
  <2> PICK e : e = <<Empty>>
    OBVIOUS
  <2>1. Len(e) = 1 /\ 1..1 - 1 = {}
    OBVIOUS
  <2>2. GoesStraight(e)
    BY <2>1 DEF GoesStraight
  <2> QED BY <1>3, <2>2
<1>4. CASE Level = 0
  <2>1. Absolute = IF raw = << >> THEN <<Empty>> ELSE raw
    BY <1>4 DEF Absolute, resolve_relative_name
  <2>2. GoesStraight(raw)
    BY <1>2 DEF GoesStraight
  <2> QED BY <1>3, <2>1, <2>2
<1>5. CASE Level # 0
  <2> PICK m : m = top.module
    OBVIOUS
  <2> PICK p : p = Parts(m)
    OBVIOUS
  <2> PICK n : n = Len(p) - (Level - 1)
    OBVIOUS
  <2>1. m \in 0..Len(modules) /\ m # 1
    <3>1. m = 0 \/ m # 1
      BY TopFits DEF CallFits, BodyFits, OfModule
    <3> QED BY <3>1, Fetched
  <2>2. Package(m) # None /\ ~(Level - 1 > Len(p))
    BY <1>5 DEF RelativeError
  <2>3. p \in Seq(Identifiers) /\ p \in DOMAIN sys_modules
    BY <2>1, <2>2, PackageCached
  <2>4. n \in Nat /\ n <= Len(p)
    BY <1>1, <1>5, <2>2, <2>3
  <2> PICK q : q = SubSeq(p, 1, n)
    OBVIOUS
  <2>5. /\ q \in Seq(Identifiers) /\ Len(q) = n
        /\ \A k \in 1..n : SubSeq(q, 1, k) = SubSeq(p, 1, k)
    BY <2>3, <2>4, CutPrefixes
  <2>6. \A k \in 1..n : SubSeq(q, 1, k) \in DOMAIN sys_modules
    <3>1. \A k \in 1..n : k \in 1..Len(p)
      BY <2>3, <2>4
    <3> QED BY <2>3, <2>5, <3>1 DEF StraightInv, PrefixesCached
  <2> PICK a : a = q \o raw
    OBVIOUS
  <2>7. Absolute = IF a = << >> THEN <<Empty>> ELSE a
    BY <1>5 DEF Absolute, resolve_relative_name
  <2>8. /\ Len(a) = n + Len(raw) /\ Len(raw) \in Nat
        /\ \A k \in 1..n : SubSeq(a, 1, k) = SubSeq(q, 1, k)
        /\ \A k \in 1..Len(raw) : a[n + k] = raw[k]
    <3>1. /\ Len(a) = Len(q) + Len(raw) /\ Len(raw) \in Nat
          /\ \A k \in 1..Len(q) : SubSeq(a, 1, k) = SubSeq(q, 1, k)
          /\ \A k \in 1..Len(raw) : a[Len(q) + k] = raw[k]
      BY <1>1, <2>5, JoinedPrefixes
    <3> QED BY <2>5, <3>1
  <2>9. ASSUME NEW k \in 1..Len(a) - 1
        PROVE  SubSeq(a, 1, k) \in DOMAIN sys_modules \/ a[k] \notin Importing
    <3>1. CASE k <= n
      <4>1. k \in 1..n
        BY <2>4, <2>8, <3>1
      <4>2. SubSeq(a, 1, k) = SubSeq(q, 1, k) /\ SubSeq(q, 1, k) \in DOMAIN sys_modules
        BY <2>6, <2>8, <4>1
      <4> QED BY <4>2
    <3>2. CASE k > n
      <4> PICK j : j = k - n
        OBVIOUS
      <4>1. j \in 1..Len(raw) - 1 /\ j \in 1..Len(raw) /\ n + j = k
        BY <2>4, <2>8, <3>2
      <4>2. raw[j] \notin Importing
        BY <1>2, <4>1
      <4>3. a[n + j] = raw[j]
        BY <2>8, <4>1
      <4> QED BY <4>1, <4>2, <4>3
    <3> QED BY <2>4, <3>1, <3>2
  <2>10. GoesStraight(a)
    BY <2>9 DEF GoesStraight
  <2> QED BY <1>3, <2>7, <2>10
<1> QED BY <1>4, <1>5

LEMMA StraightFrom ==
  ASSUME ImportInv, StraightInv, top.kind = "body", Instr[1] = "IMPORT_FROM"
  PROVE  GoesStraight(Append(modules[Operand(0)[2]].name, Arg))
<1> PICK x : x = modules[Operand(0)[2]].name
  OBVIOUS
<1> PICK q : q = Append(x, Arg)
  OBVIOUS
<1>1. x \in Seq(Identifiers) /\ Arg \in Identifiers /\ x \in DOMAIN sys_modules
  BY FromModule, NamesTyped DEF ImportInv, CacheClosed
<1>2. Len(q) = Len(x) + 1 /\ Len(x) \in Nat /\ \A k \in 1..Len(x) : SubSeq(q, 1, k) = SubSeq(x, 1, k)
  BY <1>1, GrownPrefixes
<1>3. \A k \in 1..Len(q) - 1 : k \in 1..Len(x)
  BY <1>2
<1>4. GoesStraight(q)
  BY <1>1, <1>2, <1>3 DEF StraightInv, PrefixesCached, GoesStraight
<1> QED BY <1>4

LEMMA StraightParent ==
  ASSUME NEW x \in Seq(Identifiers), Len(x) > 1, GoesStraight(x)
  PROVE  GoesStraight(Parent(x)) /\ Len(Parent(x)) < Len(x)
<1> PICK n : n = Len(x) - 1
  OBVIOUS
<1> PICK q : q = Parent(x)
  OBVIOUS
<1>1. n \in Nat /\ n <= Len(x) /\ n < Len(x) /\ q = SubSeq(x, 1, n)
  BY DEF Parent
<1>2. /\ Len(q) = n /\ \A k \in 1..n : SubSeq(q, 1, k) = SubSeq(x, 1, k) /\ q[k] = x[k]
  BY <1>1, CutPrefixes
<1>3. \A k \in 1..n - 1 : k \in 1..n /\ k \in 1..Len(x) - 1
  BY <1>1
<1>4. GoesStraight(q)
  BY <1>2, <1>3 DEF GoesStraight
<1> QED BY <1>1, <1>2, <1>4

(* The file that is found for a name has its last segment for a stem, or is that of
   a package.                                                                    *)
LEMMA FoundLeaf ==
  ASSUME ImportInv, top.kind = "resolve", NEW parent, NEW file, NEW is_package,
         Founds(parent, file, is_package)
  PROVE  file \in DOMAIN files /\ Leaf(file) \in {"__init__", Leaf(top.name)}
<1> DEFINE T == Identifiers \cup {"__init__"}
<1> PICK name : name = top.name
  OBVIOUS
<1> PICK leaf : leaf = Leaf(name)
  OBVIOUS
<1>1. "__init__" \in T /\ leaf \in T /\ \A x \in Seq(Identifiers) : x \in Seq(T)
  <2>1. name \in Seq(Identifiers) /\ Len(name) \in 1..Len(name)
    BY RequestTyped
  <2>2. leaf \in Identifiers
    BY <2>1 DEF Leaf
  <2> QED BY <2>2, NameOfPath
<1>2. \A d \in Range(sys_path) : d \in Seq(T)
  BY PathTyped
<1> HIDE DEF T
<1>3. file \in DOMAIN files /\ \E d \in Seq(T) : file \in {Append(Join(d, leaf), "__init__"), d \o <<leaf>>}
  <2>1. CASE Len(name) = 1
    <3>1. file \in DOMAIN files /\ \E i \in DOMAIN sys_path :
            file \in {Append(Join(sys_path[i], leaf), "__init__"), sys_path[i] \o <<leaf>>}
      BY <2>1 DEF Founds, Finds, FileIn
    <3>2. \A i \in DOMAIN sys_path : sys_path[i] \in Range(sys_path)
      BY DEF Range
    <3> QED BY <1>2, <3>1, <3>2
  <2>2. CASE Len(name) # 1
    <3> PICK d : d = package_dir_of(parent)
      OBVIOUS
    <3>1. /\ parent \in 1..Len(modules) /\ modules[parent].file # NoPath
          /\ FileIn(<<d>>, leaf, file)
      BY <2>2 DEF Founds, Finds
    <3>2. d \in Seq(T)
      <4> PICK f : f = modules[parent].file
        OBVIOUS
      <4>1. f \in Seq(Identifiers)
        <5>1. modules[parent] \in Records
          BY <3>1, TopFits DEF HeapTyped
        <5> QED BY <5>1 DEF Records
      <4>2. 1 \in Nat /\ 1 <= Len(f)
        BY <3>1, <4>1 DEF NoPath
      <4>3. Parent(f) \in Seq(Identifiers)
        BY <4>1, <4>2, SeqTrim DEF Parent
      <4> QED BY <1>1, <4>3 DEF package_dir_of
    <3> PICK dirs : dirs = <<d>>
      OBVIOUS
    <3>3. DOMAIN dirs = {1} /\ dirs[1] = d
      OBVIOUS
    <3>4. FileIn(dirs, leaf, file)
      BY <3>1
    <3>5. file \in DOMAIN files /\ file \in {Append(Join(d, leaf), "__init__"), d \o <<leaf>>}
      BY <3>3, <3>4 DEF FileIn
    <3> QED BY <3>2, <3>5
  <2> QED BY <2>1, <2>2
<1>4. PICK d \in Seq(T) : file \in {Append(Join(d, leaf), "__init__"), d \o <<leaf>>}
  BY <1>3
<1> PICK e : e = Join(d, leaf)
  OBVIOUS
<1>5. e \in Seq(T)
  BY <1>1, <1>4 DEF Join
<1>6. \A a \in Seq(T), x \in T : Leaf(Append(a, x)) = x
  BY DEF Leaf
<1>7. Leaf(Append(e, "__init__")) = "__init__" /\ Leaf(Append(d, leaf)) = leaf /\ d \o <<leaf>> = Append(d, leaf)
  BY <1>1, <1>4, <1>5, <1>6
<1> QED BY <1>3, <1>4, <1>7

(* A body that begins above a request imports nothing. *)
LEMMA StraightFound ==
  ASSUME ImportInv, StraightInv, top.kind = "resolve", NEW parent, NEW file, NEW is_package,
         Founds(parent, file, is_package), NEW i \in 1..Len(calls) - 1, calls[i].kind = "resolve"
  PROVE  ~Imports_(compile(files[file].body))
<1> PICK n : n = Len(calls)
  OBVIOUS
<1> PICK c : c = calls[n - 1]
  OBVIOUS
<1> PICK name : name = top.name
  OBVIOUS
<1>1. n \in Nat /\ i \in 1..n /\ n - 1 \in 1..n /\ n - 1 \in 1..n - 1 /\ n - 1 + 1 = n
  BY TopFits
<1>2. CallFits(c) /\ Waits(c) /\ name = Asked(c)
  <2>1. CallFits(c)
    BY <1>1 DEF ImportInv, CallsFit
  <2>2. Waits(c) /\ calls[n - 1 + 1].name = Asked(c)
    BY <1>1, TopFits DEF CallsFit
  <2> QED BY <1>1, <2>1, <2>2 DEF top
<1>3. c.kind = "resolve"
  <2> SUFFICES ASSUME c.kind # "resolve"  PROVE FALSE
    OBVIOUS
  <2>1. i < n - 1
    BY <1>1
  <2>2. ~Imports_(c.code)
    BY <1>1, <2>1 DEF StraightInv, Above
  <2>3. c.ip \in 1..Len(c.code) /\ c.code[c.ip][1] \in {"IMPORT_NAME", "IMPORT_FROM"}
    BY <1>2 DEF CallFits, BodyFits, Waits, Opcode, Op
  <2> QED BY <2>2, <2>3 DEF Imports_
<1> PICK w : w = c.name
  OBVIOUS
<1> PICK k : k = Len(w) - 1
  OBVIOUS
<1>4. w \in Seq(Identifiers) /\ name = Parent(w) /\ Len(w) > 1
  BY <1>2, <1>3 DEF CallFits, Requests, Waits, Asked
<1>5. k \in Nat /\ k <= Len(w) /\ k \in 1..k /\ k \in 1..Len(w) - 1 /\ name = SubSeq(w, 1, k)
  BY <1>4 DEF Parent
<1>6. name[k] = w[k] /\ Len(name) = k
  BY <1>4, <1>5, CutPrefixes
<1>7. w[k] \notin Importing
  <2>1. StraightCall(c)
    BY <1>1 DEF StraightInv
  <2>2. GoesStraight(w)
    BY <1>3, <2>1 DEF StraightCall
  <2>3. name \notin DOMAIN sys_modules
    BY DEF Founds, Cached
  <2> QED BY <1>5, <2>2, <2>3 DEF GoesStraight
<1>8. file \in DOMAIN files /\ Leaf(file) \in {"__init__", Leaf(name)}
  BY FoundLeaf
<1>9. Leaf(file) \notin Importing
  BY <1>6, <1>7, <1>8 DEF Leaf, StraightInv, StraightFiles
<1> QED BY <1>8, <1>9 DEF Importing

(* What is in the cache stays in it, and the files stay what they are. *)
LEMMA StraightGrows ==
  ASSUME files' = files, \A n \in DOMAIN sys_modules : n \in DOMAIN sys_modules'
  PROVE  /\ Importing' = Importing /\ (StraightFiles => StraightFiles')
         /\ \A c : StraightCall(c) => StraightCall(c)'
<1>1. Importing' = Importing
  BY DEF Importing, Imports_, Leaf, compile
<1>2. \A name : StraightName(name)' <=> StraightName(name)
  BY <1>1 DEF StraightName
<1>3. \A code : StraightCode(code)' <=> StraightCode(code)
  BY <1>2 DEF StraightCode
<1>4. \A name : GoesStraight(name) => GoesStraight(name)'
  BY <1>1 DEF GoesStraight
<1>5. StraightFiles => StraightFiles'
  BY <1>1, <1>3 DEF StraightFiles, RootsPlain, compile
<1>6. \A c : StraightCall(c) => StraightCall(c)'
  BY <1>3, <1>4 DEF StraightCall
<1> QED BY <1>1, <1>5, <1>6

LEMMA StraightPushed ==
  ASSUME ImportInv, StraightInv, Given, NEW name, CallPushed(name)
  PROVE  /\ GoesStraight(name)
         /\ \A i \in 1..Len(calls) : Above(calls[i], Resolve(name))
<1> PICK n : n = Len(calls)
  OBVIOUS
<1> PICK r : r = Resolve(name)
  OBVIOUS
<1> PICK c : c = top
  OBVIOUS
<1>1. n \in Nat /\ n \in 1..n /\ c = calls[n] /\ r.kind = "resolve" /\ r.name = name
  BY TopFits DEF top, Resolve
<1>2. \A i \in 1..n : i = n \/ (i < n /\ Above(calls[i], c))
  BY <1>1 DEF StraightInv
<1>3. ASSUME Asks(name)  PROVE GoesStraight(name) /\ \A i \in 1..n : Above(calls[i], r)
  <2>1. c.kind = "body" /\ c.ip \in 1..Len(c.code) /\ c.code[c.ip][1] \in {"IMPORT_NAME", "IMPORT_FROM"}
    BY <1>3, Fetched DEF Asks, Opcode, Op
  <2>2. Imports_(c.code)
    BY <2>1 DEF Imports_
  <2>3. \A i \in 1..n : calls[i].kind # "resolve"
    BY <1>1, <1>2, <2>1, <2>2 DEF Above
  <2>4. GoesStraight(name)
    BY <1>3, StraightAbsolute, StraightFrom DEF Asks
  <2> QED BY <2>3, <2>4 DEF Above
<1>4. ASSUME AsksParent(name)  PROVE GoesStraight(name) /\ \A i \in 1..n : Above(calls[i], r)
  <2>1. c.kind = "resolve" /\ Len(c.name) > 1 /\ name = Parent(c.name) /\ c.name \in Seq(Identifiers)
    BY <1>4, RequestTyped DEF AsksParent
  <2>2. GoesStraight(c.name)
    BY <1>1, <2>1 DEF StraightInv, StraightCall
  <2>3. GoesStraight(name) /\ Len(name) < Len(c.name)
    BY <2>1, <2>2, StraightParent
  <2>4. Len(name) \in Nat /\ Len(c.name) \in Nat
    BY <2>1, ParentOf
  <2>5. ASSUME NEW i \in 1..n  PROVE Above(calls[i], r)
    <3> PICK b : b = calls[i]
      OBVIOUS
    <3>1. CASE b.kind = "resolve"
      <4>1. b.name \in Seq(Identifiers)
        BY <3>1 DEF ImportInv, CallsFit, CallFits, Requests
      <4>2. Len(b.name) \in Nat /\ (i = n \/ Len(c.name) < Len(b.name))
        BY <1>2, <2>1, <3>1, <4>1 DEF Above
      <4>3. Len(name) < Len(b.name)
        BY <1>1, <2>3, <2>4, <4>2
      <4> QED BY <1>1, <4>3 DEF Above
    <3>2. CASE b.kind # "resolve"
      BY <3>2 DEF Above
    <3> QED BY <3>1, <3>2
  <2> QED BY <2>3, <2>5
<1> QED BY <1>3, <1>4 DEF CallPushed

(* A step that finds no file. *)
LEMMA StraightStands ==
  ASSUME ImportInv, ImportInv', StraightInv, Given, files' = files, Stands, Moves
  PROVE  StraightInv'
<1> PICK n : n = Len(calls)
  OBVIOUS
<1>1. n \in Nat /\ n \in 1..n /\ Len(calls') \in Nat /\ DOMAIN calls' = 1..Len(calls')
  BY TopFits DEF ImportInv, CallsFit
<1>2. StraightFiles' /\ \A c : StraightCall(c) => StraightCall(c)'
  BY StraightGrows DEF Stands, StraightInv
<1>3. \A c, d : Alike(d, c) /\ StraightCall(c) => StraightCall(d)
  BY DEF Alike, StraightCall
<1>4. \A b, c, d, e : Alike(d, b) /\ Alike(e, c) /\ Above(b, c) => Above(d, e)
  BY DEF Alike, Above
<1>5. \A c, d, e : Alike(d, c) /\ Above(c, e) => Above(d, e)
  BY DEF Alike, Above
<1>6. ASSUME NEW i \in 1..n, NEW d, Alike(d, calls[i]), d.kind = "resolve", d.waiting
      PROVE  d.name \notin DOMAIN sys_modules
  <2> PICK c : c = calls[i]
    OBVIOUS
  <2>1. c.kind = "resolve" /\ d.name = c.name /\ (c.waiting \/ ~Cached(c.name))
    BY <1>6 DEF Alike
  <2>2. DOMAIN calls = 1..n
    BY TopFits
  <2>3. c.waiting => c.name \notin DOMAIN sys_modules
    BY <2>1, <2>2 DEF StraightInv, NotOvertaken
  <2> QED BY <2>1, <2>3 DEF Cached
<1>7. ASSUME CallsKept
      PROVE  /\ \A i \in 1..Len(calls') : StraightCall(calls'[i])
             /\ \A i, j \in 1..Len(calls') : i < j => Above(calls'[i], calls'[j])
             /\ \A i \in 1..Len(calls') :
                  calls'[i].kind = "resolve" /\ calls'[i].waiting => calls'[i].name \notin DOMAIN sys_modules
  <2>1. \A i \in 1..Len(calls') : i \in 1..n /\ Alike(calls'[i], calls[i])
    BY <1>7 DEF CallsKept
  <2>2. \A i \in 1..Len(calls') : StraightCall(calls'[i])
    BY <1>3, <2>1 DEF StraightInv
  <2>3. \A i, j \in 1..Len(calls') : i < j => Above(calls'[i], calls'[j])
    BY <1>4, <2>1 DEF StraightInv
  <2>4. \A i \in 1..Len(calls') :
          calls'[i].kind = "resolve" /\ calls'[i].waiting => calls'[i].name \notin DOMAIN sys_modules
    BY <1>6, <2>1
  <2> QED BY <2>2, <2>3, <2>4
<1>8. ASSUME NEW name, CallPushed(name)
      PROVE  /\ \A i \in 1..Len(calls') : StraightCall(calls'[i])
             /\ \A i, j \in 1..Len(calls') : i < j => Above(calls'[i], calls'[j])
             /\ \A i \in 1..Len(calls') :
                  calls'[i].kind = "resolve" /\ calls'[i].waiting => calls'[i].name \notin DOMAIN sys_modules
  <2> PICK r : r = Resolve(name)
    OBVIOUS
  <2>1. /\ Len(calls') = n + 1 /\ calls'[n + 1] = r
        /\ \A i \in 1..n : Alike(calls'[i], calls[i])
    BY <1>8 DEF CallPushed
  <2>2. /\ \A i \in 1..n + 1 : i \in 1..n \/ i = n + 1
        /\ \A i, j \in 1..n + 1 : i < j => i \in 1..n
    BY <1>1
  <2>3. StraightCall(r) /\ ~r.waiting /\ \A i \in 1..n : Above(calls[i], r)
    <3>1. GoesStraight(name) /\ \A i \in 1..n : Above(calls[i], r)
      BY <1>8, StraightPushed
    <3> QED BY <3>1 DEF StraightCall, Resolve
  <2>4. \A i \in 1..n + 1 : StraightCall(calls'[i])
    BY <1>3, <2>1, <2>2, <2>3 DEF StraightInv
  <2>5. \A i, j \in 1..n + 1 : i < j => Above(calls'[i], calls'[j])
    <3> SUFFICES ASSUME NEW i \in 1..n + 1, NEW j \in 1..n + 1, i < j
                 PROVE  Above(calls'[i], calls'[j])
      OBVIOUS
    <3>1. i \in 1..n
      BY <2>2
    <3>2. CASE j \in 1..n
      BY <1>4, <2>1, <3>1, <3>2 DEF StraightInv
    <3>3. CASE j = n + 1
      BY <1>5, <2>1, <2>3, <3>1, <3>3
    <3> QED BY <2>2, <3>2, <3>3
  <2>6. \A i \in 1..n + 1 :
          calls'[i].kind = "resolve" /\ calls'[i].waiting => calls'[i].name \notin DOMAIN sys_modules
    BY <1>6, <2>1, <2>2, <2>3
  <2> QED BY <2>1, <2>4, <2>5, <2>6
<1>9. /\ \A i \in 1..Len(calls') : StraightCall(calls'[i])
      /\ \A i, j \in 1..Len(calls') : i < j => Above(calls'[i], calls'[j])
      /\ \A i \in 1..Len(calls') :
           calls'[i].kind = "resolve" /\ calls'[i].waiting => calls'[i].name \notin DOMAIN sys_modules
  BY <1>7, <1>8, CallsMoved
<1>10. \A i \in 1..Len(calls') : \A c : c = calls'[i] => StraightCall(c)'
  BY <1>2, <1>9
<1>13. \A i, j \in 1..Len(calls') : i < j => Above(calls'[i], calls'[j])
  BY <1>9
<1>11. NotOvertaken'
  BY <1>1, <1>9 DEF NotOvertaken, Stands
<1>12. PrefixesCached' /\ NoEmptyName'
  BY DEF StraightInv, PrefixesCached, NoEmptyName, Stands
<1> QED BY <1>2, <1>10, <1>11, <1>12, <1>13
     DEF StraightInv, StraightCall, GoesStraight, StraightCode, StraightName, Above, Imports_

(* A request that finds its file. *)
LEMMA StraightCached ==
  ASSUME ImportInv, StraightInv, top.kind = "resolve", NEW parent, NEW file, NEW is_package,
         Founds(parent, file, is_package)
  PROVE  PrefixesCached' /\ NoEmptyName'
<1> PICK N : N = Len(modules)
  OBVIOUS
<1> PICK name : name = top.name
  OBVIOUS
<1> PICK p : p = Parent(name)
  OBVIOUS
<1>1. Begin(top.name, parent, file, is_package)
  BY DEF Founds, Finds
<1>2. name \in Seq(Identifiers) /\ Len(name) \in Nat /\ Len(name) > 0
  BY RequestTyped
<1>3. Len(name) > 1 <=> Len(name) # 1
  BY <1>2, MoreThanOne
<1>4. DOMAIN sys_modules' = DOMAIN sys_modules \cup {name}
  <2>1. sys_modules' = Insert(sys_modules, name, N + 1)
    BY <1>1, Begun
  <2> QED BY <2>1 DEF Insert
<1>5. Len(name) > 1 => p \in DOMAIN sys_modules
  <2> SUFFICES ASSUME Len(name) > 1  PROVE p \in DOMAIN sys_modules
    OBVIOUS
  <2>1. Len(top.name) # 1
    BY <1>3
  <2>2. parent \in 1..N /\ modules[parent].name = p
    BY <2>1 DEF Founds, Finds
  <2> QED BY <2>2 DEF ImportInv, CacheClosed
<1>6. ASSUME NEW k \in 1..Len(name)  PROVE SubSeq(name, 1, k) \in DOMAIN sys_modules'
  <2>1. CASE k = Len(name)
    BY <1>2, <1>4, <2>1, WholePrefix
  <2>2. CASE k # Len(name)
    <3>1. k \in 1..Len(name) - 1 /\ Len(name) > 1
      BY <1>2, <2>2
    <3>2. Len(p) = Len(name) - 1 /\ SubSeq(p, 1, k) = SubSeq(name, 1, k)
      BY <1>2, <3>1, ParentOf
    <3>3. k \in 1..Len(p)
      BY <3>1, <3>2
    <3>4. SubSeq(p, 1, k) \in DOMAIN sys_modules
      BY <1>5, <3>1, <3>3 DEF StraightInv, PrefixesCached
    <3> QED BY <1>4, <3>2, <3>4
  <2> QED BY <2>1, <2>2
<1>7. PrefixesCached'
  <2>1. \A n \in DOMAIN sys_modules : \A k \in 1..Len(n) : SubSeq(n, 1, k) \in DOMAIN sys_modules'
    BY <1>4 DEF StraightInv, PrefixesCached
  <2> QED BY <1>4, <1>6, <2>1 DEF PrefixesCached
<1>8. name # <<Empty>>
  <2> SUFFICES ASSUME name = <<Empty>>  PROVE FALSE
    OBVIOUS
  <2> PICK leaf : leaf = Leaf(name)
    OBVIOUS
  <2>1. Len(name) = 1 /\ leaf = Empty
    BY DEF Leaf
  <2>2. FileIn(sys_path, leaf, file)
    BY <2>1 DEF Founds, Finds
  <2>3. file \in DOMAIN files /\ \E i \in DOMAIN sys_path :
          file \in {Append(sys_path[i], "__init__"), sys_path[i] \o <<Empty>>}
    BY <2>1, <2>2 DEF FileIn, Join
  <2>4. \A i \in DOMAIN sys_path : sys_path[i] \in Range(sys_path)
    BY DEF Range
  <2> QED BY <2>3, <2>4 DEF StraightInv, StraightFiles, RootsPlain
<1>9. NoEmptyName'
  BY <1>4, <1>8 DEF StraightInv, NoEmptyName
<1> QED BY <1>7, <1>9

LEMMA StraightFounds ==
  ASSUME ImportInv, ImportInv', StraightInv, files' = files, top.kind = "resolve",
         NEW parent, NEW file, NEW is_package, Founds(parent, file, is_package)
  PROVE  StraightInv'
<1> PICK n : n = Len(calls)
  OBVIOUS
<1> PICK name : name = top.name
  OBVIOUS
<1> PICK d : d = Body(name, Len(modules) + 1, parent, files[file].body)
  OBVIOUS
<1>1. n \in Nat /\ n \in 1..n /\ DOMAIN calls' = 1..Len(calls') /\ DOMAIN calls = 1..n
  BY TopFits DEF ImportInv, CallsFit
<1>2. Len(calls') = n /\ calls'[n] = d /\ \A i \in 1..n : i # n => calls'[i] = calls[i]
  BY CallsFound DEF Founds, Finds
<1>3. DOMAIN sys_modules' = DOMAIN sys_modules \cup {name}
  <2>1. sys_modules' = Insert(sys_modules, name, Len(modules) + 1)
    BY Begun DEF Founds, Finds
  <2> QED BY <2>1 DEF Insert
<1>4. StraightFiles' /\ \A c : StraightCall(c) => StraightCall(c)'
  BY <1>3, StraightGrows DEF StraightInv
<1>5. d.kind = "body" /\ d.code = compile(files[file].body)
  BY DEF Body
<1>6. StraightCall(d)
  <2>1. file \in DOMAIN files
    BY FoundLeaf
  <2> QED BY <1>5, <2>1 DEF StraightCall, StraightInv, StraightFiles
<1>7. ASSUME NEW i \in 1..n, i < n  PROVE Above(calls[i], d)
  <2>1. i \in 1..n - 1
    BY <1>1, <1>7
  <2>2. calls[i].kind = "resolve" => ~Imports_(d.code)
    BY <1>5, <2>1, StraightFound
  <2> QED BY <1>5, <2>2 DEF Above
<1>8. \A i \in 1..n : StraightCall(calls'[i])
  BY <1>2, <1>6 DEF StraightInv
<1>9. \A i, j \in 1..n : i < j => Above(calls'[i], calls'[j])
  <2> SUFFICES ASSUME NEW i \in 1..n, NEW j \in 1..n, i < j
               PROVE  Above(calls'[i], calls'[j])
    OBVIOUS
  <2>1. i # n /\ i < n
    BY <1>1
  <2>2. CASE j = n
    BY <1>2, <1>7, <2>1, <2>2
  <2>3. CASE j # n
    BY <1>2, <2>1, <2>3 DEF StraightInv
  <2> QED BY <2>2, <2>3
<1>10. ASSUME NEW i \in 1..n, calls'[i].kind = "resolve", calls'[i].waiting
       PROVE  calls'[i].name \notin DOMAIN sys_modules'
  <2> PICK c : c = calls[i]
    OBVIOUS
  <2>1. i # n /\ i < n /\ calls'[i] = c /\ c.kind = "resolve" /\ c.waiting
    BY <1>1, <1>2, <1>5, <1>10
  <2>2. c.name \notin DOMAIN sys_modules
    BY <1>1, <2>1 DEF StraightInv, NotOvertaken
  <2>3. Len(name) < Len(c.name)
    <3>1. Above(c, top)
      BY <1>1, <2>1 DEF StraightInv, top
    <3> QED BY <2>1, <3>1 DEF Above
  <2>4. Len(name) \in Nat
    BY RequestTyped
  <2>5. c.name # name
    <3> SUFFICES ASSUME c.name = name  PROVE FALSE
      OBVIOUS
    <3>1. Len(name) < Len(name)
      BY <2>3
    <3> QED BY <2>4, <3>1
  <2> QED BY <1>3, <2>1, <2>2, <2>5
<1>11. \A i \in 1..Len(calls') : \A c : c = calls'[i] => StraightCall(c)'
  BY <1>2, <1>4, <1>8
<1>12. \A i, j \in 1..Len(calls') : i < j => Above(calls'[i], calls'[j])
  BY <1>2, <1>9
<1>13. NotOvertaken'
  BY <1>1, <1>2, <1>10 DEF NotOvertaken
<1>14. PrefixesCached' /\ NoEmptyName'
  BY StraightCached
<1> QED BY <1>4, <1>11, <1>12, <1>13, <1>14
     DEF StraightInv, StraightCall, GoesStraight, StraightCode, StraightName, Above, Imports_

LEMMA StraightStep ==
  ImportInv /\ ImportInv' /\ StraightInv /\ OrdinaryInv /\ PackageInv /\ [Next]_vars => StraightInv'
<1> SUFFICES ASSUME ImportInv, ImportInv', StraightInv, OrdinaryInv, PackageInv, [Next]_vars
             PROVE  StraightInv'
  OBVIOUS
<1>1. files' = files
  BY FilesStand
<1>2. \/ Stands /\ Moves
      \/ top.kind = "resolve" /\ \E parent, file, is_package : Founds(parent, file, is_package)
  BY FoundsOrStands DEF StraightInv
<1>3. Given
  BY NotRebound
<1> QED BY <1>1, <1>2, <1>3, StraightStands, StraightFounds

LEMMA StraightStart ==
  ASSUME Start, StraightFiles, StraightScript
  PROVE  StraightInv
<1>1. PICK script \in Seq(Statements) : InitWith(files, script)
  BY DEF Start
<1> PICK b : b = Body(<< >>, 0, 0, script)
  OBVIOUS
<1>2. modules = <<Sys>> /\ DOMAIN sys_modules = {<<"sys">>} /\ calls = <<b>>
  BY <1>1 DEF InitWith
<1>3. Len(modules) = 1 /\ modules[1] = Sys /\ Len(calls) = 1 /\ calls[1] = b /\ 1..1 = {1}
      /\ DOMAIN calls = {1} /\ b.kind = "body" /\ b.kind # "resolve"
  BY <1>2 DEF Body
<1>4. NoEmptyName
  <2>1. <<Empty>> # <<"sys">>
    BY DEF Empty
  <2> QED BY <1>2, <2>1 DEF NoEmptyName
<1>5. PrefixesCached
  <2> PICK x : x = <<"sys">>
    OBVIOUS
  <2>1. Len(x) = 1 /\ SubSeq(x, 1, 1) = x
    <3>1. x \in Seq(Identifiers) /\ Len(x) = 1
      BY DEF Identifiers
    <3> QED BY <3>1, WholePrefix
  <2> QED BY <1>2, <1>3, <2>1 DEF PrefixesCached
<1>6. NotOvertaken
  BY <1>3 DEF NotOvertaken
<1>7. \A i \in 1..Len(calls) : StraightCall(calls[i])
  BY <1>3 DEF StraightCall, StraightScript
<1>8. \A i, j \in 1..Len(calls) : i < j => Above(calls[i], calls[j])
  BY <1>3
<1> QED BY <1>4, <1>5, <1>6, <1>7, <1>8 DEF StraightInv

(* No name enters the cache while a request for it waits for its parent package,
   where no package's __init__ imports anything and no import goes through a file
   that does, the directories of sys.path are no packages, and nobody binds
   __package__.                                                                  *)
THEOREM NeverOvertaken ==
  ImportSpec /\ StraightFiles /\ StraightScript /\ OrdinaryFiles /\ OrdinaryScript => []NotOvertaken
<1>1. Start /\ StraightFiles /\ StraightScript => StraightInv
  BY StraightStart
<1>2. Start /\ OrdinaryFiles /\ OrdinaryScript => OrdinaryInv
  BY OrdinaryStart
<1>3. StraightInv => NotOvertaken
  BY DEF StraightInv
<1>4. ImportInv /\ StraightInv /\ PackageInv /\ OrdinaryInv /\ [Next]_vars => OrdinaryInv'
  BY <1>3, OrdinaryStep
<1> QED BY <1>1, <1>2, <1>3, <1>4, ImportInvAlways, PackageAlways, StraightStep, PTL DEF ImportSpec

(* There the cache is one of module ModuleCache whatever is imported, and what
   follows from that holds.                                                     *)
COROLLARY StraightImports ==
  ImportSpec /\ StraightFiles /\ StraightScript /\ OrdinaryFiles /\ OrdinaryScript =>
    CacheImplemented /\ []NameLoadedOnce /\ []SubmodulesBound
BY NeverOvertaken, CacheAlwaysImplemented, AlwaysOneModuleOfAName, SubmodulesAlwaysBound, PTL
=============================================================================
