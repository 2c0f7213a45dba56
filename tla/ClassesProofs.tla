---------------------------- MODULE ClassesProofs ----------------------------
(***************************************************************************)
(* For every hierarchy of classes: isinstance and issubclass are right, and *)
(* so is what attribute access finds.                                       *)
(***************************************************************************)
EXTENDS Classes, SequenceTheorems, WellFoundedInduction, TLAPS

Bases == Seq(Nat \cup Others)
Record == [written : Bases, bases : Bases, mro : Seq(Nat), attrs : SUBSET Names]
Statement == [statement : {TRUE}, written : Bases, bases : Bases, attrs : SUBSET Names,
              base : Nat \ {0}, next : Nat \ {0}, mro : Seq(Nat)]

InSeq(s) == {s[k] : k \in DOMAIN s}
OrderOf(c) == InSeq(classes[c].mro)
BasesOf(c) == InSeq(classes[c].written) \ Others

(* What is true of the order of each class.  The last conjunct makes the     *)
(* order the least set that is closed under bases; it speaks of every set of *)
(* classes, so that it is kept when a class is added.                        *)
OrderSound(c) ==
  /\ BasesOf(c) \subseteq 1 .. c - 1
  /\ 1 \in DOMAIN classes[c].mro /\ classes[c].mro[1] = c
  /\ OrderOf(c) \subseteq 1 .. c
  /\ Distinct(classes[c].mro)
  /\ \A d \in OrderOf(c) : BasesOf(d) \subseteq OrderOf(c)
  /\ \A S \in SUBSET DOMAIN classes : c \in S /\ Closed(S) => OrderOf(c) \subseteq S

Orders == classes \in Seq(Record) /\ \A c \in DOMAIN classes : OrderSound(c)

(* What is true in the middle of a linearization: it holds the orders of the *)
(* bases that are done, and of the one it is at as far as it has come.       *)
Gathered == InSeq(building.mro)
RealOf(s) == InSeq(s) \ Others
Halfway ==
  /\ building \in Statement
  /\ building.bases = building.written
  /\ RealOf(building.bases) \subseteq DOMAIN classes
  /\ Distinct(building.mro)
  /\ \A i \in DOMAIN building.bases :
       i < building.base /\ building.bases[i] \notin Others
         => OrderOf(building.bases[i]) \subseteq Gathered
  /\ building.base \in DOMAIN building.bases =>
       \A k \in DOMAIN BaseOrder : k < building.next => BaseOrder[k] \in Gathered
  /\ Gathered \subseteq UNION {OrderOf(b) : b \in RealOf(building.bases)}

Inv == Orders /\ (building # Idle => Halfway)

----------------------------------------------------------------------------
LEMMA Numbered ==
  ASSUME classes \in Seq(Record)
  PROVE  /\ Len(classes) \in Nat /\ DOMAIN classes = 1 .. Len(classes)
         /\ \A c \in DOMAIN classes : classes[c] \in Record
OBVIOUS

(* The bases by Closed and by BasesOf.                                      *)
LEMMA ClosedIs ==
  ASSUME NEW S
  PROVE  Closed(S) <=> \A c \in S : BasesOf(c) \subseteq S
BY DEF Closed, BasesOf, InSeq

(* A step that changes nothing but attributes.                              *)
LEMMA OrdersKept ==
  ASSUME Orders, classes' \in Seq(Record), DOMAIN classes' = DOMAIN classes,
         \A c \in DOMAIN classes :
           classes'[c].written = classes[c].written /\ classes'[c].mro = classes[c].mro
  PROVE  Orders'
<1>1. SUFFICES ASSUME NEW c \in DOMAIN classes PROVE OrderSound(c)'
  BY DEF Orders
<1>2. OrderSound(c) /\ OrderOf(c) \subseteq DOMAIN classes
  <2>1. OrderSound(c)
    BY DEF Orders
  <2>2. 1 .. c \subseteq DOMAIN classes
    BY Numbered DEF Orders
  <2> QED BY <2>1, <2>2 DEF OrderSound
<1>3. \A d \in DOMAIN classes : BasesOf(d)' = BasesOf(d) /\ OrderOf(d)' = OrderOf(d)
  BY DEF BasesOf, OrderOf, InSeq
<1>4. \A S \in SUBSET DOMAIN classes : Closed(S)' = Closed(S)
  BY DEF Closed
<1> QED BY <1>2, <1>3, <1>4 DEF OrderSound, Distinct

(* The number of a class is known from its place.                           *)
LEMMA OrdersAreClasses ==
  ASSUME Orders, NEW c \in DOMAIN classes
  PROVE  /\ OrderSound(c) /\ OrderOf(c) \subseteq DOMAIN classes
         /\ classes[c].mro \in Seq(Nat) /\ c \in OrderOf(c)
<1>1. OrderSound(c) /\ classes[c] \in Record /\ DOMAIN classes = 1 .. Len(classes)
  BY Numbered DEF Orders
<1>2. classes[c].mro \in Seq(Nat)
  BY <1>1 DEF Record
<1>3. 1 .. c \subseteq DOMAIN classes
  BY <1>1, Numbered DEF Orders
<1>4. c \in OrderOf(c)
  BY <1>1 DEF OrderSound, OrderOf, InSeq
<1> QED BY <1>1, <1>2, <1>3, <1>4 DEF OrderSound

(* Where a linearization is: at the order of a class that is a base.         *)
LEMMA AtBase ==
  ASSUME Orders, Halfway, building.base \in DOMAIN building.bases
  PROVE  /\ BaseOrder \in Seq(Nat)
         /\ InSeq(BaseOrder) \subseteq UNION {OrderOf(b) : b \in RealOf(building.bases)}
         /\ Base \notin Others => BaseOrder = classes[Base].mro
<1>1. CASE Base \in Others
  BY <1>1 DEF BaseOrder, InSeq
<1>2. CASE Base \notin Others
  <2>1. Base \in RealOf(building.bases)
    BY <1>2 DEF Base, RealOf, InSeq
  <2>2. Base \in DOMAIN classes
    BY <2>1 DEF Halfway
  <2>3. BaseOrder = classes[Base].mro
    BY <1>2 DEF BaseOrder
  <2>4. InSeq(BaseOrder) = OrderOf(Base)
    BY <2>3 DEF OrderOf
  <2>5. BaseOrder \in Seq(Nat)
    BY <2>2, <2>3, OrdersAreClasses
  <2> QED BY <2>1, <2>3, <2>4, <2>5
<1> QED BY <1>1, <1>2

(* What a step of a linearization leaves of the statement.                   *)
LEMMA Counted ==
  ASSUME NEW r \in Statement, NEW n \in Nat \ {0}
  PROVE  /\ [r EXCEPT !.next = n] \in Statement /\ [r EXCEPT !.next = n].next = n
         /\ [r EXCEPT !.next = n].base = r.base /\ [r EXCEPT !.next = n].mro = r.mro
         /\ [r EXCEPT !.next = n].bases = r.bases /\ [r EXCEPT !.next = n].written = r.written
<1>1. [r EXCEPT !.next = n] \in Statement
  BY DEF Statement
<1> QED BY <1>1 DEF Statement

LEMMA Passed ==
  ASSUME NEW r \in Statement, NEW n \in Nat \ {0}
  PROVE  /\ [r EXCEPT !.base = n] \in Statement /\ [r EXCEPT !.base = n].base = n
         /\ [r EXCEPT !.base = n].next = r.next /\ [r EXCEPT !.base = n].mro = r.mro
         /\ [r EXCEPT !.base = n].bases = r.bases /\ [r EXCEPT !.base = n].written = r.written
<1>1. [r EXCEPT !.base = n] \in Statement
  BY DEF Statement
<1> QED BY <1>1 DEF Statement

LEMMA Ordered ==
  ASSUME NEW r \in Statement, NEW s \in Seq(Nat)
  PROVE  /\ [r EXCEPT !.mro = s] \in Statement /\ [r EXCEPT !.mro = s].mro = s
         /\ [r EXCEPT !.mro = s].next = r.next /\ [r EXCEPT !.mro = s].base = r.base
         /\ [r EXCEPT !.mro = s].bases = r.bases /\ [r EXCEPT !.mro = s].written = r.written
<1>1. [r EXCEPT !.mro = s] \in Statement
  BY DEF Statement
<1> QED BY <1>1 DEF Statement

----------------------------------------------------------------------------
LEMMA InvInit == ClassInit => Inv
<1> SUFFICES ASSUME ClassInit PROVE Inv
  OBVIOUS
<1>1. classes = <<>> /\ building = Idle
  BY DEF ClassInit
<1>2. classes \in Seq(Record) /\ DOMAIN classes = {}
  BY <1>1
<1> QED BY <1>1, <1>2 DEF Inv, Orders

LEMMA StepBegin ==
  ASSUME Inv, NEW bases \in BaseLists, NEW names \in SUBSET Names, NEW nones \in SUBSET names,
         BUILD_CLASS(bases, names, nones)
  PROVE  Inv'
<1>1. classes' = classes /\ building' = [statement |-> TRUE, written |-> bases, bases |-> bases,
        attrs |-> names \ (nones \ {"__init__"}), base |-> 1, next |-> 1, mro |-> <<>>]
  BY DEF BUILD_CLASS, Begin
<1>2. Orders /\ DOMAIN classes \subseteq Nat
  BY Numbered DEF Inv, Orders
<1>3. Orders'
  BY <1>1, <1>2, OrdersKept DEF Orders
<1>4. bases \in Seq(DOMAIN classes \cup Others) /\ InSeq(bases) \subseteq DOMAIN classes \cup Others
  <2>1. CASE bases \in UNION {[1 .. n -> DOMAIN classes] : n \in 0 .. MaxBases}
    BY <2>1, ClassAssumption DEF InSeq
  <2>2. CASE bases \in {<<other>> : other \in Others}
    <3>1. PICK other \in Others : bases = <<other>>
      BY <2>2
    <3>2. DOMAIN bases = {1} /\ bases[1] = other
      BY <3>1
    <3>3. <<other>> \in Seq(DOMAIN classes \cup Others)
      BY <3>1
    <3> QED BY <3>1, <3>2, <3>3 DEF InSeq
  <2> QED BY <2>1, <2>2 DEF BaseLists
<1>5. bases \in Bases
  BY <1>2, <1>4 DEF Bases
<1>6. building' \in Statement
  BY <1>1, <1>5 DEF Statement
<1>7. RealOf(bases) \subseteq DOMAIN classes
  BY <1>4 DEF RealOf
<1>8. Halfway'
  <2>1. building'.mro = <<>> /\ building'.base = 1 /\ building'.next = 1
        /\ building'.bases = bases /\ building'.written = bases
    BY <1>1
  <2>2. Distinct(building'.mro) /\ InSeq(building'.mro) = {}
    BY <2>1 DEF Distinct, InSeq
  <2>3. RealOf(building'.bases) \subseteq DOMAIN classes'
    BY <2>1, <1>1, <1>7
  <2>4. \A i \in DOMAIN bases : ~(i < 1)
    BY <1>5 DEF Bases
  <2>5. ASSUME 1 \in DOMAIN bases
        PROVE  \A k \in DOMAIN BaseOrder' : ~(k < 1)
    <3>1. BaseOrder' = IF bases[1] \in Others THEN <<>> ELSE classes[bases[1]].mro
      BY <1>1, <2>1 DEF BaseOrder, Base
    <3>2. CASE bases[1] \in Others
      BY <3>1, <3>2
    <3>3. CASE bases[1] \notin Others
      <4>1. bases[1] \in DOMAIN classes
        BY <2>5, <3>3, <1>4 DEF InSeq
      <4>2. classes[bases[1]].mro \in Seq(Nat)
        BY <1>2, <4>1, OrdersAreClasses
      <4> QED BY <3>1, <3>3, <4>2
    <3> QED BY <3>2, <3>3
  <2> QED BY <1>6, <2>1, <2>2, <2>3, <2>4, <2>5 DEF Halfway, Gathered
<1> QED BY <1>3, <1>8 DEF Inv

LEMMA StepNextBase == ASSUME Inv, NextBase PROVE Inv'
<1>1. classes' = classes /\ building' = [building EXCEPT !.base = @ + 1, !.next = 1]
      /\ building # Idle /\ building.base <= Len(building.bases) /\ building.next > Len(BaseOrder)
  BY DEF NextBase, Linearizing, Merged
<1>2. Orders /\ Halfway
  BY <1>1 DEF Inv
<1>3. Orders'
  BY <1>1, <1>2, OrdersKept DEF Orders
<1>4. building \in Statement /\ building.bases \in Seq(Nat \cup Others)
  BY <1>2 DEF Halfway, Statement, Bases
<1>5. building.base \in DOMAIN building.bases
  BY <1>1, <1>4 DEF Statement
<1>6. BaseOrder \in Seq(Nat) /\ (Base \notin Others => BaseOrder = classes[Base].mro)
  BY <1>2, <1>5, AtBase
<1>7. \A k \in DOMAIN BaseOrder : BaseOrder[k] \in Gathered
  BY <1>1, <1>2, <1>4, <1>5, <1>6 DEF Halfway, Statement
<1>8. Base \notin Others => OrderOf(Base) \subseteq Gathered
  BY <1>6, <1>7 DEF OrderOf, InSeq
<1>9. /\ building'.mro = building.mro /\ building'.bases = building.bases
      /\ building'.written = building.written /\ building'.base = building.base + 1
      /\ building'.next = 1 /\ building' \in Statement
  <2> DEFINE up == [building EXCEPT !.base = @ + 1]
  <2>1. up \in Statement /\ up.mro = building.mro /\ up.bases = building.bases
        /\ up.written = building.written /\ up.base = building.base + 1
    <3>1. building.base + 1 \in Nat \ {0}
      BY <1>4 DEF Statement
    <3> QED BY <1>4, <3>1, Passed
  <2>2. building' = [up EXCEPT !.next = 1]
    BY <1>1
  <2> HIDE DEF up
  <2> QED BY <2>1, <2>2, Counted
<1>10. Gathered' = Gathered /\ \A b : OrderOf(b)' = OrderOf(b)
  BY <1>1, <1>9 DEF Gathered, OrderOf, InSeq
<1>11. ASSUME NEW i \in DOMAIN building.bases, i < building.base + 1,
              building.bases[i] \notin Others
       PROVE  OrderOf(building.bases[i]) \subseteq Gathered
  <2>1. i \in Nat /\ building.base \in Nat
    BY <1>4 DEF Statement
  <2>2. CASE i < building.base
    BY <1>2, <1>11, <2>2 DEF Halfway
  <2>3. CASE i = building.base
    BY <1>8, <1>11, <2>3 DEF Base
  <2> QED BY <1>11, <2>1, <2>2, <2>3
<1>12. ASSUME building.base + 1 \in DOMAIN building.bases
       PROVE  \A k \in DOMAIN BaseOrder' : ~(k < 1)
  <2> DEFINE b == building.bases[building.base + 1]
  <2>1. BaseOrder' = IF b \in Others THEN <<>> ELSE classes[b].mro
    BY <1>1, <1>9 DEF BaseOrder, Base
  <2>2. CASE b \in Others
    BY <2>1, <2>2
  <2>3. CASE b \notin Others
    <3>1. b \in DOMAIN classes
      BY <1>2, <1>12, <2>3 DEF Halfway, RealOf, InSeq
    <3>2. classes[b].mro \in Seq(Nat)
      BY <1>2, <3>1, OrdersAreClasses
    <3> QED BY <2>1, <2>3, <3>2
  <2> QED BY <2>2, <2>3
<1>13. Halfway'
  <2>1. RealOf(building'.bases) \subseteq DOMAIN classes' /\ Distinct(building'.mro)
        /\ building'.bases = building'.written
    BY <1>1, <1>2, <1>9 DEF Halfway
  <2>2. Gathered' \subseteq UNION {OrderOf(b)' : b \in RealOf(building'.bases)}
    BY <1>2, <1>9, <1>10 DEF Halfway
  <2> QED BY <1>9, <1>10, <1>11, <1>12, <2>1, <2>2 DEF Halfway
<1> QED BY <1>3, <1>13 DEF Inv

LEMMA StepMerge == ASSUME Inv, Merge PROVE Inv'
<1> DEFINE m == BaseOrder[building.next]
           longer == IF In(m, building.mro) THEN building.mro ELSE Append(building.mro, m)
<1>1. classes' = classes /\ building # Idle /\ building.base <= Len(building.bases)
      /\ building' = [building EXCEPT !.next = @ + 1,
                        !.mro = IF In(m, @) THEN @ ELSE Append(@, m)]
      /\ ~(building.next > Len(BaseOrder))
  BY DEF Merge, Linearizing, Merged
<1>2. Orders /\ Halfway
  BY <1>1 DEF Inv
<1>3. Orders'
  BY <1>1, <1>2, OrdersKept DEF Orders
<1>4. building \in Statement /\ building.bases \in Seq(Nat \cup Others)
      /\ building.mro \in Seq(Nat) /\ building.base \in Nat \ {0} /\ building.next \in Nat \ {0}
  BY <1>2 DEF Halfway, Statement, Bases
<1>5. building.base \in DOMAIN building.bases
  BY <1>1, <1>4
<1>6. BaseOrder \in Seq(Nat)
      /\ InSeq(BaseOrder) \subseteq UNION {OrderOf(b) : b \in RealOf(building.bases)}
  BY <1>2, <1>5, AtBase
<1>7. building.next \in DOMAIN BaseOrder /\ m \in Nat /\ m \in InSeq(BaseOrder)
  BY <1>1, <1>4, <1>6 DEF InSeq
<1> HIDE DEF m
<1>8. longer \in Seq(Nat) /\ InSeq(longer) = Gathered \cup {m} /\ Distinct(longer)
  <2>1. Distinct(building.mro)
    BY <1>2 DEF Halfway
  <2>2. CASE In(m, building.mro)
    BY <1>4, <2>1, <2>2 DEF In, InSeq, Gathered
  <2>3. CASE ~In(m, building.mro)
    <3> DEFINE s == building.mro
    <3>1. s \in Seq(Nat) /\ Distinct(s) /\ (\A k \in DOMAIN s : s[k] # m) /\ Gathered = InSeq(s)
      BY <1>4, <2>1, <2>3 DEF In, Gathered
    <3>2. longer = Append(s, m)
      BY <2>3
    <3> HIDE DEF s
    <3>3. Append(s, m) \in Seq(Nat) /\ DOMAIN Append(s, m) = DOMAIN s \cup {Len(s) + 1}
          /\ Append(s, m)[Len(s) + 1] = m /\ \A k \in DOMAIN s : Append(s, m)[k] = s[k]
      BY <3>1, <1>7
    <3>4. Distinct(Append(s, m))
      BY <3>1, <3>3 DEF Distinct
    <3>5. InSeq(Append(s, m)) = InSeq(s) \cup {m}
      BY <3>3 DEF InSeq
    <3> HIDE DEF longer
    <3> QED BY <3>1, <3>2, <3>3, <3>4, <3>5
  <2> QED BY <2>2, <2>3
<1>9. building' = [[building EXCEPT !.next = @ + 1] EXCEPT !.mro = longer]
  BY <1>1
<1> HIDE DEF longer
<1>10. /\ building'.mro = longer /\ building'.bases = building.bases
       /\ building'.written = building.written /\ building'.base = building.base
       /\ building'.next = building.next + 1 /\ building' \in Statement
  <2> DEFINE up == [building EXCEPT !.next = @ + 1]
  <2>1. up \in Statement /\ up.mro = building.mro /\ up.bases = building.bases
        /\ up.written = building.written /\ up.base = building.base
        /\ up.next = building.next + 1
    <3>1. building.next + 1 \in Nat \ {0}
      BY <1>4
    <3> QED BY <1>4, <3>1, Counted
  <2>2. building' = [up EXCEPT !.mro = longer]
    BY <1>9
  <2> HIDE DEF up
  <2> QED BY <1>8, <2>1, <2>2, Ordered
<1>11. BaseOrder' = BaseOrder /\ (\A b : OrderOf(b)' = OrderOf(b))
       /\ Gathered' = Gathered \cup {m}
  <2>1. BaseOrder' = BaseOrder
    BY <1>1, <1>10 DEF BaseOrder, Base
  <2>2. \A b : OrderOf(b)' = OrderOf(b)
    BY <1>1 DEF OrderOf, InSeq
  <2>3. Gathered' = Gathered \cup {m}
    BY <1>8, <1>10 DEF Gathered, InSeq
  <2> QED BY <2>1, <2>2, <2>3
<1>12. \A k \in DOMAIN BaseOrder : k < building.next + 1 => BaseOrder[k] \in Gathered \cup {m}
  <2> SUFFICES ASSUME NEW k \in DOMAIN BaseOrder, k < building.next + 1
               PROVE  BaseOrder[k] \in Gathered \cup {m}
    OBVIOUS
  <2>1. CASE k < building.next
    BY <1>2, <1>5, <2>1 DEF Halfway
  <2>2. CASE k = building.next
    BY <2>2 DEF m
  <2> QED BY <1>4, <1>6, <2>1, <2>2
<1>13. Halfway'
  <2>1. RealOf(building'.bases) \subseteq DOMAIN classes' /\ Distinct(building'.mro)
        /\ building'.bases = building'.written
    BY <1>1, <1>2, <1>8, <1>10 DEF Halfway
  <2>2. Gathered' \subseteq UNION {OrderOf(b)' : b \in RealOf(building'.bases)}
    <3>1. Gathered \cup {m} \subseteq UNION {OrderOf(b) : b \in RealOf(building.bases)}
      BY <1>2, <1>6, <1>7 DEF Halfway
    <3> QED BY <3>1, <1>10, <1>11
  <2>3. \A i \in DOMAIN building'.bases :
          i < building'.base /\ building'.bases[i] \notin Others
            => OrderOf(building.bases[i])' \subseteq Gathered'
    <3>1. \A i \in DOMAIN building.bases :
            i < building.base /\ building.bases[i] \notin Others
              => OrderOf(building.bases[i]) \subseteq Gathered
      BY <1>2 DEF Halfway
    <3>2. \A b : InSeq(classes'[b].mro) = InSeq(classes[b].mro)
      BY <1>1
    <3> QED BY <1>1, <1>10, <1>11, <3>1, <3>2 DEF OrderOf
  <2>4. \A k \in DOMAIN BaseOrder' : k < building'.next => BaseOrder'[k] \in Gathered'
    BY <1>10, <1>11, <1>12
  <2> QED BY <1>10, <2>1, <2>2, <2>3, <2>4 DEF Halfway, OrderOf
<1> QED BY <1>3, <1>13 DEF Inv

(* The new class: its order is its number and the order that was gathered.   *)
LEMMA Appended ==
  ASSUME classes \in Seq(Record), NEW r \in Record, classes' = Append(classes, r)
  PROVE  /\ classes' \in Seq(Record)
         /\ Len(classes) + 1 \notin DOMAIN classes
         /\ DOMAIN classes' = DOMAIN classes \cup {Len(classes) + 1}
         /\ classes'[Len(classes) + 1] = r
         /\ \A c \in DOMAIN classes : classes'[c] = classes[c]
OBVIOUS

LEMMA Prepended ==
  ASSUME NEW s \in Seq(Nat), NEW n \in Nat, \A k \in DOMAIN s : s[k] # n, Distinct(s)
  PROVE  /\ <<n>> \o s \in Seq(Nat) /\ (<<n>> \o s)[1] = n /\ 1 \in DOMAIN (<<n>> \o s)
         /\ InSeq(<<n>> \o s) = InSeq(s) \cup {n} /\ Distinct(<<n>> \o s)
<1> DEFINE t == <<n>> \o s
<1>1. t \in Seq(Nat) /\ DOMAIN t = 1 .. Len(s) + 1 /\ t[1] = n /\ Len(s) \in Nat
      /\ DOMAIN s = 1 .. Len(s)
  OBVIOUS
<1>2. \A k \in 2 .. Len(s) + 1 : t[k] = s[k - 1]
  OBVIOUS
<1>3. \A k \in DOMAIN s : t[k + 1] = s[k] /\ k + 1 \in DOMAIN t
  <2> TAKE k \in DOMAIN s
  <2>1. k \in Nat /\ k + 1 \in 2 .. Len(s) + 1 /\ (k + 1) - 1 = k
    BY <1>1
  <2>2. t[k + 1] = s[(k + 1) - 1]
    BY <1>2, <2>1
  <2> QED BY <1>1, <2>1, <2>2
<1> HIDE DEF t
<1>4. \A k \in DOMAIN t : k # 1 => k - 1 \in DOMAIN s /\ t[k] = s[k - 1]
  BY <1>1, <1>2
<1>5. InSeq(t) = InSeq(s) \cup {n}
  <2>1. InSeq(t) \subseteq InSeq(s) \cup {n}
    BY <1>1, <1>4 DEF InSeq
  <2>2. InSeq(s) \subseteq InSeq(t)
    BY <1>3 DEF InSeq
  <2>3. n \in InSeq(t)
    <3>1. 1 \in DOMAIN t
      BY <1>1
    <3> QED BY <1>1, <3>1 DEF InSeq
  <2> QED BY <2>1, <2>2, <2>3
<1>6. Distinct(t)
  <2> SUFFICES ASSUME NEW i \in DOMAIN t, NEW j \in DOMAIN t, t[i] = t[j] PROVE i = j
    BY DEF Distinct
  <2>1. CASE i = 1 /\ j = 1
    BY <2>1
  <2>2. CASE i = 1 /\ j # 1
    BY <1>1, <1>4, <2>2
  <2>3. CASE i # 1 /\ j = 1
    BY <1>1, <1>4, <2>3
  <2>4. CASE i # 1 /\ j # 1
    <3>1. i - 1 \in DOMAIN s /\ j - 1 \in DOMAIN s /\ s[i - 1] = s[j - 1]
      BY <1>4, <2>4
    <3>2. i - 1 = j - 1
      BY <3>1 DEF Distinct
    <3> QED BY <1>1, <3>2
  <2> QED BY <2>1, <2>2, <2>3, <2>4
<1> QED BY <1>1, <1>5, <1>6 DEF t

LEMMA StepMakeClass == ASSUME Inv, MakeClass PROVE Inv'
<1>0. PICK n \in Nat : n = Len(classes) + 1
  BY Numbered DEF Inv, Orders
<1> DEFINE all == RealOf(building.bases)
           mro == <<n>> \o building.mro
           r == [written |-> building.written, bases |-> building.bases,
                 mro |-> mro, attrs |-> building.attrs]
<1>1. building # Idle /\ ~(building.base <= Len(building.bases))
      /\ classes' = Append(classes, r) /\ building' = Idle
  BY <1>0 DEF MakeClass, Made, Linearizing
<1>2. Orders /\ Halfway
  BY <1>1 DEF Inv
<1>3. /\ building \in Statement /\ building.bases \in Bases /\ building.attrs \in SUBSET Names
      /\ building.mro \in Seq(Nat) /\ building.base \in Nat \ {0}
      /\ building.bases = building.written /\ Len(building.bases) \in Nat
      /\ DOMAIN building.bases = 1 .. Len(building.bases)
  <2>1. building \in Statement /\ building.bases = building.written
    BY <1>2 DEF Halfway
  <2>2. /\ building.bases \in Bases /\ building.attrs \in SUBSET Names
        /\ building.mro \in Seq(Nat) /\ building.base \in Nat \ {0}
    BY <2>1 DEF Statement
  <2>3. Len(building.bases) \in Nat /\ DOMAIN building.bases = 1 .. Len(building.bases)
    BY <2>2 DEF Bases
  <2> QED BY <2>1, <2>2, <2>3
<1>4. all \subseteq DOMAIN classes /\ DOMAIN classes = 1 .. n - 1
  <2>1. DOMAIN classes = 1 .. Len(classes) /\ Len(classes) \in Nat
    BY <1>2, Numbered DEF Orders
  <2>2. n - 1 = Len(classes)
    BY <1>0, <2>1
  <2> QED BY <1>2, <2>1, <2>2 DEF Halfway
<1>5. Gathered = UNION {OrderOf(b) : b \in all}
  <2>1. ASSUME NEW b \in all PROVE OrderOf(b) \subseteq Gathered
    <3>1. PICK i \in DOMAIN building.bases : building.bases[i] = b /\ b \notin Others
      BY DEF RealOf, InSeq
    <3>2. i < building.base
      BY <1>1, <1>3
    <3> QED BY <1>2, <3>1, <3>2 DEF Halfway
  <2> QED BY <1>2, <2>1 DEF Halfway
<1>6. \A b \in all : OrderSound(b) /\ OrderOf(b) \subseteq DOMAIN classes /\ b \in OrderOf(b)
  BY <1>2, <1>4, OrdersAreClasses
<1>7. Gathered \subseteq DOMAIN classes /\ all \subseteq Gathered
  BY <1>5, <1>6
<1>8. \A k \in DOMAIN building.mro : building.mro[k] # n
  <2>1. n \notin Gathered
    BY <1>4, <1>7
  <2> QED BY <2>1 DEF Gathered, InSeq
<1>9. mro \in Seq(Nat) /\ mro[1] = n /\ 1 \in DOMAIN mro
      /\ InSeq(mro) = Gathered \cup {n} /\ Distinct(mro)
  BY <1>2, <1>3, <1>8, Prepended DEF Halfway, Gathered
<1>10. r \in Record
  BY <1>3, <1>9 DEF Record
<1>11. r.mro = mro /\ r.written = building.bases
  BY <1>3
<1> HIDE DEF r, mro
<1>12. /\ classes' \in Seq(Record) /\ n \notin DOMAIN classes
       /\ DOMAIN classes' = DOMAIN classes \cup {n}
       /\ classes'[n] = r /\ \A c \in DOMAIN classes : classes'[c] = classes[c]
  BY <1>0, <1>1, <1>2, <1>10, Appended DEF Orders
<1> HIDE DEF all
<1>13. /\ OrderOf(n)' = Gathered \cup {n} /\ BasesOf(n)' = all
       /\ \A c \in DOMAIN classes : OrderOf(c)' = OrderOf(c) /\ BasesOf(c)' = BasesOf(c)
  <2>1. InSeq(classes'[n].mro) = Gathered \cup {n}
    BY <1>9, <1>11, <1>12
  <2>2. InSeq(classes'[n].written) \ Others = all
    BY <1>11, <1>12 DEF RealOf, all
  <2>3. \A c \in DOMAIN classes :
          InSeq(classes'[c].mro) = InSeq(classes[c].mro)
          /\ InSeq(classes'[c].written) = InSeq(classes[c].written)
    BY <1>12
  <2>4. OrderOf(n)' = InSeq(classes'[n].mro) /\ BasesOf(n)' = InSeq(classes'[n].written) \ Others
    BY DEF OrderOf, BasesOf, InSeq
  <2> QED BY <2>1, <2>2, <2>3, <2>4 DEF OrderOf, BasesOf, InSeq
(* Without the new class, a closed set of classes is closed as well.         *)
<1>14. ASSUME NEW S \in SUBSET DOMAIN classes', Closed(S)'
       PROVE  /\ S \ {n} \in SUBSET DOMAIN classes /\ Closed(S \ {n})
              /\ n \in S => all \subseteq S
  <2>1. \A c \in S : {classes'[c].written[k] : k \in DOMAIN classes'[c].written} \ Others
                       \subseteq S
    BY <1>14 DEF Closed
  <2>2. S \ {n} \in SUBSET DOMAIN classes
    BY <1>12
  <2>3. \A c \in S \ {n} : BasesOf(c) \subseteq S
    BY <1>12, <2>1, <2>2 DEF BasesOf, InSeq
  <2>4. \A c \in S \ {n} : n \notin BasesOf(c)
    <3> TAKE c \in S \ {n}
    <3>1. c \in 1 .. n - 1 /\ BasesOf(c) \subseteq 1 .. c - 1
      BY <1>2, <1>4, <2>2 DEF Orders, OrderSound
    <3> QED BY <3>1
  <2>5. Closed(S \ {n})
    BY <2>3, <2>4, ClosedIs
  <2>6. n \in S => all \subseteq S
    BY <1>11, <1>12, <2>1 DEF all, RealOf, InSeq
  <2> QED BY <2>2, <2>5, <2>6
<1>15. ASSUME NEW c \in DOMAIN classes PROVE OrderSound(c)'
  <2>1. OrderSound(c) /\ OrderOf(c) \subseteq DOMAIN classes
    BY <1>2, OrdersAreClasses
  <2>2. BasesOf(c)' \subseteq 1 .. c - 1 /\ OrderOf(c)' \subseteq 1 .. c
    BY <1>13, <2>1 DEF OrderSound
  <2>3. 1 \in DOMAIN classes'[c].mro /\ classes'[c].mro[1] = c /\ Distinct(classes'[c].mro)
    BY <1>12, <2>1 DEF OrderSound
  <2>4. \A d \in OrderOf(c)' : BasesOf(d)' \subseteq OrderOf(c)'
    BY <1>13, <2>1 DEF OrderSound
  <2>5. ASSUME NEW S \in SUBSET DOMAIN classes', c \in S, Closed(S)'
        PROVE  OrderOf(c)' \subseteq S
    <3>1. S \ {n} \in SUBSET DOMAIN classes /\ Closed(S \ {n}) /\ c \in S \ {n}
      BY <1>12, <1>14, <2>5
    <3> QED BY <1>13, <2>1, <3>1 DEF OrderSound
  <2> QED BY <2>2, <2>3, <2>4, <2>5 DEF OrderSound, Distinct
<1>16. OrderSound(n)'
  <2>1. BasesOf(n)' \subseteq 1 .. n - 1
    BY <1>4, <1>13
  <2>2. OrderOf(n)' \subseteq 1 .. n
    <3>1. (1 .. n - 1) \cup {n} \subseteq 1 .. n
      BY <1>0, Numbered, <1>2 DEF Orders
    <3>2. Gathered \cup {n} \subseteq (1 .. n - 1) \cup {n}
      BY <1>4, <1>7
    <3> QED BY <1>13, <3>1, <3>2
  <2>3. 1 \in DOMAIN classes'[n].mro /\ classes'[n].mro[1] = n /\ Distinct(classes'[n].mro)
    BY <1>9, <1>11, <1>12
  <2>4. ASSUME NEW d \in OrderOf(n)' PROVE BasesOf(d)' \subseteq OrderOf(n)'
    <3>1. CASE d = n
      BY <1>7, <1>13, <3>1
    <3>2. CASE d # n
      <4>1. PICK b \in all : d \in OrderOf(b)
        BY <1>5, <1>13, <2>4, <3>2
      <4>2. d \in DOMAIN classes /\ BasesOf(d) \subseteq OrderOf(b)
        BY <1>6, <4>1 DEF OrderSound
      <4> QED BY <1>5, <1>13, <4>1, <4>2
    <3> QED BY <3>1, <3>2
  <2>5. ASSUME NEW S \in SUBSET DOMAIN classes', n \in S, Closed(S)'
        PROVE  OrderOf(n)' \subseteq S
    <3>1. S \ {n} \in SUBSET DOMAIN classes /\ Closed(S \ {n}) /\ all \subseteq S
      BY <1>14, <2>5
    <3>2. \A b \in all : b \in S \ {n}
      BY <1>4, <1>12, <3>1
    <3>3. \A b \in all : OrderOf(b) \subseteq S \ {n}
      BY <1>6, <3>1, <3>2 DEF OrderSound
    <3> QED BY <1>5, <1>13, <2>5, <3>3
  <2> QED BY <2>1, <2>2, <2>3, <2>4, <2>5 DEF OrderSound, Distinct
<1>17. Orders'
  BY <1>12, <1>15, <1>16 DEF Orders
<1> QED BY <1>1, <1>17 DEF Inv, Idle

LEMMA StepStoreAttr ==
  ASSUME Inv, NEW c \in DOMAIN classes, NEW attr \in Names, store_attr(c, attr)
  PROVE  Inv'
<1>1. building = Idle /\ building' = building
      /\ classes' = [classes EXCEPT ![c].attrs = @ \cup {attr}]
  BY DEF store_attr
<1>2. Orders /\ classes[c] \in Record
  BY Numbered DEF Inv, Orders
<1> DEFINE r == [classes[c] EXCEPT !.attrs = @ \cup {attr}]
<1>3. r \in Record /\ r.written = classes[c].written /\ r.mro = classes[c].mro
  BY <1>2 DEF Record
<1>4. classes' = [classes EXCEPT ![c] = r]
  BY <1>1
<1> HIDE DEF r
<1>5. classes' \in Seq(Record) /\ DOMAIN classes' = DOMAIN classes
      /\ \A d \in DOMAIN classes : classes'[d] = IF d = c THEN r ELSE classes[d]
  BY <1>2, <1>3, <1>4 DEF Orders
<1>6. \A d \in DOMAIN classes :
        classes'[d].written = classes[d].written /\ classes'[d].mro = classes[d].mro
  BY <1>3, <1>5
<1>7. Orders'
  BY <1>2, <1>5, <1>6, OrdersKept
<1> QED BY <1>1, <1>7 DEF Inv, Idle

----------------------------------------------------------------------------
LEMMA InvStep == Inv /\ [ClassNext]_hierarchy => Inv'
<1> SUFFICES ASSUME Inv, [ClassNext]_hierarchy PROVE Inv'
  OBVIOUS
<1>1. ASSUME NEW bases \in BaseLists, NEW names \in SUBSET Names, NEW nones \in SUBSET names,
             BUILD_CLASS(bases, names, nones)
      PROVE  Inv'
  BY <1>1, StepBegin
<1>2. CASE NextBase
  BY <1>2, StepNextBase
<1>3. CASE Merge
  BY <1>3, StepMerge
<1>4. CASE MakeClass
  BY <1>4, StepMakeClass
<1>5. ASSUME NEW c \in DOMAIN classes, NEW attr \in Names, store_attr(c, attr) PROVE Inv'
  BY <1>5, StepStoreAttr
<1>6. CASE UNCHANGED hierarchy
  <2>1. classes' = classes /\ building' = building
    BY <1>6 DEF hierarchy
  <2>2. Orders'
    BY <2>1, OrdersKept DEF Inv, Orders
  <2>3. BaseOrder' = BaseOrder /\ Gathered' = Gathered
    BY <2>1 DEF BaseOrder, Base, Gathered, InSeq
  <2>4. building # Idle => Halfway'
    BY <2>1, <2>3 DEF Inv, Halfway, OrderOf
  <2> QED BY <2>1, <2>2, <2>4 DEF Inv, Idle
<1> QED BY <1>1, <1>2, <1>3, <1>4, <1>5, <1>6 DEF ClassNext

(* What follows of the orders: each is the set of ancestors.                 *)
LEMMA OrderIsAncestors ==
  ASSUME Orders, NEW c \in DOMAIN classes
  PROVE  OrderOf(c) = Ancestors(c)
<1>1. OrderSound(c) /\ OrderOf(c) \subseteq DOMAIN classes /\ c \in OrderOf(c)
  BY OrdersAreClasses
<1>2. Closed(OrderOf(c))
  BY <1>1, ClosedIs DEF OrderSound
<1>3. Ancestors(c) \subseteq OrderOf(c)
  BY <1>1, <1>2 DEF Ancestors
<1>4. OrderOf(c) \subseteq Ancestors(c)
  BY <1>1 DEF Ancestors, OrderSound
<1> QED BY <1>3, <1>4

(* For every set of names, every number of classes and of bases: issubclass  *)
(* and isinstance answer exactly whether one class is an ancestor of the      *)
(* other, by the order that BUILD_CLASS computed when the class was made.     *)
THEOREM SubclassAlwaysReachable == ClassSpec => []SubclassIsReachable
<1>1. Inv => SubclassIsReachable
  <2> SUFFICES ASSUME Inv, NEW c \in DOMAIN classes
               PROVE  /\ \A d \in DOMAIN classes : builtin_issubclass(c, d) <=> d \in Ancestors(c)
                      /\ Distinct(classes[c].mro) /\ classes[c].mro[1] = c
    BY DEF SubclassIsReachable
  <2>1. Orders /\ OrderSound(c)
    BY OrdersAreClasses DEF Inv
  <2>2. \A d : builtin_issubclass(c, d) <=> d \in OrderOf(c)
    BY DEF builtin_issubclass, In, OrderOf, InSeq
  <2>3. OrderOf(c) = Ancestors(c)
    BY <2>1, OrderIsAncestors
  <2> QED BY <2>1, <2>2, <2>3 DEF OrderSound
<1> QED BY InvInit, InvStep, <1>1, PTL DEF ClassSpec

----------------------------------------------------------------------------
(* Every set of naturals that is not empty has a least member, and one that  *)
(* has 0 and every successor has them all.                                  *)
LEMMA Least ==
  ASSUME NEW S \in SUBSET Nat, S # {}
  PROVE  \E m \in S : \A n \in S : m <= n
<1> DEFINE R == {ss \in Nat \X Nat : ss[1] < ss[2]}
<1>1. IsWellFoundedOn(R, Nat)
  BY NatLessThanWellFounded DEF OpToRel
<1>2. PICK m \in S : \A n \in S : <<n, m>> \notin R
  BY <1>1, WFMin
<1>3. ASSUME NEW n \in S  PROVE m <= n
  <2>1. <<n, m>> \in Nat \X Nat /\ <<n, m>>[1] = n /\ <<n, m>>[2] = m
    OBVIOUS
  <2>2. ~(n < m)
    BY <1>2, <2>1
  <2> QED BY <2>2
<1> QED BY <1>3

LEMMA Counting ==
  ASSUME NEW S, 0 \in S, \A n \in Nat : n \in S => n + 1 \in S
  PROVE  Nat \subseteq S
<1> SUFFICES ASSUME Nat \ S # {}  PROVE FALSE
  OBVIOUS
<1>1. PICK m \in Nat \ S : \A n \in Nat \ S : m <= n
  BY Least
<1>2. m - 1 \in Nat /\ m - 1 \notin Nat \ S
  BY <1>1
<1> QED BY <1>2

(* A search through an order ends at the first class that is one of H; the    *)
(* sets H stand for the classes that have an attribute, now or later.        *)
FirstIn(s, H, x) ==
  \E k \in DOMAIN s : s[k] = x /\ x \in H /\ \A j \in DOMAIN s : j < k => s[j] \notin H
Misses(s, H) == \A k \in DOMAIN s : s[k] \notin H

(* It ends where a search through the orders of the bases does, one after    *)
(* the other; cs are the classes, those of now or of a step later.           *)
ByBases(cs, bases, H, x) ==
  \E i \in DOMAIN bases :
    /\ bases[i] \notin Others /\ FirstIn(cs[bases[i]].mro, H, x)
    /\ \A j \in DOMAIN bases : j < i /\ bases[j] \notin Others => Misses(cs[bases[j]].mro, H)
LeftmostOf(cs, c) ==
  \A H, x : c \notin H /\ FirstIn(cs[c].mro, H, x) => ByBases(cs, cs[c].written, H, x)
LeftmostSoFar(cs, gathered, bases) ==
  \A H, x : FirstIn(gathered, H, x) => ByBases(cs, bases, H, x)
Leftmost ==
  /\ \A c \in DOMAIN classes : LeftmostOf(classes, c)
  /\ building # Idle => LeftmostSoFar(classes, building.mro, building.bases)

(* A step that changes no order of a class that was there.                   *)
LEMMA ByBasesKept ==
  ASSUME NEW cs, NEW ds, NEW bases, NEW H, NEW x, ByBases(cs, bases, H, x),
         \A i \in DOMAIN bases : bases[i] \notin Others => ds[bases[i]].mro = cs[bases[i]].mro
  PROVE  ByBases(ds, bases, H, x)
BY DEF ByBases

(* The bases of a class are classes that were there before it.               *)
LEMMA WrittenAre ==
  ASSUME Inv, NEW c \in DOMAIN classes
  PROVE  /\ RealOf(classes[c].written) \subseteq 1 .. c - 1
         /\ RealOf(classes[c].written) \subseteq DOMAIN classes
         /\ c \in Nat /\ c > 0 /\ c - 1 \in Nat
         /\ Len(classes) \in Nat /\ DOMAIN classes = 1 .. Len(classes)
<1>1. Orders /\ OrderSound(c) /\ DOMAIN classes = 1 .. Len(classes) /\ Len(classes) \in Nat
  BY Numbered DEF Inv, Orders
<1>2. RealOf(classes[c].written) = BasesOf(c)
  BY DEF RealOf, BasesOf
<1>3. BasesOf(c) \subseteq 1 .. c - 1
  BY <1>1 DEF OrderSound
<1> QED BY <1>1, <1>2, <1>3

LEMMA MergeLeftmost ==
  ASSUME Inv, Leftmost, Merge
  PROVE  Leftmost'
<1> DEFINE m == BaseOrder[building.next]
           g == building.mro
<1>1. /\ classes' = classes /\ building # Idle /\ building.base <= Len(building.bases)
      /\ building' = [building EXCEPT !.next = @ + 1,
                        !.mro = IF In(m, @) THEN @ ELSE Append(@, m)]
      /\ ~(building.next > Len(BaseOrder))
  BY DEF Merge, Linearizing, Merged
<1>2. Orders /\ Halfway
  BY <1>1 DEF Inv
<1>3. /\ building \in Statement /\ building.bases \in Seq(Nat \cup Others)
      /\ g \in Seq(Nat) /\ building.base \in Nat \ {0} /\ building.next \in Nat \ {0}
  BY <1>2 DEF Halfway, Statement, Bases
<1>4. building.base \in DOMAIN building.bases
  BY <1>1, <1>3
<1>5. /\ BaseOrder \in Seq(Nat)
      /\ Base \notin Others => BaseOrder = classes[Base].mro
  BY <1>2, <1>4, AtBase
<1>6. building.next \in DOMAIN BaseOrder /\ m \in Nat
  BY <1>1, <1>3, <1>5
<1>7. Base \notin Others
  <2>1. CASE Base \in Others
    BY <1>6, <2>1 DEF BaseOrder
  <2> QED BY <2>1
<1>8. Base = building.bases[building.base]
  BY DEF Base
<1>9. building'.mro = (IF In(m, g) THEN g ELSE Append(g, m)) /\ building'.bases = building.bases
  BY <1>1, <1>3 DEF Statement
<1> HIDE DEF m, g
<1>10. ASSUME NEW H, NEW x, FirstIn(building'.mro, H, x)
       PROVE  ByBases(classes, building.bases, H, x)
  <2>1. CASE FirstIn(g, H, x)
    BY <1>1, <2>1 DEF Leftmost, LeftmostSoFar, g
  <2>2. CASE ~FirstIn(g, H, x)
    <3>1. ~In(m, g) /\ building'.mro = Append(g, m)
      BY <1>9, <1>10, <2>2
    <3>2. PICK t : t = Append(g, m)
      OBVIOUS
    <3>3. /\ DOMAIN t = DOMAIN g \cup {Len(g) + 1} /\ t[Len(g) + 1] = m
          /\ \A k \in DOMAIN g : t[k] = g[k] /\ k < Len(g) + 1
      BY <1>3, <1>6, <3>2
    <3>4. PICK k \in DOMAIN t : t[k] = x /\ x \in H /\ \A j \in DOMAIN t : j < k => t[j] \notin H
      BY <1>10, <3>1, <3>2 DEF FirstIn
    <3>5. k = Len(g) + 1
      <4>1. CASE k \in DOMAIN g
        BY <2>2, <3>3, <3>4, <4>1 DEF FirstIn
      <4> QED BY <3>3, <3>4, <4>1
    <3>6. x = m /\ m \in H /\ Misses(g, H)
      BY <3>3, <3>4, <3>5 DEF Misses
    <3>7. Gathered \cap H = {}
      BY <3>6 DEF Misses, Gathered, InSeq, g
    <3>8. FirstIn(BaseOrder, H, x)
      <4>1. \A j \in DOMAIN BaseOrder : j < building.next => BaseOrder[j] \notin H
        BY <1>2, <1>4, <3>7 DEF Halfway
      <4> QED BY <1>6, <3>6, <4>1 DEF FirstIn, m
    <3>9. ASSUME NEW j \in DOMAIN building.bases, j < building.base, building.bases[j] \notin Others
          PROVE  Misses(classes[building.bases[j]].mro, H)
      <4>1. OrderOf(building.bases[j]) \subseteq Gathered
        BY <1>2, <3>9 DEF Halfway
      <4> QED BY <3>7, <4>1 DEF OrderOf, InSeq, Misses
    <3> QED BY <1>4, <1>5, <1>7, <1>8, <3>8, <3>9 DEF ByBases
  <2> QED BY <2>1, <2>2
<1>11. LeftmostSoFar(classes, building'.mro, building.bases)
  BY <1>10 DEF LeftmostSoFar
<1> QED BY <1>1, <1>9, <1>11 DEF Leftmost

LEMMA MakeClassLeftmost ==
  ASSUME Inv, Leftmost, MakeClass
  PROVE  Leftmost'
<1> DEFINE g == building.mro
           n == Len(classes) + 1
           mro == <<n>> \o g
           r == [written |-> building.written, bases |-> building.bases,
                 mro |-> mro, attrs |-> building.attrs]
<1>1. building # Idle /\ building' = Idle /\ classes' = Append(classes, r)
  BY DEF MakeClass, Made
<1>2. Orders /\ Halfway /\ classes \in Seq(Record) /\ Len(classes) \in Nat
  BY <1>1, Numbered DEF Inv, Orders
<1>3. /\ building \in Statement /\ building.written \in Bases /\ building.bases = building.written
      /\ g \in Seq(Nat) /\ building.attrs \in SUBSET Names
      /\ RealOf(building.bases) \subseteq DOMAIN classes
  BY <1>2 DEF Halfway, Statement
<1>4. mro \in Seq(Nat) /\ r.mro = mro /\ r.written = building.bases
  BY <1>2, <1>3
<1>5. r \in Record
  BY <1>3, <1>4 DEF Record
<1> HIDE DEF r
<1>6. /\ DOMAIN classes' = DOMAIN classes \cup {n} /\ classes'[n] = r
      /\ \A c \in DOMAIN classes : classes'[c] = classes[c]
  BY <1>1, <1>2, <1>5, Appended
<1>7. ASSUME NEW bases, RealOf(bases) \subseteq DOMAIN classes, NEW H, NEW x,
             ByBases(classes, bases, H, x)
      PROVE  ByBases(classes', bases, H, x)
  <2>1. \A i \in DOMAIN bases :
          bases[i] \notin Others => classes'[bases[i]].mro = classes[bases[i]].mro
    BY <1>6, <1>7 DEF RealOf, InSeq
  <2> QED BY <1>7, <2>1, ByBasesKept
<1>8. ASSUME NEW H, NEW x, n \notin H, FirstIn(mro, H, x)
      PROVE  FirstIn(g, H, x)
  <2>1. /\ DOMAIN mro = 1 .. Len(g) + 1 /\ mro[1] = n /\ Len(g) \in Nat /\ DOMAIN g = 1 .. Len(g)
        /\ \A k \in 1 .. Len(g) : mro[k + 1] = g[k]
    BY <1>2, <1>3
  <2> HIDE DEF mro, g, n
  <2>2. PICK k \in DOMAIN mro : mro[k] = x /\ x \in H /\ \A j \in DOMAIN mro : j < k => mro[j] \notin H
    BY <1>8 DEF FirstIn
  <2>3. k # 1 /\ k - 1 \in DOMAIN g /\ k \in Nat
    BY <1>8, <2>1, <2>2
  <2>4. g[k - 1] = x
    <3>1. mro[(k - 1) + 1] = g[k - 1] /\ (k - 1) + 1 = k
      BY <2>1, <2>3
    <3> QED BY <2>2, <3>1
  <2>5. ASSUME NEW j \in DOMAIN g, j < k - 1  PROVE g[j] \notin H
    <3>1. j + 1 \in DOMAIN mro /\ j + 1 < k /\ mro[j + 1] = g[j]
      BY <2>1, <2>3, <2>5
    <3> QED BY <2>2, <3>1
  <2> QED BY <2>2, <2>3, <2>4, <2>5 DEF FirstIn
<1> HIDE DEF mro, g, n
<1>9. ASSUME NEW c \in DOMAIN classes', NEW H, NEW x, c \notin H, FirstIn(classes'[c].mro, H, x)
      PROVE  ByBases(classes', classes'[c].written, H, x)
  <2>1. CASE c = n
    <3>1. FirstIn(g, H, x)
      BY <1>4, <1>6, <1>8, <1>9, <2>1
    <3>2. ByBases(classes, building.bases, H, x)
      BY <1>1, <3>1 DEF Leftmost, LeftmostSoFar, g
    <3>3. ByBases(classes', building.bases, H, x)
      BY <1>3, <1>7, <3>2
    <3> QED BY <1>4, <1>6, <2>1, <3>3
  <2>2. CASE c # n
    <3>1. c \in DOMAIN classes /\ classes'[c] = classes[c]
      BY <1>6, <1>9, <2>2
    <3>2. ByBases(classes, classes[c].written, H, x)
      BY <1>9, <3>1 DEF Leftmost, LeftmostOf
    <3>3. RealOf(classes[c].written) \subseteq DOMAIN classes
      BY <3>1, WrittenAre
    <3>4. ByBases(classes', classes[c].written, H, x)
      BY <1>7, <3>2, <3>3
    <3> QED BY <3>1, <3>4
  <2> QED BY <2>1, <2>2
<1>10. \A c \in DOMAIN classes' : LeftmostOf(classes', c)
  BY <1>9 DEF LeftmostOf
<1> QED BY <1>1, <1>10 DEF Leftmost

LEMMA LeftmostInit == ClassInit => Leftmost
BY DEF ClassInit, Leftmost, Idle

LEMMA LeftmostStep == Inv /\ Leftmost /\ [ClassNext]_hierarchy => Leftmost'
<1> SUFFICES ASSUME Inv, Leftmost, [ClassNext]_hierarchy PROVE Leftmost'
  OBVIOUS
<1>1. ASSUME NEW bases \in BaseLists, NEW names \in SUBSET Names, NEW nones \in SUBSET names,
             BUILD_CLASS(bases, names, nones)
      PROVE  Leftmost'
  <2>1. classes' = classes /\ building'.mro = <<>>
    BY <1>1 DEF BUILD_CLASS, Begin
  <2>2. LeftmostSoFar(classes, building'.mro, building'.bases)
    BY <2>1 DEF LeftmostSoFar, FirstIn
  <2> QED BY <2>1, <2>2 DEF Leftmost
<1>2. CASE NextBase
  <2>1. /\ classes' = classes /\ building # Idle
        /\ building' = [building EXCEPT !.base = @ + 1, !.next = 1]
    BY <1>2 DEF NextBase, Linearizing
  <2>2. building \in Statement
    BY <2>1 DEF Inv, Halfway
  <2>3. building'.mro = building.mro /\ building'.bases = building.bases
    BY <2>1, <2>2 DEF Statement
  <2> QED BY <2>1, <2>3 DEF Leftmost
<1>3. CASE Merge
  BY <1>3, MergeLeftmost
<1>4. CASE MakeClass
  BY <1>4, MakeClassLeftmost
<1>5. ASSUME NEW c \in DOMAIN classes, NEW attr \in Names, store_attr(c, attr) PROVE Leftmost'
  <2>1. building = Idle /\ building' = Idle /\ DOMAIN classes' = DOMAIN classes
    BY <1>5 DEF store_attr
  <2>2. \A d \in DOMAIN classes :
          classes'[d].written = classes[d].written /\ classes'[d].mro = classes[d].mro
    BY <1>5, Numbered DEF store_attr, Inv, Orders, Record
  <2>3. ASSUME NEW d \in DOMAIN classes, NEW H, NEW x, d \notin H, FirstIn(classes'[d].mro, H, x)
        PROVE  ByBases(classes', classes'[d].written, H, x)
    <3>1. ByBases(classes, classes[d].written, H, x)
      BY <2>2, <2>3 DEF Leftmost, LeftmostOf
    <3>2. RealOf(classes[d].written) \subseteq DOMAIN classes
      BY WrittenAre
    <3>3. \A i \in DOMAIN classes[d].written : classes[d].written[i] \notin Others =>
            classes'[classes[d].written[i]].mro = classes[classes[d].written[i]].mro
      BY <2>2, <3>2 DEF RealOf, InSeq
    <3> QED BY <2>2, <3>1, <3>3, ByBasesKept
  <2> QED BY <2>1, <2>3 DEF Leftmost, LeftmostOf
<1>6. CASE UNCHANGED hierarchy
  BY <1>6 DEF hierarchy, Leftmost
<1> QED BY <1>1, <1>2, <1>3, <1>4, <1>5, <1>6 DEF ClassNext

----------------------------------------------------------------------------
(* The depth-first search, one class after the other.                        *)
Hits(written, f) == {i \in DOMAIN written : written[i] \notin Others /\ f[written[i]] # Missing}
Earliest(hits) == CHOOSE i \in hits : \A j \in hits : i <= j
Best(attr, c, f) ==
  IF attr \in classes[c].attrs THEN c
  ELSE IF Hits(classes[c].written, f) = {} THEN Missing
  ELSE f[classes[c].written[Earliest(Hits(classes[c].written, f))]]
Chosen(attr) == CHOOSE found : found = [c \in DOMAIN classes |-> Best(attr, c, found)]

LEMMA EarliestIs ==
  ASSUME NEW S \in SUBSET Nat, S # {}
  PROVE  Earliest(S) \in S /\ \A j \in S : Earliest(S) <= j
BY Least DEF Earliest

LEMMA WrittenPlaces ==
  ASSUME Inv, NEW c \in DOMAIN classes
  PROVE  DOMAIN classes[c].written \subseteq Nat
<1>1. classes[c].written \in Bases
  BY Numbered DEF Inv, Orders, Record
<1>2. \A s \in Bases : DOMAIN s \subseteq Nat
  BY DEF Bases
<1> QED BY <1>1, <1>2

(* It looks only at classes that were there before.                          *)
LEMMA BestSame ==
  ASSUME Inv, NEW attr, NEW c \in DOMAIN classes, NEW f, NEW g, \A d \in 1 .. c - 1 : f[d] = g[d]
  PROVE  Best(attr, c, f) = Best(attr, c, g)
<1> DEFINE written == classes[c].written
<1>1. \A i \in DOMAIN written : written[i] \notin Others => f[written[i]] = g[written[i]]
  BY WrittenAre DEF RealOf, InSeq
<1>2. Hits(written, f) = Hits(written, g)
  BY <1>1 DEF Hits
<1>3. ASSUME Hits(written, f) # {}
      PROVE  f[written[Earliest(Hits(written, f))]] = g[written[Earliest(Hits(written, f))]]
  <2>1. Hits(written, f) \in SUBSET Nat
    BY WrittenPlaces DEF Hits
  <2>2. Earliest(Hits(written, f)) \in Hits(written, f)
    BY <1>3, <2>1, EarliestIs
  <2> QED BY <1>1, <2>2 DEF Hits
<1> QED BY <1>2, <1>3 DEF Best

LEMMA ChosenExists ==
  ASSUME Inv, NEW attr
  PROVE  \E f : f = [c \in DOMAIN classes |-> Best(attr, c, f)]
<1> DEFINE Has(n) == n <= Len(classes) => \E f : f = [c \in 1 .. n |-> Best(attr, c, f)]
           Good == {n \in Nat : Has(n)}
<1>1. Len(classes) \in Nat /\ DOMAIN classes = 1 .. Len(classes)
  BY Numbered DEF Inv, Orders
<1>2. ASSUME NEW n \in Nat, Has(n)  PROVE Has(n + 1)
  <2> SUFFICES ASSUME n + 1 <= Len(classes)
               PROVE  \E f : f = [c \in 1 .. n + 1 |-> Best(attr, c, f)]
    OBVIOUS
  <2>1. PICK f : f = [c \in 1 .. n |-> Best(attr, c, f)]
    BY <1>1, <1>2
  <2> DEFINE g == [c \in 1 .. n + 1 |-> Best(attr, c, f)]
  <2>2. \A c \in 1 .. n : f[c] = Best(attr, c, f)
    BY <2>1
  <2>3. \A c \in 1 .. n : f[c] = g[c]
    BY <2>2
  <2>4. ASSUME NEW c \in 1 .. n + 1  PROVE g[c] = Best(attr, c, g)
    <3>1. c \in DOMAIN classes /\ 1 .. c - 1 \subseteq 1 .. n
      BY <1>1
    <3>2. Best(attr, c, f) = Best(attr, c, g)
      <4> HIDE DEF g
      <4> QED BY <2>3, <3>1, BestSame
    <3> QED BY <3>2
  <2>5. g = [c \in 1 .. n + 1 |-> g[c]]
    OBVIOUS
  <2> HIDE DEF g
  <2>6. g = [c \in 1 .. n + 1 |-> Best(attr, c, g)]
    BY <2>4, <2>5
  <2> QED BY <2>6
<1>3. Has(0)
  <2>1. [c \in 1 .. 0 |-> 0] = [c \in 1 .. 0 |-> Best(attr, c, [d \in 1 .. 0 |-> 0])]
    OBVIOUS
  <2> QED BY <2>1
<1> HIDE DEF Has
<1>4. Nat \subseteq Good
  <2>1. 0 \in Good /\ \A n \in Nat : n \in Good => n + 1 \in Good
    BY <1>2, <1>3
  <2> HIDE DEF Good
  <2> QED BY <2>1, Counting
<1>5. Has(Len(classes))
  BY <1>1, <1>4
<1> QED BY <1>1, <1>5 DEF Has

LEMMA DepthFirstUnfold ==
  ASSUME Inv, NEW attr, NEW c \in DOMAIN classes
  PROVE  DepthFirst(attr)[c] = Best(attr, c, DepthFirst(attr))
<1>1. Chosen(attr) = [d \in DOMAIN classes |-> Best(attr, d, Chosen(attr))]
  BY ChosenExists DEF Chosen
<1>2. Chosen(attr) = DepthFirst(attr)
  BY DEF DepthFirst, Chosen, Best, Hits, Earliest
<1> HIDE DEF Chosen, DepthFirst, Best
<1>3. Chosen(attr)[c] = Best(attr, c, Chosen(attr))
  BY <1>1
<1> QED BY <1>2, <1>3

----------------------------------------------------------------------------
Having(attr) == {c \in DOMAIN classes : attr \in classes[c].attrs}

(* What the first of an order is, and that there is one where there is any.  *)
LEMMA FirstUnique ==
  ASSUME NEW s, DOMAIN s \subseteq Nat, NEW H, NEW x, NEW y, FirstIn(s, H, x), FirstIn(s, H, y)
  PROVE  x = y
<1>1. PICK k \in DOMAIN s : s[k] = x /\ x \in H /\ \A j \in DOMAIN s : j < k => s[j] \notin H
  BY DEF FirstIn
<1>2. PICK l \in DOMAIN s : s[l] = y /\ y \in H /\ \A j \in DOMAIN s : j < l => s[j] \notin H
  BY DEF FirstIn
<1>3. k \in Nat /\ l \in Nat /\ ~(k < l) /\ ~(l < k)
  BY <1>1, <1>2
<1>4. k = l
  BY <1>3
<1> QED BY <1>1, <1>2, <1>4

LEMMA FirstExists ==
  ASSUME NEW s, DOMAIN s \subseteq Nat, NEW H, ~Misses(s, H)
  PROVE  \E x : FirstIn(s, H, x)
<1> DEFINE hits == {k \in DOMAIN s : s[k] \in H}
<1>1. hits \in SUBSET Nat /\ hits # {}
  BY DEF Misses
<1> HIDE DEF hits
<1>2. PICK k \in hits : \A j \in hits : k <= j
  BY <1>1, Least
<1>3. k \in Nat /\ hits \subseteq Nat /\ \A j \in DOMAIN s : j < k => j \notin hits
  BY <1>1, <1>2
<1>4. FirstIn(s, H, s[k])
  BY <1>2, <1>3 DEF FirstIn, hits
<1> QED BY <1>4

LEMMA AboveBase ==
  ASSUME Inv, NEW c \in DOMAIN classes, NEW b \in RealOf(classes[c].written)
  PROVE  OrderOf(b) \subseteq OrderOf(c) /\ b \in DOMAIN classes
<1>1. b \in DOMAIN classes /\ b \in BasesOf(c)
  BY WrittenAre DEF RealOf, BasesOf
<1>2. Orders
  BY DEF Inv
<1>3. OrderSound(c) /\ OrderOf(c) \subseteq DOMAIN classes /\ c \in OrderOf(c)
  BY <1>2, OrdersAreClasses
<1>4. b \in OrderOf(c)
  BY <1>1, <1>3 DEF OrderSound
<1>5. Closed(OrderOf(c))
  BY <1>3, ClosedIs DEF OrderSound
<1>6. OrderSound(b)
  BY <1>1, <1>2, OrdersAreClasses
<1> QED BY <1>1, <1>3, <1>4, <1>5, <1>6 DEF OrderSound

Finds(c, H, x) ==
  \/ x = Missing /\ Misses(classes[c].mro, H)
  \/ FirstIn(classes[c].mro, H, x)

(* Each class by those before it.                                           *)
LEMMA FindsStep ==
  ASSUME Inv, Leftmost, NEW attr, NEW c \in DOMAIN classes,
         \A d \in 1 .. c - 1 : Finds(d, Having(attr), DepthFirst(attr)[d])
  PROVE  Finds(c, Having(attr), DepthFirst(attr)[c])
<1> DEFINE found == DepthFirst(attr)
           H == Having(attr)
           written == classes[c].written
           mro == classes[c].mro
<1>1. found[c] = Best(attr, c, found)
  BY DepthFirstUnfold
<1>2. Orders
  BY DEF Inv
<1>3. /\ OrderSound(c) /\ OrderOf(c) \subseteq DOMAIN classes /\ mro \in Seq(Nat)
      /\ DOMAIN mro \subseteq Nat
  <2>1. OrderSound(c) /\ OrderOf(c) \subseteq DOMAIN classes /\ mro \in Seq(Nat)
    BY <1>2, OrdersAreClasses
  <2> QED BY <2>1
<1>4. 1 \in DOMAIN mro /\ mro[1] = c
  BY <1>3 DEF OrderSound
<1>5. c \in H <=> attr \in classes[c].attrs
  BY DEF Having
<1>6. Missing \notin H
  BY Numbered, <1>2 DEF Having, Missing, Orders
<1> HIDE DEF found, H
<1>7. CASE attr \in classes[c].attrs
  <2>1. found[c] = c /\ c \in H
    BY <1>1, <1>5, <1>7 DEF Best
  <2>2. \A j \in DOMAIN mro : ~(j < 1)
    BY <1>3
  <2>3. FirstIn(mro, H, c)
    BY <1>4, <2>1, <2>2 DEF FirstIn
  <2> QED BY <2>1, <2>3 DEF Finds, found, H
<1>8. CASE attr \notin classes[c].attrs
  <2> DEFINE hits == Hits(written, found)
  <2>1. c \notin H /\ found[c] = IF hits = {} THEN Missing ELSE found[written[Earliest(hits)]]
    BY <1>1, <1>5, <1>8 DEF Best
  <2>2. ASSUME NEW i \in DOMAIN written, written[i] \notin Others
        PROVE  /\ written[i] \in RealOf(written) /\ written[i] \in DOMAIN classes
               /\ Finds(written[i], H, found[written[i]])
    <3>1. written[i] \in RealOf(written)
      BY <2>2 DEF RealOf, InSeq
    <3> QED BY <3>1, WrittenAre DEF found, H
  <2>3. ASSUME NEW x, FirstIn(mro, H, x)
        PROVE  \E i \in hits : x = found[written[i]] /\ \A j \in hits : ~(j < i)
    <3>1. ByBases(classes, written, H, x)
      BY <2>1, <2>3 DEF Leftmost, LeftmostOf
    <3>2. PICK i \in DOMAIN written :
            /\ written[i] \notin Others /\ FirstIn(classes[written[i]].mro, H, x)
            /\ \A j \in DOMAIN written :
                 j < i /\ written[j] \notin Others => Misses(classes[written[j]].mro, H)
      BY <3>1 DEF ByBases
    <3>3. DOMAIN classes[written[i]].mro \subseteq Nat
      <4>1. classes[written[i]].mro \in Seq(Nat)
        BY <1>2, <2>2, <3>2, OrdersAreClasses
      <4> QED BY <4>1
    <3>4. FirstIn(classes[written[i]].mro, H, found[written[i]])
      BY <2>2, <3>2 DEF Finds, FirstIn, Misses
    <3>5. x = found[written[i]] /\ x \in H
      <4>1. x = found[written[i]]
        BY <3>2, <3>3, <3>4, FirstUnique
      <4> QED BY <3>2, <4>1 DEF FirstIn
    <3>6. i \in hits
      BY <1>6, <3>2, <3>5 DEF Hits
    <3>7. ASSUME NEW j \in hits  PROVE ~(j < i)
      <4>1. j \in DOMAIN written /\ written[j] \notin Others /\ found[written[j]] # Missing
        BY DEF Hits
      <4>2. ~Misses(classes[written[j]].mro, H)
        BY <2>2, <4>1 DEF Finds, FirstIn, Misses
      <4> QED BY <3>2, <4>1, <4>2
    <3> QED BY <3>5, <3>6, <3>7
  <2>4. hits \subseteq Nat
    BY WrittenPlaces DEF Hits
  <2>5. CASE hits = {}
    <3>1. Misses(mro, H)
      BY <1>3, <2>3, <2>5, FirstExists
    <3> QED BY <2>1, <2>5, <3>1 DEF Finds, found, H
  <2>6. CASE hits # {}
    <3>1. PICK i : i = Earliest(hits)
      OBVIOUS
    <3>2. i \in hits /\ \A j \in hits : i <= j
      BY <2>4, <2>6, <3>1, EarliestIs
    <3>3. i \in DOMAIN written /\ written[i] \notin Others /\ found[written[i]] # Missing
      BY <3>2 DEF Hits
    <3>4. FirstIn(classes[written[i]].mro, H, found[written[i]])
      BY <2>2, <3>3 DEF Finds
    <3>5. ~Misses(mro, H)
      <4>1. PICK y : y \in OrderOf(written[i]) /\ y \in H
        BY <3>4 DEF FirstIn, OrderOf, InSeq
      <4>2. y \in OrderOf(c)
        BY <2>2, <3>3, <4>1, AboveBase
      <4> QED BY <4>1, <4>2 DEF OrderOf, InSeq, Misses
    <3>6. PICK x : FirstIn(mro, H, x)
      BY <1>3, <3>5, FirstExists
    <3>7. PICK k \in hits : x = found[written[k]] /\ \A j \in hits : ~(j < k)
      BY <2>3, <3>6
    <3>8. k = i
      BY <2>4, <3>2, <3>7
    <3>9. found[c] = x
      BY <2>1, <2>6, <3>1, <3>7, <3>8
    <3> QED BY <3>6, <3>9 DEF Finds, found, H
  <2> QED BY <2>5, <2>6
<1> QED BY <1>7, <1>8

LEMMA DepthFirstFinds ==
  ASSUME Inv, Leftmost, NEW attr, NEW c \in DOMAIN classes
  PROVE  Finds(c, Having(attr), DepthFirst(attr)[c])
<1> DEFINE P(d) == Finds(d, Having(attr), DepthFirst(attr)[d])
           Good == {n \in Nat : \A d \in DOMAIN classes : d <= n => P(d)}
<1>1. Len(classes) \in Nat /\ DOMAIN classes = 1 .. Len(classes)
  BY Numbered DEF Inv, Orders
<1>2. ASSUME NEW n \in Nat, \A d \in DOMAIN classes : d <= n => P(d),
             NEW d \in DOMAIN classes, d <= n + 1
      PROVE  P(d)
  <2>1. \A e \in 1 .. d - 1 : e \in DOMAIN classes /\ e <= n
    BY <1>1, <1>2
  <2>2. \A e \in 1 .. d - 1 : P(e)
    BY <1>2, <2>1
  <2> QED BY <2>2, FindsStep
<1>3. \A d \in DOMAIN classes : ~(d <= 0)
  BY <1>1
<1> HIDE DEF P
<1>4. Nat \subseteq Good
  <2>1. 0 \in Good /\ \A n \in Nat : n \in Good => n + 1 \in Good
    BY <1>2, <1>3
  <2> HIDE DEF Good
  <2> QED BY <2>1, Counting
<1>5. c \in Nat /\ c \in Good
  BY <1>1, <1>4
<1>6. P(c)
  BY <1>5
<1> QED BY <1>6 DEF P

(* The search along the order ends where the depth-first one does.           *)
LEMMA LookupFinds ==
  ASSUME Inv, Leftmost, NEW attr, NEW c \in DOMAIN classes
  PROVE  /\ lookup_attr_on_class(c, attr) = DepthFirst(attr)[c]
         /\ attr \notin classes[c].attrs => Search(c, attr, 2) = DepthFirst(attr)[c]
<1> DEFINE found == DepthFirst(attr)
           H == Having(attr)
           mro == classes[c].mro
           having == {k \in 2 .. Len(mro) : attr \in classes[mro[k]].attrs}
<1>1. Orders
  BY DEF Inv
<1>2. /\ OrderSound(c) /\ OrderOf(c) \subseteq DOMAIN classes /\ mro \in Seq(Nat)
      /\ DOMAIN mro = 1 .. Len(mro) /\ Len(mro) \in Nat
  <2>1. OrderSound(c) /\ OrderOf(c) \subseteq DOMAIN classes /\ mro \in Seq(Nat)
    BY <1>1, OrdersAreClasses
  <2> QED BY <2>1
<1>3. mro[1] = c
  BY <1>2 DEF OrderSound
<1>4. \A k \in DOMAIN mro : mro[k] \in H <=> attr \in classes[mro[k]].attrs
  BY <1>2 DEF Having, OrderOf, InSeq
<1>5. CASE attr \in classes[c].attrs
  <2>1. found[c] = c
    BY <1>5, DepthFirstUnfold DEF Best
  <2> QED BY <1>5, <2>1 DEF lookup_attr_on_class
<1>6. CASE attr \notin classes[c].attrs
  <2>1. Finds(c, H, found[c])
    BY DepthFirstFinds
  <2> HIDE DEF found, H
  <2>2. having = {k \in DOMAIN mro : mro[k] \in H}
    <3>1. \A k \in DOMAIN mro : k = 1 \/ k \in 2 .. Len(mro)
      BY <1>2
    <3>2. 2 .. Len(mro) \subseteq DOMAIN mro /\ 1 \notin 2 .. Len(mro)
      BY <1>2
    <3> QED BY <1>3, <1>4, <1>6, <3>1, <3>2
  <2>3. CASE having = {}
    <3>1. found[c] = Missing
      BY <2>1, <2>2, <2>3 DEF Finds, FirstIn
    <3> QED BY <1>6, <2>3, <3>1 DEF lookup_attr_on_class, Search, found
  <2>4. CASE having # {}
    <3>1. having \in SUBSET Nat
      OBVIOUS
    <3> HIDE DEF having
    <3>2. PICK k : k = Earliest(having)
      OBVIOUS
    <3>3. k \in having /\ \A j \in having : k <= j
      BY <2>4, <3>1, <3>2, EarliestIs
    <3>4. \A j \in having : ~(j < k)
      BY <3>1, <3>3
    <3>5. FirstIn(mro, H, mro[k])
      BY <2>2, <3>3, <3>4 DEF FirstIn
    <3>6. ~Misses(mro, H)
      BY <3>5 DEF FirstIn, Misses
    <3>7. found[c] = mro[k]
      <4>1. FirstIn(mro, H, found[c]) /\ DOMAIN mro \subseteq Nat
        BY <1>2, <2>1, <3>6 DEF Finds
      <4> QED BY <3>5, <4>1, FirstUnique
    <3>8. Search(c, attr, 2) = mro[k]
      BY <2>4, <3>2 DEF Search, having, Earliest
    <3> QED BY <1>6, <3>7, <3>8 DEF lookup_attr_on_class, found
  <2> QED BY <2>3, <2>4
<1> QED BY <1>5, <1>6

(* For every set of names, every number of classes and of bases, and          *)
(* whatever is assigned to a class after others were made from it: the        *)
(* attribute that is found along the order kept with a class is the one a     *)
(* depth-first search of its bases finds now, and hasattr says of every       *)
(* instance whether its attribute can be loaded.                             *)
THEOREM LookupAlwaysDepthFirst == ClassSpec => []LookupIsDepthFirst
<1>1. Inv /\ Leftmost => LookupIsDepthFirst
  <2> SUFFICES ASSUME Inv, Leftmost, NEW attr \in Names, NEW c \in DOMAIN classes
               PROVE  /\ lookup_attr_on_class(c, attr) = DepthFirst(attr)[c]
                      /\ \A own \in SUBSET Names :
                           builtin_hasattr(own, c, attr) <=>
                             load_attr_instance(own, c, attr) # <<"AttributeError">>
    BY DEF LookupIsDepthFirst
  <2>1. lookup_attr_on_class(c, attr) = DepthFirst(attr)[c]
    BY LookupFinds
  <2>2. ASSUME NEW own \in SUBSET Names
        PROVE  builtin_hasattr(own, c, attr) <=>
                 load_attr_instance(own, c, attr) # <<"AttributeError">>
    <3>1. c # Missing
      BY WrittenAre DEF Missing
    <3>2. \A owner : owner # Missing <=> Bound(owner, attr) # <<"AttributeError">>
      BY DEF Bound
    <3>3. <<"own">> # <<"AttributeError">>
      OBVIOUS
    <3>4. lookup_attr_on_class(c, attr) # Missing <=>
            attr \in classes[c].attrs \/ Search(c, attr, 2) # Missing
      BY <3>1 DEF lookup_attr_on_class
    <3> QED BY <3>2, <3>3, <3>4 DEF builtin_hasattr, load_attr_instance
  <2> QED BY <2>1, <2>2
<1>2. Inv /\ Leftmost /\ [ClassNext]_hierarchy => Inv' /\ Leftmost'
  BY InvStep, LeftmostStep
<1> QED BY InvInit, LeftmostInit, <1>1, <1>2, PTL DEF ClassSpec
=============================================================================
