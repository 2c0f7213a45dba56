----------------------------- MODULE IndexProofs -----------------------------
(***************************************************************************)
(* Theorems about dictionaries and sets of any keys, with any hashes.       *)
(***************************************************************************)
EXTENDS Dicts, Sets, FiniteSetTheorems, SequenceTheorems, WellFoundedInduction, TLAPS

----------------------------------------------------------------------------
(* What the operators of HashIndex return, for every sequence of keys.      *)

(* The intervals up to the members of a set of positions are finite sets,   *)
(* so that one of them contains no other: its end is the least member.      *)
LEMMA LeastExists ==
  ASSUME NEW n \in Nat, NEW T \in SUBSET (1 .. n), T # {}
  PROVE  \E x \in T : \A y \in T : x <= y
<1> DEFINE Upto(x) == 1 .. x
           Intervals == {Upto(x) : x \in T}
           Order == StrictSubsetOrdering(1 .. n)
<1>1. \A x \in T : x \in Nat /\ Upto(x) \in SUBSET (1 .. n)
  OBVIOUS
<1>2. IsWellFoundedOn(Order, SUBSET (1 .. n))
  <2>1. IsFiniteSet(1 .. n)
    BY FS_Interval
  <2>2. FiniteSubsetsOf(1 .. n) = SUBSET (1 .. n)
    BY <2>1, FS_FiniteSubsetsOfFinite
  <2> QED BY <2>2, FS_StrictSubsetOrderingWellFounded
<1>3. Intervals \subseteq SUBSET (1 .. n) /\ Intervals # {}
  BY <1>1
<1>4. PICK I \in Intervals : \A J \in Intervals : ~ (<<J, I>> \in Order)
  <2> HIDE DEF Intervals, Order
  <2> QED BY <1>2, <1>3, WFMin
<1>5. PICK x \in T : I = Upto(x)
  BY <1>4
<1>6. ASSUME NEW y \in T PROVE x <= y
  <2>1. SUFFICES ASSUME y < x PROVE FALSE
    BY <1>1
  <2>2. Upto(y) \in Intervals /\ Upto(x) \in SUBSET (1 .. n) /\ Upto(y) \in SUBSET (1 .. n)
    BY <1>1
  <2>3. Upto(y) \subseteq Upto(x)
    BY <1>1, <2>1
  <2>4. Upto(y) # Upto(x)
    <3>1. x \in Upto(x) /\ ~(x \in Upto(y))
      BY <1>1, <2>1
    <3> QED BY <3>1
  <2>5. <<Upto(y), I>> \in Order
    <3> HIDE DEF Upto
    <3> QED BY <1>5, <2>2, <2>3, <2>4 DEF StrictSubsetOrdering
  <2> QED BY <1>4, <2>2, <2>5
<1> QED BY <1>6

LEMMA GreatestExists ==
  ASSUME NEW n \in Nat, NEW T \in SUBSET (1 .. n), T # {}
  PROVE  \E x \in T : \A y \in T : y <= x
<1> DEFINE U == {n + 1 - x : x \in T}
<1>1. U \in SUBSET (1 .. n) /\ U # {}
  <2>1. \A x \in 1 .. n : n + 1 - x \in 1 .. n
    OBVIOUS
  <2>2. \A x \in T : n + 1 - x \in 1 .. n
    BY <2>1
  <2> QED BY <2>2
<1>2. PICK u \in U : \A y \in U : u <= y
  <2> HIDE DEF U
  <2> QED BY <1>1, LeastExists
<1>3. PICK x \in T : u = n + 1 - x
  OBVIOUS
<1>4. ASSUME NEW y \in T PROVE y <= x
  <2>1. n + 1 - y \in U /\ x \in 1 .. n /\ y \in 1 .. n
    OBVIOUS
  <2>2. n + 1 - x <= n + 1 - y
    BY <1>2, <1>3, <2>1
  <2> QED BY <2>1, <2>2
<1> QED BY <1>4

(* The first of some positions is one of them, and no later than any.       *)
LEMMA FirstIsFirst ==
  ASSUME NEW s \in Seq(Keys), NEW T \in SUBSET DOMAIN s, T # {}
  PROVE  First(T) \in T /\ \A i \in T : First(T) <= i
<1>1. Len(s) \in Nat /\ DOMAIN s = 1 .. Len(s)
  OBVIOUS
<1>2. \E i \in T : \A j \in T : i <= j
  BY <1>1, LeastExists
<1> QED BY <1>2 DEF First

(* A hash of a sequence of keys leads to the newest position of its keys.   *)
LEMMA NewestIsNewest ==
  ASSUME NEW s \in Seq(Keys), NEW hash \in Hashes(s)
  PROVE  /\ Newest(s, hash) \in DOMAIN s
         /\ Hash[s[Newest(s, hash)]] = hash
         /\ \A j \in DOMAIN s : Hash[s[j]] = hash => j <= Newest(s, hash)
<1> DEFINE T == {i \in DOMAIN s : Hash[s[i]] = hash}
<1>1. Len(s) \in Nat /\ DOMAIN s = 1 .. Len(s)
  OBVIOUS
<1>2. T # {} /\ T \in SUBSET (1 .. Len(s))
  BY <1>1 DEF Hashes
<1>3. \E x \in T : \A y \in T : y <= x
  <2> HIDE DEF T
  <2> QED BY <1>1, <1>2, GreatestExists
<1>4. \E i \in DOMAIN s : Hash[s[i]] = hash /\ \A j \in DOMAIN s : Hash[s[j]] = hash => j <= i
  BY <1>3
<1> QED BY <1>4 DEF Newest

LEMMA NewestUnique ==
  ASSUME NEW s \in Seq(Keys), NEW hash \in Hashes(s),
         NEW i \in DOMAIN s, Hash[s[i]] = hash,
         \A j \in DOMAIN s : Hash[s[j]] = hash => j <= i
  PROVE  Newest(s, hash) = i
<1>1. Len(s) \in Nat /\ DOMAIN s = 1 .. Len(s)
  OBVIOUS
<1> QED BY <1>1, NewestIsNewest

(* Entering the position of an appended key gives the map of all positions  *)
(* (index_map.insert in MAP_ADD, SET_ADD and subscript_set).                *)
LEMMA InsertReindexes ==
  ASSUME NEW s \in Seq(Keys), NEW k \in Keys
  PROVE  Reindexed(Append(s, k)) = Insert(Reindexed(s), Hash[k], Len(s) + 1)
<1> DEFINE t == Append(s, k)
           n == Len(s) + 1
<1>1. /\ t \in Seq(Keys) /\ Len(s) \in Nat /\ n \in Nat
      /\ DOMAIN s = 1 .. Len(s) /\ DOMAIN t = 1 .. n
      /\ t[n] = k /\ \A i \in DOMAIN s : t[i] = s[i]
  OBVIOUS
<1> HIDE DEF t, n
<1>2. Hashes(t) = Hashes(s) \cup {Hash[k]}
  <2>1. ASSUME NEW h \in Hashes(t) PROVE h \in Hashes(s) \cup {Hash[k]}
    <3>1. PICK i \in DOMAIN t : h = Hash[t[i]]
      BY DEF Hashes
    <3>2. i \in DOMAIN s \/ i = n
      BY <1>1 DEF n
    <3> QED BY <1>1, <3>1, <3>2 DEF Hashes
  <2>2. Hash[k] \in Hashes(t)
    BY <1>1 DEF Hashes, n
  <2>3. \A i \in DOMAIN s : i \in DOMAIN t
    BY <1>1 DEF n
  <2>4. Hashes(s) \subseteq Hashes(t)
    BY <1>1, <2>3 DEF Hashes
  <2> QED BY <2>1, <2>2, <2>4
<1>3. Newest(t, Hash[k]) = n
  <2>1. n \in DOMAIN t /\ Hash[t[n]] = Hash[k] /\ \A j \in DOMAIN t : j <= n
    BY <1>1 DEF n
  <2>2. Hash[k] \in Hashes(t)
    BY <1>2
  <2> QED BY <1>1, <2>1, <2>2, NewestUnique
<1>4. ASSUME NEW h \in Hashes(s), h # Hash[k] PROVE Newest(t, h) = Newest(s, h)
  <2>1. /\ Newest(s, h) \in DOMAIN s /\ Hash[s[Newest(s, h)]] = h
        /\ \A j \in DOMAIN s : Hash[s[j]] = h => j <= Newest(s, h)
    BY NewestIsNewest
  <2>2. Newest(s, h) \in DOMAIN t /\ Hash[t[Newest(s, h)]] = h
    BY <1>1, <2>1 DEF n
  <2>3. ASSUME NEW j \in DOMAIN t, Hash[t[j]] = h PROVE j <= Newest(s, h)
    <3>1. j \in DOMAIN s
      BY <1>1, <1>4, <2>3 DEF n
    <3> QED BY <1>1, <2>1, <2>3, <3>1
  <2>4. h \in Hashes(t)
    BY <1>2
  <2> QED BY <1>1, <2>2, <2>3, <2>4, NewestUnique
<1>5. DOMAIN Insert(Reindexed(s), Hash[k], n) = Hashes(t)
  BY <1>2 DEF Insert, Reindexed
<1>6. ASSUME NEW h \in Hashes(t)
      PROVE  Newest(t, h) = Insert(Reindexed(s), Hash[k], n)[h]
  <2>1. CASE h = Hash[k]
    BY <1>2, <1>3, <2>1 DEF Insert, Reindexed
  <2>2. CASE h # Hash[k]
    <3>1. h \in Hashes(s)
      BY <1>2, <2>2
    <3> QED BY <1>4, <2>2, <3>1 DEF Insert, Reindexed
  <2> QED BY <2>1, <2>2
<1> QED BY <1>5, <1>6 DEF Reindexed, Insert, t, n

----------------------------------------------------------------------------
(* The inductive invariant.                                                 *)
Contents ==
  /\ keys \in Seq(Keys) /\ values \in Seq(Values)
  /\ Len(values) = Len(keys)
  /\ index_map = Reindexed(keys)

Phases ==
  /\ phase \in {"none", "comprehension", "made"}
  /\ phase = "none" => keys = <<>> /\ values = <<>>
  /\ phase # "made" => answer = NoAnswer /\ iterator = NoIterator

DictInv == Contents /\ Phases

----------------------------------------------------------------------------
(* What the operations do to the contents.                                  *)

(* The positions of the keys are those of the values.                       *)
LEMMA Positions ==
  ASSUME Contents
  PROVE  /\ Len(keys) \in Nat /\ DOMAIN keys = 1 .. Len(keys) /\ DOMAIN values = DOMAIN keys
         /\ \A i \in DOMAIN keys : keys[i] \in Keys /\ values[i] \in Values
BY DEF Contents

(* index_map leads from the hash of a key to a position with that hash.     *)
LEMMA Leads ==
  ASSUME Contents, NEW h
  PROVE  /\ h \in DOMAIN index_map <=> \E i \in DOMAIN keys : Hash[keys[i]] = h
         /\ h \in DOMAIN index_map =>
              index_map[h] \in DOMAIN keys /\ Hash[keys[index_map[h]]] = h
<1>1. DOMAIN index_map = Hashes(keys) /\ \A g \in Hashes(keys) : index_map[g] = Newest(keys, g)
  BY DEF Contents, Reindexed
<1> QED BY <1>1, NewestIsNewest DEF Contents, Hashes

(* A new pair at the end keeps the index sound (Insert at the hash).        *)
LEMMA AddKeeps ==
  ASSUME Contents, NEW k \in Keys, NEW v \in Values, Add(k, v)
  PROVE  /\ Contents'
         /\ Len(keys') = Len(keys) + 1
         /\ DOMAIN keys' = 1 .. Len(keys) + 1
         /\ keys'[Len(keys) + 1] = k /\ \A i \in DOMAIN keys : keys'[i] = keys[i]
<1>1. /\ keys' \in Seq(Keys) /\ values' \in Seq(Values)
      /\ Len(keys') = Len(keys) + 1 /\ Len(values') = Len(values) + 1
      /\ DOMAIN keys' = 1 .. Len(keys) + 1
      /\ keys'[Len(keys) + 1] = k /\ \A i \in DOMAIN keys : keys'[i] = keys[i]
  BY DEF Contents, Add
<1>2. index_map' = Reindexed(keys')
  BY InsertReindexes DEF Contents, Add
<1> QED BY <1>1, <1>2 DEF Contents

(* A new value in an old place leaves keys and index as they are.           *)
LEMMA ReplaceKeeps ==
  ASSUME Contents, NEW i \in DOMAIN keys, NEW v \in Values, Replace(i, v)
  PROVE  Contents'
BY Positions DEF Contents, Replace

(* What pop leaves of a sequence: everything but the one place.             *)
LEMMA WithoutIsShorter ==
  ASSUME NEW S, NEW s \in Seq(S), NEW i \in DOMAIN s
  PROVE  /\ Without(s, i) \in Seq(S)
         /\ Len(Without(s, i)) = Len(s) - 1
         /\ DOMAIN Without(s, i) = 1 .. Len(s) - 1
         /\ \A j \in 1 .. Len(s) - 1 :
              Without(s, i)[j] = s[IF j < i THEN j ELSE j + 1]
<1>1. /\ Len(s) \in Nat /\ DOMAIN s = 1 .. Len(s) /\ Len(s) - 1 \in Nat
      /\ i \in 1 .. Len(s) /\ \A j \in 1 .. Len(s) : s[j] \in S
  OBVIOUS
<1>2. \A j \in 1 .. Len(s) - 1 : s[IF j < i THEN j ELSE j + 1] \in S
  BY <1>1
<1>3. Without(s, i) \in [1 .. Len(s) - 1 -> S]
  BY <1>2 DEF Without
<1>4. Without(s, i) \in Seq(S) /\ Len(Without(s, i)) = Len(s) - 1
  <2> DEFINE n == Len(s) - 1
             t == Without(s, i)
  <2>1. n \in Nat /\ t \in [1 .. n -> S]
    BY <1>1, <1>3
  <2> HIDE DEF n, t
  <2>2. t \in Seq(S) /\ Len(t) = n
    BY <2>1
  <2> QED BY <2>2 DEF n, t
<1> QED BY <1>4 DEF Without

(* pop enters what is left into a new index, which is sound again.          *)
LEMMA RemoveKeeps ==
  ASSUME Contents, NEW i \in DOMAIN keys, Remove(i)
  PROVE  Contents'
<1>1. /\ Without(keys, i) \in Seq(Keys) /\ Len(Without(keys, i)) = Len(keys) - 1
      /\ Without(values, i) \in Seq(Values) /\ Len(Without(values, i)) = Len(values) - 1
  BY Positions, WithoutIsShorter DEF Contents
<1> QED BY <1>1 DEF Contents, Remove

(* A display enters all its keys, a comprehension's none.                   *)
LEMMA DisplayKeepsContents ==
  ASSUME NEW ks \in Seq(Keys), NEW vs \in Seq(Values), Len(vs) = Len(ks), Display(ks, vs)
  PROVE  Contents'
BY DEF Contents, Display

LEMMA RangesAreSequences ==
  ASSUME NEW S, NEW n \in 0 .. MaxEntries, NEW s \in [1 .. n -> S]
  PROVE  s \in Seq(S) /\ Len(s) = n
<1>1. n \in Nat
  BY DictAssumption
<1> QED BY <1>1

----------------------------------------------------------------------------
(* A dictionary that is not made yet.                                       *)
LEMMA InvInit == DictInit => DictInv
<1> SUFFICES ASSUME DictInit PROVE DictInv
  OBVIOUS
<1>1. keys = <<>> /\ values = <<>> /\ index_map = <<>>
  BY DEF DictInit
<1>2. Reindexed(<<>>) = <<>>
  <2>1. Hashes(<<>>) = {}
    BY DEF Hashes
  <2> QED BY <2>1 DEF Reindexed
<1>3. Contents
  BY <1>1, <1>2 DEF Contents
<1> QED BY <1>1, <1>3 DEF DictInit, DictInv, Phases

(* Every operation keeps contents and phases.                               *)
LEMMA InvNext == DictInv /\ [DictNext]_dict => DictInv'
<1> SUFFICES ASSUME DictInv, [DictNext]_dict PROVE DictInv'
  OBVIOUS
<1> USE DEF DictInv
<1>1. ASSUME NEW n \in 0 .. MaxEntries, NEW ks \in [1 .. n -> Keys],
             NEW vs \in [1 .. n -> Values], BUILD_DICT(ks, vs)
      PROVE  DictInv'
  <2>1. Contents'
    BY <1>1, RangesAreSequences, DisplayKeepsContents DEF BUILD_DICT
  <2> QED BY <1>1, <2>1 DEF BUILD_DICT, Display, Phases, history
<1>2. CASE Comprehension
  <2>1. << >> \in Seq(Keys) /\ << >> \in Seq(Values)
    OBVIOUS
  <2>2. Contents'
    BY <1>2, <2>1, DisplayKeepsContents DEF Comprehension
  <2> QED BY <1>2, <2>2 DEF Comprehension, Display, Phases, history
<1>3. CASE EndComprehension
  BY <1>3 DEF EndComprehension, Contents, Phases, history
<1>4. ASSUME NEW k \in Keys, NEW v \in Values, MAP_ADD(k, v)
      PROVE  DictInv'
  <2>1. Phases'
    BY <1>4 DEF MAP_ADD, Assigned, Phases, history
  <2>2. CASE Scan(keys, k) # {}
    <3>1. First(Scan(keys, k)) \in DOMAIN keys
      BY <2>2, FirstIsFirst DEF Contents, Scan
    <3> QED BY <1>4, <2>1, <2>2, <3>1, ReplaceKeeps DEF MAP_ADD
  <2>3. CASE Scan(keys, k) = {}
    BY <1>4, <2>1, <2>3, AddKeeps DEF MAP_ADD
  <2> QED BY <2>2, <2>3
<1>5. ASSUME NEW k \in Keys, NEW v \in Values, subscript_set(k, v)
      PROVE  DictInv'
  <2>1. Phases'
    BY <1>5 DEF subscript_set, Assigned, Phases, history
  <2>2. CASE Hit(keys, index_map, k)
    <3>1. index_map[Hash[k]] \in DOMAIN keys
      BY <2>2, Leads DEF Hit
    <3> QED BY <1>5, <2>1, <2>2, <3>1, ReplaceKeeps DEF subscript_set
  <2>3. CASE ~Hit(keys, index_map, k)
    BY <1>5, <2>1, <2>3, AddKeeps DEF subscript_set
  <2> QED BY <2>2, <2>3
<1>6. ASSUME NEW question, Asked(question)
      PROVE  DictInv'
  BY <1>6 DEF Asked, Contents, Phases, history
<1>7. ASSUME NEW k \in Keys, NEW otherwise, dict_pop(k, otherwise)
      PROVE  DictInv'
  <2>1. Phases'
    BY <1>7 DEF dict_pop, Phases
  <2>2. CASE Hash[k] \in DOMAIN index_map
    <3>1. index_map[Hash[k]] \in DOMAIN keys
      BY <2>2, Leads
    <3>2. Remove(index_map[Hash[k]])
      BY <1>7, <2>2 DEF dict_pop
    <3> QED BY <2>1, <3>1, <3>2, RemoveKeeps
  <2>3. CASE ~(Hash[k] \in DOMAIN index_map)
    BY <1>7, <2>1, <2>3 DEF dict_pop, Contents
  <2> QED BY <2>2, <2>3
<1>8. CASE GET_ITER
  BY <1>8 DEF GET_ITER, Contents, Phases
<1>9. CASE FOR_ITER
  BY <1>9 DEF FOR_ITER, Contents, Phases
<1>10. CASE UNCHANGED dict
  BY <1>10 DEF dict, Contents, Phases
<1> QED
  BY <1>1, <1>2, <1>3, <1>4, <1>5, <1>6, <1>7, <1>8, <1>9, <1>10
     DEF DictNext, dict_get, subscript_get, contains, dict_items, dict_len

(* index_map is sound in every dictionary, whatever keys share a hash.      *)
THEOREM IndexAlwaysSound == DictSpec => []IndexSound
<1>1. DictInv => IndexSound
  BY DEF DictInv, Contents, IndexSound
<1> QED BY <1>1, InvInit, InvNext, PTL DEF DictSpec

----------------------------------------------------------------------------
(* Loops over a dictionary.                                                 *)

Behind == {keys[i] : i \in {j \in DOMAIN keys : j <= iterator}}

Given ==
  /\ seen \subseteq Behind
  /\ ~popped => iterator <= Len(keys) /\ seen = Behind

Loop == iterator # NoIterator => iterator \in Nat /\ Given

LEMMA BehindIs == \A x : x \in Behind <=> \E j \in DOMAIN keys : j <= iterator /\ x = keys[j]
BY DEF Behind

(* A step that touches neither keys nor loop leaves the loop sound.         *)
LEMMA LoopKept ==
  ASSUME Loop, UNCHANGED <<keys, iterator, seen, popped>>
  PROVE  Loop'
BY DEF Loop, Given, Behind

(* A key added at the end stands before an iterator that missed none.       *)
LEMMA LoopOverAdd ==
  ASSUME DictInv, Loop, NEW k \in Keys, NEW v \in Values, Add(k, v), UNCHANGED history
  PROVE  Loop'
<1>1. SUFFICES ASSUME iterator # NoIterator PROVE iterator \in Nat /\ Given'
  BY DEF Loop, history
<1>2. iterator \in Nat /\ Given
  BY <1>1 DEF Loop
<1>3. /\ Len(keys') = Len(keys) + 1 /\ DOMAIN keys' = 1 .. Len(keys) + 1
      /\ \A i \in DOMAIN keys : keys'[i] = keys[i]
      /\ Len(keys) \in Nat /\ DOMAIN keys = 1 .. Len(keys)
  BY AddKeeps, Positions DEF DictInv
<1>4. \A i \in DOMAIN keys : i \in DOMAIN keys'
  BY <1>3
<1>5. Behind' = {keys'[i] : i \in {j \in DOMAIN keys' : j <= iterator}}
  BY DEF Behind, history
<1>6. Behind \subseteq Behind'
  BY <1>3, <1>4, <1>5 DEF Behind
<1>7. ASSUME iterator <= Len(keys) PROVE Behind' = Behind
  <2>1. \A j \in DOMAIN keys' : j <= iterator => j \in DOMAIN keys
    BY <1>2, <1>3, <1>7
  <2>2. Behind' \subseteq Behind
    BY <1>3, <1>5, <2>1 DEF Behind
  <2> QED BY <1>6, <2>2
<1> QED BY <1>2, <1>3, <1>6, <1>7 DEF Given, history

(* pop moves keys towards the front: none moves past the iterator.          *)
LEMMA LoopOverRemove ==
  ASSUME DictInv, Loop, NEW i \in DOMAIN keys, Remove(i), seen' = seen \ {keys[i]},
         popped', UNCHANGED iterator
  PROVE  Loop'
<1>1. SUFFICES ASSUME iterator # NoIterator PROVE iterator \in Nat /\ Given'
  BY DEF Loop
<1>2. iterator \in Nat /\ Given
  BY <1>1 DEF Loop
<1>3. /\ DOMAIN keys' = 1 .. Len(keys) - 1 /\ Len(keys) \in Nat /\ i \in 1 .. Len(keys)
      /\ DOMAIN keys = 1 .. Len(keys)
      /\ \A j \in DOMAIN keys' : keys'[j] = keys[IF j < i THEN j ELSE j + 1]
  BY Positions, WithoutIsShorter DEF DictInv, Contents, Remove
<1>4. ASSUME NEW x \in seen'
      PROVE  \E j \in DOMAIN keys' : j <= iterator /\ x = keys'[j]
  <2>1. PICK a \in DOMAIN keys : a <= iterator /\ x = keys[a]
    BY <1>2, <1>4, BehindIs DEF Given
  <2>2. a # i
    BY <1>4, <2>1
  <2>3. CASE a < i
    BY <1>3, <2>1, <2>3
  <2>4. CASE a > i
    <3>1. a - 1 \in DOMAIN keys' /\ ~(a - 1 < i) /\ a - 1 + 1 = a /\ a - 1 <= iterator
      BY <1>2, <1>3, <2>1, <2>4
    <3> QED BY <1>3, <2>1, <3>1
  <2> QED BY <1>3, <2>1, <2>2, <2>3, <2>4
<1>5. Behind' = {keys'[j] : j \in {a \in DOMAIN keys' : a <= iterator}}
  BY DEF Behind
<1>6. seen' \subseteq Behind'
  BY <1>4, <1>5
<1> QED BY <1>2, <1>6 DEF Given

(* The iterator moves by the one key that the loop is given.                *)
LEMMA LoopOverNext ==
  ASSUME DictInv, Loop, FOR_ITER
  PROVE  Loop'
<1>1. SUFFICES ASSUME iterator' # NoIterator PROVE iterator' \in Nat /\ Given'
  BY DEF Loop
<1>2. /\ iterator \in Nat /\ Given /\ ~(iterator >= Len(keys))
      /\ iterator' = iterator + 1 /\ seen' = seen \cup {keys[iterator + 1]}
      /\ popped' = popped /\ keys' = keys
      /\ Len(keys) \in Nat /\ DOMAIN keys = 1 .. Len(keys)
  BY <1>1, Positions DEF FOR_ITER, Loop, DictInv
<1>3. \A j \in DOMAIN keys : j <= iterator + 1 <=> j <= iterator \/ j = iterator + 1
  BY <1>2
<1>4. iterator + 1 \in DOMAIN keys /\ iterator + 1 <= Len(keys)
  BY <1>2
<1>5. Behind' = {keys[i] : i \in {j \in DOMAIN keys : j <= iterator + 1}}
  BY <1>2 DEF Behind
<1>6. Behind' = Behind \cup {keys[iterator + 1]}
  BY <1>3, <1>4, <1>5 DEF Behind
<1> QED BY <1>2, <1>4, <1>6 DEF Given

(* Every operation keeps a running loop sound.                              *)
LEMMA LoopNext == DictInv /\ Loop /\ [DictNext]_dict => Loop'
<1> SUFFICES ASSUME DictInv, Loop, [DictNext]_dict PROVE Loop'
  OBVIOUS
<1>1. ASSUME phase # "made" PROVE Loop'
  <2>1. iterator' = NoIterator
    BY <1>1 DEF DictInv, Phases, DictNext, BUILD_DICT, Comprehension, Display, EndComprehension,
         MAP_ADD, Assigned, subscript_set, dict_get, subscript_get, contains, Asked, dict_pop,
         dict_items, dict_len, GET_ITER, FOR_ITER, dict, history
  <2> QED BY <2>1 DEF Loop
<1>2. ASSUME NEW k \in Keys, NEW v \in Values, subscript_set(k, v) PROVE Loop'
  <2>1. CASE Hit(keys, index_map, k)
    BY <1>2, <2>1, LoopKept DEF subscript_set, Assigned, Replace, history
  <2>2. CASE ~Hit(keys, index_map, k)
    BY <1>2, <2>2, LoopOverAdd DEF subscript_set, Assigned
  <2> QED BY <2>1, <2>2
<1>3. ASSUME NEW question, Asked(question) PROVE Loop'
  BY <1>3, LoopKept DEF Asked, history
<1>4. ASSUME NEW k \in Keys, NEW otherwise, dict_pop(k, otherwise) PROVE Loop'
  <2>1. CASE Hash[k] \in DOMAIN index_map
    <3>1. index_map[Hash[k]] \in DOMAIN keys
      BY <2>1, Leads DEF DictInv
    <3>2. /\ Remove(index_map[Hash[k]]) /\ popped' /\ UNCHANGED iterator
          /\ seen' = seen \ {keys[index_map[Hash[k]]]}
      BY <1>4, <2>1 DEF dict_pop
    <3> QED BY <3>1, <3>2, LoopOverRemove
  <2>2. CASE ~(Hash[k] \in DOMAIN index_map)
    BY <1>4, <2>2, LoopKept DEF dict_pop
  <2> QED BY <2>1, <2>2
<1>5. CASE GET_ITER
  <2>1. /\ iterator' = 0 /\ seen' = {} /\ keys' = keys /\ Len(keys) \in Nat
        /\ DOMAIN keys = 1 .. Len(keys)
    BY <1>5, Positions DEF GET_ITER, DictInv
  <2>2. Behind' = {}
    BY <2>1 DEF Behind
  <2> QED BY <2>1, <2>2 DEF Loop, Given
<1>6. CASE FOR_ITER
  BY <1>6, LoopOverNext
<1>7. CASE UNCHANGED dict
  BY <1>7, LoopKept DEF dict
<1>8. ASSUME phase = "made" PROVE Loop'
  BY <1>2, <1>3, <1>4, <1>5, <1>6, <1>7, <1>8
     DEF DictNext, BUILD_DICT, Comprehension, Display, EndComprehension, MAP_ADD, dict_get,
         subscript_get, contains, dict_items, dict_len
<1> QED BY <1>1, <1>8

(* What a loop was given and is still there stands behind its index, and     *)
(* unless something is popped that is all that stands there: in every         *)
(* dictionary, also one that holds a key twice.                              *)
THEOREM IterationAlwaysSound == DictSpec => []IterationSound
<1>1. DictInit => Loop
  BY DEF DictInit, Loop
<1>2. Loop => IterationSound
  BY DEF Loop, Given, Behind, IterationSound
<1> QED BY <1>1, <1>2, InvInit, InvNext, LoopNext, PTL DEF DictSpec

----------------------------------------------------------------------------
(* The ordered map.                                                         *)

Shown ==
  /\ Pairs(keys, values) \in Seq(Keys \X Values)
  /\ Len(Pairs(keys, values)) = Len(keys)
  /\ DOMAIN Pairs(keys, values) = DOMAIN keys
  /\ \A i \in DOMAIN keys : Pairs(keys, values)[i] = <<keys[i], values[i]>>

(* The entries of a dictionary, and the places of a key in them.            *)
LEMMA EntriesAre == Contents => Shown
<1> SUFFICES ASSUME Contents PROVE Shown
  OBVIOUS
<1>1. /\ DOMAIN keys = 1 .. Len(keys) /\ Len(keys) \in Nat
      /\ \A i \in DOMAIN keys : keys[i] \in Keys /\ values[i] \in Values
  BY Positions
<1>2. Pairs(keys, values) \in [1 .. Len(keys) -> Keys \X Values]
  BY <1>1 DEF Pairs
<1>3. Pairs(keys, values) \in Seq(Keys \X Values) /\ Len(Pairs(keys, values)) = Len(keys)
  BY <1>1, <1>2
<1> QED BY <1>3 DEF Shown, Pairs

(* The same of the state after a step.                                      *)
LEMMA EntriesAreAfter ==
  ASSUME Contents'
  PROVE  Shown'
BY EntriesAre, PTL

LEMMA SameIsSame ==
  ASSUME NEW a \in Keys, NEW b \in Keys
  PROVE  Promise!Same(a, b) <=> Same(a, b)
BY DEF Promise!Same, Alike

LEMMA PlacesAre ==
  ASSUME Contents, NEW k \in Keys
  PROVE  Promise!Places(k) = {i \in DOMAIN keys : Same(keys[i], k)}
<1>1. \A i \in DOMAIN keys : Pairs(keys, values)[i][1] = keys[i] /\ keys[i] \in Keys
  BY EntriesAre, Positions DEF Shown
<1>2. \A i \in DOMAIN keys : Promise!Same(Pairs(keys, values)[i][1], k) <=> Same(keys[i], k)
  BY <1>1, SameIsSame
<1>3. DOMAIN Pairs(keys, values) = DOMAIN keys
  BY DEF Pairs
<1> QED BY <1>2, <1>3 DEF Promise!Places

(* Where equal keys have one hash a scan finds the places of a key, index_map *)
(* leads to one of them or to another key of the hash, and there is none      *)
(* without an entry for the hash.                                             *)
LEMMA PlaceOf ==
  ASSUME HashesAgree, Contents, NEW k \in Keys
  PROVE  /\ Scan(keys, k) = Promise!Places(k)
         /\ Hit(keys, index_map, k) => index_map[Hash[k]] \in Promise!Places(k)
         /\ ~(Hash[k] \in DOMAIN index_map) => Promise!Places(k) = {}
<1>1. \A i \in DOMAIN keys : keys[i] \in Keys
  BY Positions
<1>2. \A i \in DOMAIN keys : Same(keys[i], k) => Hash[keys[i]] = Hash[k]
  BY <1>1 DEF HashesAgree, Same
<1>3. \A i \in DOMAIN keys : Hash[keys[i]] = Hash[k] /\ values_equal(keys[i], k) <=> Same(keys[i], k)
  BY <1>2 DEF Same
<1>4. Scan(keys, k) = Promise!Places(k)
  BY <1>3, PlacesAre DEF Scan
<1>5. Hit(keys, index_map, k) => index_map[Hash[k]] \in Promise!Places(k)
  BY <1>4, Leads DEF Hit, Scan
<1>6. ~(Hash[k] \in DOMAIN index_map) => Promise!Places(k) = {}
  BY <1>4, Leads DEF Scan
<1> QED BY <1>4, <1>5, <1>6

(* A sequence that is longer by one element is the one appended to.         *)
LEMMA AppendIs ==
  ASSUME NEW S, NEW s \in Seq(S), NEW x \in S, NEW t \in Seq(S), Len(t) = Len(s) + 1,
         t[Len(s) + 1] = x, \A i \in 1 .. Len(s) : t[i] = s[i]
  PROVE  t = Append(s, x)
<1> DEFINE e == Append(s, x)
<1>1. /\ e \in Seq(S) /\ Len(e) = Len(s) + 1 /\ Len(s) \in Nat
      /\ \A i \in 1 .. Len(s) : e[i] = s[i]
  BY AppendProperties
<1>2. e[Len(s) + 1] = x
  BY AppendProperties
<1> HIDE DEF e
<1>3. \A i \in 1 .. Len(t) : t[i] = e[i]
  BY <1>1, <1>2
<1>4. t = e
  BY <1>1, <1>3, SeqEqual
<1> QED BY <1>4 DEF e

(* Making a dictionary of different keys is Display.                        *)
LEMMA DisplayStep ==
  ASSUME Phases, Contents', NEW ks, NEW vs, Display(ks, vs), phase' # "none", ~Strays
  PROVE  Promise!Display
<1>1. /\ phase = "none" /\ asked' = <<"display", Pairs(keys, values)'>> /\ answer' = NoAnswer
  BY DEF Display, Phases
<1>2. ~Repeats(Pairs(keys, values)')
  BY <1>1 DEF Strays
<1>3. Shown'
  BY EntriesAreAfter
<1>4. \A i \in DOMAIN Pairs(keys, values)' : Pairs(keys, values)'[i][1] \in Keys
  BY <1>3 DEF Shown
<1>5. \A i, j \in DOMAIN Pairs(keys, values)' :
        Promise!Same(Pairs(keys, values)'[i][1], Pairs(keys, values)'[j][1]) => i = j
  BY <1>2, <1>4, SameIsSame DEF Repeats
<1> QED BY <1>1, <1>3, <1>5 DEF Promise!Display, Shown

(* A new value in a place of the key is Assign.                             *)
LEMMA ReplaceStep ==
  ASSUME Contents, NEW k \in Keys, NEW v \in Values, NEW i \in Promise!Places(k),
         Replace(i, v), Assigned(k, v)
  PROVE  Promise!Assign(k, v)
<1>1. i \in DOMAIN keys /\ DOMAIN values = DOMAIN keys
  BY PlacesAre, Positions
<1>2. values' = [values EXCEPT ![i] = v] /\ keys' = keys
  BY DEF Replace
<1>3. Pairs(keys', values') = [Pairs(keys, values) EXCEPT ![i] = <<Pairs(keys, values)[i][1], v>>]
  BY <1>1, <1>2 DEF Pairs
<1>4. asked' = <<"set", k, v>> /\ answer' = NoAnswer
  BY DEF Assigned
<1> QED BY <1>3, <1>4 DEF Promise!Assign

(* A pair added for a key that is not there is Assign.                      *)
LEMMA AddStep ==
  ASSUME Contents, Contents', NEW k \in Keys, NEW v \in Values, Promise!Places(k) = {},
         Add(k, v), Assigned(k, v)
  PROVE  Promise!Assign(k, v)
<1> DEFINE before == Pairs(keys, values)
           after == Pairs(keys, values)'
           pair == <<k, v>>
<1>1. /\ Len(keys') = Len(keys) + 1 /\ keys'[Len(keys) + 1] = k
      /\ DOMAIN keys' = 1 .. Len(keys) + 1
      /\ \A i \in DOMAIN keys : keys'[i] = keys[i]
      /\ Len(keys) \in Nat /\ DOMAIN keys = 1 .. Len(keys)
  BY AddKeeps, Positions
<1>2. values'[Len(keys) + 1] = v /\ \A i \in DOMAIN keys : values'[i] = values[i]
  BY Positions DEF Add, Contents
<1>3. /\ before \in Seq(Keys \X Values) /\ Len(before) = Len(keys)
      /\ \A i \in DOMAIN keys : before[i] = <<keys[i], values[i]>>
  BY EntriesAre DEF Shown
<1>4. /\ after \in Seq(Keys \X Values) /\ Len(after) = Len(keys')
      /\ \A i \in DOMAIN keys' : after[i] = <<keys'[i], values'[i]>>
  BY EntriesAreAfter DEF Shown
<1>5. pair \in Keys \X Values
  OBVIOUS
<1> HIDE DEF before, after
<1>6. Len(after) = Len(before) + 1 /\ after[Len(before) + 1] = pair
  BY <1>1, <1>2, <1>3, <1>4
<1>7. ASSUME NEW i \in 1 .. Len(before) PROVE after[i] = before[i]
  <2>1. i \in DOMAIN keys /\ i \in DOMAIN keys'
    BY <1>1, <1>3
  <2> QED BY <1>1, <1>2, <1>3, <1>4, <2>1
<1> HIDE DEF pair
<1>8. after = Append(before, pair)
  BY <1>3, <1>4, <1>5, <1>6, <1>7, AppendIs
<1>9. asked' = <<"set", k, v>> /\ answer' = NoAnswer
  BY DEF Assigned
<1> QED BY <1>8, <1>9 DEF Promise!Assign, before, after, pair

(* MAP_ADD and subscript_set are Assign.                                    *)
LEMMA MapAddStep ==
  ASSUME HashesAgree, Contents, Contents', NEW k \in Keys, NEW v \in Values, MAP_ADD(k, v)
  PROVE  Promise!Assign(k, v)
<1>1. Scan(keys, k) = Promise!Places(k) /\ Assigned(k, v)
  BY PlaceOf DEF MAP_ADD
<1>2. CASE Scan(keys, k) # {}
  <2>1. First(Scan(keys, k)) \in Scan(keys, k)
    BY <1>2, FirstIsFirst DEF Contents, Scan
  <2>2. Replace(First(Scan(keys, k)), v)
    BY <1>2 DEF MAP_ADD
  <2> QED BY <1>1, <2>1, <2>2, ReplaceStep
<1>3. CASE Scan(keys, k) = {}
  BY <1>1, <1>3, AddStep DEF MAP_ADD
<1> QED BY <1>2, <1>3

LEMMA SetStep ==
  ASSUME HashesAgree, Contents, Contents', NEW k \in Keys, NEW v \in Values,
         subscript_set(k, v), ~Strays
  PROVE  Promise!Assign(k, v)
<1>1. phase = "made" /\ asked' = <<"set", k, v>> /\ Assigned(k, v)
  BY DEF subscript_set, Assigned
<1>2. CASE Hit(keys, index_map, k)
  <2>1. index_map[Hash[k]] \in Promise!Places(k)
    BY <1>2, PlaceOf
  <2> QED BY <1>1, <1>2, <2>1, ReplaceStep DEF subscript_set
<1>3. CASE ~Hit(keys, index_map, k)
  <2>1. ~Taken(k) \/ Scan(keys, k) = {}
    BY <1>1 DEF Strays
  <2>2. Promise!Places(k) = {}
    BY <1>3, <2>1, PlaceOf DEF Taken
  <2> QED BY <1>1, <1>3, <2>2, AddStep DEF subscript_set
<1> QED BY <1>2, <1>3

(* What is found: the value of a place of the key.                          *)
LEMMA ValueAt ==
  ASSUME Contents, NEW k \in Keys, NEW i \in Promise!Places(k)
  PROVE  i \in DOMAIN keys /\ Pairs(keys, values)[i][2] = values[i]
BY PlacesAre, EntriesAre DEF Shown

(* The answer that Look allows.                                             *)
LEMMA LookFound ==
  ASSUME Contents, NEW k \in Keys, NEW otherwise, NEW i \in Promise!Places(k),
         UNCHANGED <<keys, values>>, answer' = <<"result", values[i]>>
  PROVE  Promise!Look(k, otherwise)
<1>1. answer' = <<"result", Pairs(keys, values)[i][2]>>
  BY ValueAt
<1>2. Pairs(keys', values') = Pairs(keys, values)
  OBVIOUS
<1> QED BY <1>1, <1>2 DEF Promise!Look

LEMMA LookMissed ==
  ASSUME NEW k \in Keys, NEW otherwise, Promise!Places(k) = {},
         UNCHANGED <<keys, values>>, answer' = <<"result", otherwise>>
  PROVE  Promise!Look(k, otherwise)
<1>1. Pairs(keys', values') = Pairs(keys, values)
  OBVIOUS
<1> QED BY <1>1 DEF Promise!Look

(* [] is Subscript, also when another key has the position of the hash.     *)
LEMMA SubscriptStep ==
  ASSUME HashesAgree, Contents, NEW k \in Keys, subscript_get(k)
  PROVE  Promise!Subscript(k)
<1>1. /\ asked' = <<"[]", k>> /\ UNCHANGED <<keys, values>>
      /\ answer' = <<"result",
           IF Hit(keys, index_map, k) THEN values[index_map[Hash[k]]]
           ELSE IF Scan(keys, k) # {} THEN values[First(Scan(keys, k))]
           ELSE KeyError>>
  BY DEF subscript_get, Asked
<1>2. Scan(keys, k) = Promise!Places(k)
  BY PlaceOf
<1>3. CASE Hit(keys, index_map, k)
  <2>1. index_map[Hash[k]] \in Promise!Places(k)
    BY <1>3, PlaceOf
  <2>2. Promise!Look(k, KeyError)
    BY <1>1, <1>3, <2>1, LookFound
  <2> QED BY <1>1, <2>2 DEF Promise!Subscript
<1>4. CASE ~Hit(keys, index_map, k) /\ Scan(keys, k) # {}
  <2>1. First(Scan(keys, k)) \in Promise!Places(k)
    BY <1>2, <1>4, FirstIsFirst DEF Contents, Scan
  <2>2. Promise!Look(k, KeyError)
    BY <1>1, <1>4, <2>1, LookFound
  <2> QED BY <1>1, <2>2 DEF Promise!Subscript
<1>5. CASE ~Hit(keys, index_map, k) /\ Scan(keys, k) = {}
  <2>1. Promise!Look(k, KeyError)
    BY <1>1, <1>2, <1>5, LookMissed
  <2> QED BY <1>1, <2>1 DEF Promise!Subscript
<1> QED BY <1>3, <1>4, <1>5

(* get is Get where no other key has the position of the hash.              *)
LEMMA GetStep ==
  ASSUME HashesAgree, Contents, NEW k \in Keys, NEW default \in Values,
         dict_get(k, default), ~Strays
  PROVE  Promise!Get(k, default)
<1> DEFINE SameHash == {i \in DOMAIN keys : Hash[keys[i]] = Hash[k]}
<1>1. /\ asked' = <<"get", k, default>> /\ UNCHANGED <<keys, values>>
      /\ answer' = <<"result",
           IF Hash[k] \in DOMAIN index_map THEN values[index_map[Hash[k]]]
           ELSE IF SameHash # {} THEN values[First(SameHash)]
           ELSE default>>
  BY DEF dict_get, Asked
<1>2. ~Taken(k)
  BY <1>1 DEF Strays
<1>3. CASE Hash[k] \in DOMAIN index_map
  <2>1. index_map[Hash[k]] \in Promise!Places(k)
    BY <1>2, <1>3, PlaceOf DEF Taken
  <2>2. Promise!Look(k, default)
    BY <1>1, <1>3, <2>1, LookFound
  <2> QED BY <1>1, <2>2 DEF Promise!Get
<1>4. CASE ~(Hash[k] \in DOMAIN index_map)
  <2>1. Promise!Places(k) = {}
    BY <1>4, PlaceOf
  <2>2. SameHash = {}
    BY <1>4, Leads
  <2> HIDE DEF SameHash
  <2>3. Promise!Look(k, default)
    BY <1>1, <1>4, <2>1, <2>2, LookMissed
  <2> QED BY <1>1, <2>3 DEF Promise!Get
<1> QED BY <1>3, <1>4

(* in is Contains.                                                          *)
LEMMA ContainsStep ==
  ASSUME HashesAgree, Contents, NEW k \in Keys, contains(k)
  PROVE  Promise!Contains(k)
<1>1. /\ asked' = <<"in", k>> /\ UNCHANGED <<keys, values>>
      /\ answer' = <<"in", Hit(keys, index_map, k) \/ Scan(keys, k) # {}>>
  BY DEF contains, Asked
<1>2. (Hit(keys, index_map, k) \/ Scan(keys, k) # {}) = (Promise!Places(k) # {})
  BY PlaceOf
<1>3. Pairs(keys', values') = Pairs(keys, values)
  BY <1>1
<1> QED BY <1>1, <1>2, <1>3 DEF Promise!Contains

(* pop is Pop where no other key has the position of the hash.              *)
LEMMA PopStep ==
  ASSUME HashesAgree, Contents, Contents', NEW k \in Keys, NEW otherwise,
         dict_pop(k, otherwise), ~Strays
  PROVE  Promise!Pop(k, otherwise)
<1>1. asked' = <<"pop", k, otherwise>>
  BY DEF dict_pop
<1>2. ~Taken(k)
  BY <1>1 DEF Strays
<1>3. CASE Hash[k] \in DOMAIN index_map
  <2> DEFINE i == index_map[Hash[k]]
             before == Pairs(keys, values)
             after == Pairs(keys, values)'
  <2>1. i \in Promise!Places(k)
    BY <1>2, <1>3, PlaceOf DEF Taken
  <2>2. answer' = <<"result", values[i]>> /\ Remove(i)
    BY <1>3 DEF dict_pop
  <2> HIDE DEF i
  <2>3. i \in DOMAIN keys /\ answer' = <<"result", before[i][2]>>
    BY <2>1, <2>2, ValueAt
  <2>4. /\ DOMAIN keys' = 1 .. Len(keys) - 1
        /\ \A j \in 1 .. Len(keys) - 1 : keys'[j] = keys[IF j < i THEN j ELSE j + 1]
    BY <2>2, <2>3, WithoutIsShorter DEF Remove, Contents
  <2>5. \A j \in 1 .. Len(keys) - 1 : values'[j] = values[IF j < i THEN j ELSE j + 1]
    BY <2>2, <2>3, Positions, WithoutIsShorter DEF Remove, Contents
  <2>6. /\ Len(before) = Len(keys) /\ Len(keys) \in Nat /\ DOMAIN keys = 1 .. Len(keys)
        /\ \A j \in DOMAIN keys : before[j] = <<keys[j], values[j]>>
    BY EntriesAre, Positions DEF Shown
  <2>7. after = [j \in DOMAIN keys' |-> <<keys'[j], values'[j]>>]
    BY DEF Pairs
  <2> HIDE DEF before, after
  <2>8. ASSUME NEW j \in 1 .. Len(keys) - 1
        PROVE  before[IF j < i THEN j ELSE j + 1] = <<keys'[j], values'[j]>>
    <3> DEFINE from == IF j < i THEN j ELSE j + 1
    <3>1. from \in DOMAIN keys
      BY <2>3, <2>6
    <3>2. keys'[j] = keys[from] /\ values'[j] = values[from]
      BY <2>4, <2>5
    <3> HIDE DEF from
    <3>3. before[from] = <<keys'[j], values'[j]>>
      BY <2>6, <3>1, <3>2
    <3> QED BY <3>3 DEF from
  <2>9. after = [j \in 1 .. Len(before) - 1 |-> before[IF j < i THEN j ELSE j + 1]]
    BY <2>4, <2>6, <2>7, <2>8
  <2>10. after = Promise!Without(i)
    BY <2>9 DEF Promise!Without, before
  <2> QED BY <1>1, <2>1, <2>3, <2>10 DEF Promise!Pop, before, after
<1>4. CASE ~(Hash[k] \in DOMAIN index_map)
  <2>1. Promise!Places(k) = {}
    BY <1>4, PlaceOf
  <2>2. UNCHANGED <<keys, values>> /\ answer' = <<"result", otherwise>>
    BY <1>4 DEF dict_pop
  <2>3. Promise!Look(k, otherwise)
    BY <2>1, <2>2, LookMissed
  <2> QED BY <1>1, <2>1, <2>3 DEF Promise!Pop
<1> QED BY <1>3, <1>4

(* items is Listed, len is Length.                                          *)
LEMMA ListedStep ==
  ASSUME dict_items
  PROVE  Promise!Listed
<1>1. Pairs(keys', values') = Pairs(keys, values)
  BY DEF dict_items, Asked
<1> QED BY <1>1 DEF dict_items, Asked, Promise!Listed

LEMMA LengthStep ==
  ASSUME Contents, dict_len
  PROVE  Promise!Length
<1>1. Pairs(keys', values') = Pairs(keys, values)
  BY DEF dict_len, Asked
<1>2. Len(Pairs(keys, values)) = Len(keys)
  BY EntriesAre DEF Shown
<1> QED BY <1>1, <1>2 DEF dict_len, Asked, Promise!Length

(* Every step that does not stray is one of the ordered map, or none.       *)
LEMMA MapNext ==
  ASSUME HashesAgree, DictInv, DictInv', [DictNext]_dict, ~Strays
  PROVE  Promise!Next \/ UNCHANGED Promise!map
<1> USE DEF DictInv
<1>1. ASSUME NEW ks, NEW vs, Display(ks, vs), phase' # "none"
      PROVE  Promise!Next
  BY <1>1, DisplayStep DEF Promise!Next
<1>2. ASSUME phase # "none", phase' # "none", Promise!Operation
      PROVE  Promise!Next
  BY <1>2 DEF Promise!Next
<1>3. ASSUME NEW k \in Keys, NEW v \in Values, MAP_ADD(k, v)
      PROVE  Promise!Next
  BY <1>2, <1>3, MapAddStep DEF Promise!Operation, MAP_ADD, Assigned
<1>4. ASSUME NEW k \in Keys, NEW v \in Values, subscript_set(k, v)
      PROVE  Promise!Next
  BY <1>2, <1>4, SetStep DEF Promise!Operation, subscript_set, Assigned
<1>5. ASSUME NEW k \in Keys, NEW v \in Values, dict_get(k, v)
      PROVE  Promise!Next
  BY <1>2, <1>5, GetStep DEF Promise!Operation, dict_get, Asked
<1>6. ASSUME NEW k \in Keys, subscript_get(k)
      PROVE  Promise!Next
  BY <1>2, <1>6, SubscriptStep DEF Promise!Operation, subscript_get, Asked
<1>7. ASSUME NEW k \in Keys, contains(k)
      PROVE  Promise!Next
  BY <1>2, <1>7, ContainsStep DEF Promise!Operation, contains, Asked
<1>8. ASSUME NEW k \in Keys, NEW otherwise \in Values \cup {KeyError}, dict_pop(k, otherwise)
      PROVE  Promise!Next
  BY <1>2, <1>8, PopStep DEF Promise!Operation, dict_pop
<1>9. ASSUME dict_items PROVE Promise!Next
  BY <1>2, <1>9, ListedStep DEF Promise!Operation, dict_items, Asked
<1>10. ASSUME dict_len PROVE Promise!Next
  BY <1>2, <1>10, LengthStep DEF Promise!Operation, dict_len, Asked
<1>11. CASE EndComprehension \/ GET_ITER \/ FOR_ITER \/ UNCHANGED dict
  <2>1. /\ UNCHANGED <<keys, values, asked, answer>>
        /\ (phase # "none") = (phase' # "none")
    BY <1>11 DEF EndComprehension, GET_ITER, FOR_ITER, dict
  <2>2. Pairs(keys', values') = Pairs(keys, values)
    BY <2>1
  <2> QED BY <2>1, <2>2 DEF Promise!map
<1> QED
  BY <1>1, <1>3, <1>4, <1>5, <1>6, <1>7, <1>8, <1>9, <1>10, <1>11
     DEF DictNext, BUILD_DICT, Comprehension

(* The same as an action, for the temporal rules.                           *)
LEMMA MapStep ==
  ASSUME HashesAgree
  PROVE  DictInv /\ DictInv' /\ [DictNext]_dict
         => [~Strays => Promise!Next \/ UNCHANGED Promise!map]_dict
BY MapNext

(* A dictionary is the ordered map but for the steps Strays names, for any   *)
(* keys and values, also keys of one hash, and of any size: where equal keys *)
(* have one hash, which NumbersExact shows of the numbers.                   *)
THEOREM MapAlwaysImplemented == ASSUME HashesAgree PROVE DictSpec => MapImplemented
<1>1. DictInit => Promise!Init
  <2>1. Pairs(<<>>, <<>>) = <<>>
    BY DEF Pairs
  <2> QED BY <2>1 DEF DictInit, Promise!Init
<1> QED BY <1>1, InvInit, InvNext, MapStep, PTL DEF DictSpec, MapImplemented

----------------------------------------------------------------------------
(* Sets.                                                                    *)

(* Every set of naturals that is not empty has a least member, and one that  *)
(* has 0 and every successor has them all.                                  *)
LEMMA Least ==
  ASSUME NEW S \in SUBSET Nat, S # {}
  PROVE  \E m \in S : \A n \in S : m <= n
<1> DEFINE R == {ss \in Nat \X Nat : ss[1] < ss[2]}
<1>1. IsWellFoundedOn(R, Nat)
  BY NatLessThanWellFounded DEF OpToRel
<1>2. PICK m \in S : \A n \in S : <<n, m>> \notin R
  BY <1>1, WFMin
<1>3. ASSUME NEW n \in S  PROVE m <= n
  <2>1. <<n, m>> \in Nat \X Nat /\ <<n, m>>[1] = n /\ <<n, m>>[2] = m
    OBVIOUS
  <2>2. ~(n < m)
    BY <1>2, <2>1
  <2> QED BY <2>2
<1> QED BY <1>3

LEMMA Counting ==
  ASSUME NEW S, 0 \in S, \A n \in Nat : n \in S => n + 1 \in S
  PROVE  Nat \subseteq S
<1> SUFFICES ASSUME Nat \ S # {}  PROVE FALSE
  OBVIOUS
<1>1. PICK m \in Nat \ S : \A n \in Nat \ S : m <= n
  BY Least
<1>2. m - 1 \in Nat /\ m - 1 \notin Nat \ S
  BY <1>1
<1> QED BY <1>2

(* What a display has made of so many values.                               *)
Made(raw, f, n) == IF n = 0 THEN Empty ELSE Displaying(f[n - 1], raw[n])
Chosen(raw) == CHOOSE shown : shown = [n \in 0 .. Len(raw) |-> Made(raw, shown, n)]

LEMMA MadeExists ==
  ASSUME NEW raw, NEW N \in Nat
  PROVE  \E f : f = [n \in 0 .. N |-> Made(raw, f, n)]
<1> DEFINE Has(k) == \E f : f = [n \in 0 .. k |-> Made(raw, f, n)]
           Good == {k \in Nat : Has(k)}
<1>1. ASSUME NEW k \in Nat, Has(k)  PROVE Has(k + 1)
  <2>1. PICK f : f = [n \in 0 .. k |-> Made(raw, f, n)]
    BY <1>1
  <2> DEFINE g == [n \in 0 .. k + 1 |-> Made(raw, f, n)]
  <2>2. \A n \in 0 .. k : f[n] = Made(raw, f, n)
    BY <2>1
  <2>3. \A n \in 0 .. k : g[n] = f[n]
    BY <2>2
  <2>4. ASSUME NEW n \in 0 .. k + 1  PROVE g[n] = Made(raw, g, n)
    <3>1. n = 0 \/ n - 1 \in 0 .. k
      OBVIOUS
    <3>2. g[n] = Made(raw, f, n)
      OBVIOUS
    <3> HIDE DEF g
    <3> QED BY <2>3, <3>1, <3>2 DEF Made
  <2>5. g = [n \in 0 .. k + 1 |-> g[n]]
    OBVIOUS
  <2> HIDE DEF g
  <2>6. g = [n \in 0 .. k + 1 |-> Made(raw, g, n)]
    BY <2>4, <2>5
  <2> QED BY <2>6
<1>2. Has(0)
  <2>1. [n \in 0 .. 0 |-> Empty] = [n \in 0 .. 0 |-> Made(raw, [m \in 0 .. 0 |-> Empty], n)]
    BY DEF Made
  <2> QED BY <2>1
<1> HIDE DEF Has
<1>3. Nat \subseteq Good
  <2>1. 0 \in Good /\ \A k \in Nat : k \in Good => k + 1 \in Good
    BY <1>1, <1>2
  <2> HIDE DEF Good
  <2> QED BY <2>1, Counting
<1> QED BY <1>3 DEF Has

LEMMA DisplayedUnfold ==
  ASSUME NEW raw, Len(raw) \in Nat
  PROVE  /\ \A n \in 0 .. Len(raw) : Chosen(raw)[n] = Made(raw, Chosen(raw), n)
         /\ Displayed(raw) = Chosen(raw)[Len(raw)]
<1>1. Chosen(raw) = [n \in 0 .. Len(raw) |-> Made(raw, Chosen(raw), n)]
  BY MadeExists DEF Chosen
<1>2. Displayed(raw) = Chosen(raw)[Len(raw)]
  BY DEF Displayed, Chosen, Made
<1> HIDE DEF Chosen
<1>3. \A n \in 0 .. Len(raw) : Chosen(raw)[n] = Made(raw, Chosen(raw), n)
  BY <1>1
<1> QED BY <1>2, <1>3

(* One of equal items, and an index that is right: what Push keeps as long as *)
(* no item is equal to the value and of its hash.                            *)
Different(s) ==
  \A i, j \in DOMAIN s : Hash[s[i]] = Hash[s[j]] /\ values_equal(s[i], s[j]) => i = j
Right(s) == s.items \in Seq(Keys) /\ Different(s.items) /\ s.index = Reindexed(s.items)

LEMMA PushKeeps ==
  ASSUME NEW s, Right(s), NEW v \in Keys,
         \A i \in DOMAIN s.items : ~(Hash[s.items[i]] = Hash[v] /\ values_equal(s.items[i], v))
  PROVE  Right(Push(s, v))
<1> DEFINE t == Append(s.items, v)
<1>1. Push(s, v).items = t /\ Push(s, v).index = Insert(s.index, Hash[v], Len(s.items) + 1)
  BY DEF Push
<1>2. s.items \in Seq(Keys) /\ Different(s.items) /\ s.index = Reindexed(s.items)
  BY DEF Right
<1>3. /\ t \in Seq(Keys) /\ DOMAIN t = DOMAIN s.items \cup {Len(s.items) + 1}
      /\ t[Len(s.items) + 1] = v /\ \A i \in DOMAIN s.items : t[i] = s.items[i]
  BY <1>2
<1>4. Push(s, v).index = Reindexed(t)
  BY <1>1, <1>2, InsertReindexes
<1> HIDE DEF t
<1>5. Different(t)
  BY <1>2, <1>3 DEF Different, values_equal
<1> QED BY <1>1, <1>3, <1>4, <1>5 DEF Right

LEMMA DisplayKeeps ==
  ASSUME NEW raw \in Seq(Keys)
  PROVE  Right(Displayed(raw))
<1>1. Len(raw) \in Nat /\ \A n \in 1 .. Len(raw) : raw[n] \in Keys
  OBVIOUS
<1> DEFINE Good == {n \in Nat : n <= Len(raw) => Right(Chosen(raw)[n])}
<1>2. 0 \in Good
  <2>1. Chosen(raw)[0] = Empty
    BY <1>1, DisplayedUnfold DEF Made
  <2>2. Hashes(<<>>) = {}
    BY DEF Hashes
  <2>3. Right(Empty)
    BY <2>2 DEF Right, Empty, Different, Reindexed
  <2> QED BY <2>1, <2>3
<1>3. ASSUME NEW n \in Nat, n \in Good, n + 1 <= Len(raw)  PROVE Right(Chosen(raw)[n + 1])
  <2>1. PICK s : s = Chosen(raw)[n]
    OBVIOUS
  <2>2. PICK v \in Keys : v = raw[n + 1]
    BY <1>1, <1>3
  <2>3. Right(s)
    BY <1>1, <1>3, <2>1
  <2>4. Chosen(raw)[n + 1] = Displaying(s, v)
    <3>1. n + 1 \in 0 .. Len(raw) /\ n + 1 # 0 /\ (n + 1) - 1 = n
      BY <1>1, <1>3
    <3>2. Chosen(raw)[n + 1] = Made(raw, Chosen(raw), n + 1)
      BY <1>1, <3>1, DisplayedUnfold
    <3> QED BY <2>1, <2>2, <3>1, <3>2 DEF Made
  <2>5. CASE Hit(s.items, s.index, v) \/ Holds(s.items, v)
    BY <2>3, <2>4, <2>5 DEF Displaying
  <2>6. CASE ~(Hit(s.items, s.index, v) \/ Holds(s.items, v))
    <3>1. Right(Push(s, v))
      BY <2>3, <2>6, PushKeeps DEF Holds
    <3> QED BY <2>4, <2>6, <3>1 DEF Displaying
  <2> QED BY <2>5, <2>6
<1>4. Nat \subseteq Good
  <2>1. \A n \in Nat : n \in Good => n + 1 \in Good
    BY <1>3
  <2> HIDE DEF Good
  <2> QED BY <1>2, <2>1, Counting
<1>5. Right(Chosen(raw)[Len(raw)])
  BY <1>1, <1>4
<1> QED BY <1>1, <1>5, DisplayedUnfold

SetInv == Right([items |-> items, index |-> item_index])

LEMMA SetInvNext == SetInv /\ [SetNext]_set => SetInv'
<1> SUFFICES ASSUME SetInv, [SetNext]_set  PROVE SetInv'
  OBVIOUS
<1> DEFINE now == [items |-> items, index |-> item_index]
<1>1. ASSUME NEW s, Right(s), items' = s.items, item_index' = s.index  PROVE SetInv'
  BY <1>1 DEF SetInv, Right
<1>2. ASSUME NEW n \in 0 .. MaxItems, NEW raw \in [1 .. n -> Keys], BUILD_SET(raw)  PROVE SetInv'
  <2>1. raw \in Seq(Keys)
    BY ItemsAssumption
  <2>2. Right(Displayed(raw))
    BY <2>1, DisplayKeeps
  <2> QED BY <1>1, <1>2, <2>2 DEF BUILD_SET
<1>3. ASSUME NEW v \in Keys, SET_ADD(v)  PROVE SetInv'
  <2>1. CASE Hash[v] \in DOMAIN item_index /\ Holds(items, v)
    BY <1>3, <2>1 DEF SET_ADD, SetInv, Right
  <2>2. CASE ~(Hash[v] \in DOMAIN item_index /\ Holds(items, v))
    <3>1. items' = Push(now, v).items /\ item_index' = Push(now, v).index
      BY <1>3, <2>2 DEF SET_ADD
    <3>2. Right(now)
      BY DEF SetInv
    <3>3. DOMAIN item_index = Hashes(items)
      BY DEF SetInv, Right, Reindexed
    <3>4. \A i \in DOMAIN items : ~(Hash[items[i]] = Hash[v] /\ values_equal(items[i], v))
      BY <2>2, <3>3 DEF Holds, Hashes
    <3>5. PICK s : s = now
      OBVIOUS
    <3>6. s.items = items
      BY <3>5
    <3> HIDE DEF now
    <3>7. Right(Push(s, v))
      BY <3>2, <3>4, <3>5, <3>6, PushKeeps
    <3> QED BY <1>1, <3>1, <3>5, <3>7
  <2> QED BY <2>1, <2>2
<1>4. CASE UNCHANGED <<items, item_index>>
  BY <1>4 DEF SetInv, Right
<1>5. [SetNext]_set =>
        \/ \E n \in 0 .. MaxItems : \E raw \in [1 .. n -> Keys] : BUILD_SET(raw)
        \/ \E v \in Keys : SET_ADD(v)
        \/ UNCHANGED <<items, item_index>>
  BY DEF SetNext, SetComprehension, EndSetComprehension, set_contains, set
<1> QED BY <1>2, <1>3, <1>4, <1>5

(* For all values, hashes and notions of equality: no display and no          *)
(* comprehension leaves two equal items of one hash in a set, and the entry   *)
(* of every hash is the position of its newest item.                         *)
THEOREM ItemsAlwaysDistinct == SetSpec => []SetDistinct
<1>1. SetInit => SetInv
  <2>1. Hashes(<<>>) = {}
    BY DEF Hashes
  <2> QED BY <2>1 DEF SetInit, SetInv, Right, Different, Reindexed
<1>2. SetInv => SetDistinct
  BY DEF SetInv, Right, Different, SetDistinct
<1> QED BY <1>1, <1>2, SetInvNext, PTL DEF SetSpec
=============================================================================
