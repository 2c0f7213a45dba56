-------------------------------- MODULE Sets --------------------------------
(***************************************************************************)
(* A set: made by a display or by a comprehension, and asked for members.   *)
(***************************************************************************)
EXTENDS HashIndex

CONSTANTS MaxItems   \* bound: items of the set

ASSUME ItemsAssumption == MaxItems \in Nat

VARIABLES
  stage,               \* "none", "comprehension", "made"
  items, item_index,
  member               \* what the last `in` said of which value

set == <<stage, items, item_index, member>>

SetInit == stage = "none" /\ items = <<>> /\ item_index = <<>> /\ member = <<>>

Holds(s, v) == \E i \in DOMAIN s : values_equal(s[i], v)

\* Push a value that is not there.
Push(s, v) ==
  [items |-> Append(s.items, v), index |-> Insert(s.index, Hash[v], Len(s.items) + 1)]

\* A display looks for an equal item everywhere, item by item.
Empty == [items |-> <<>>, index |-> <<>>]
Displaying(s, v) == IF Hit(s.items, s.index, v) \/ Holds(s.items, v) THEN s ELSE Push(s, v)
Displayed(raw) ==
  LET shown[n \in 0 .. Len(raw)] == IF n = 0 THEN Empty ELSE Displaying(shown[n - 1], raw[n])
  IN shown[Len(raw)]

BUILD_SET(raw) ==
  LET new == Displayed(raw)
  IN /\ stage = "none"
     /\ items' = new.items /\ item_index' = new.index
     /\ stage' = "made"
     /\ UNCHANGED member

SetComprehension ==
  /\ stage = "none"
  /\ stage' = "comprehension"
  /\ UNCHANGED <<items, item_index, member>>

\* A comprehension scans the items only when the hash is known.
SET_ADD_faulty_hit(v) ==
  /\ stage = "comprehension"
  /\ Len(items) < MaxItems
  /\ IF Hit(items, item_index, v)
     THEN UNCHANGED <<items, item_index>>
     ELSE LET new == Push([items |-> items, index |-> item_index], v)
          IN items' = new.items /\ item_index' = new.index
  /\ UNCHANGED <<stage, member>>

SET_ADD(v) ==
  /\ stage = "comprehension"
  /\ Len(items) < MaxItems
  /\ IF Hash[v] \in DOMAIN item_index /\ Holds(items, v)
     THEN UNCHANGED <<items, item_index>>
     ELSE LET new == Push([items |-> items, index |-> item_index], v)
          IN items' = new.items /\ item_index' = new.index
  /\ UNCHANGED <<stage, member>>

EndSetComprehension ==
  /\ stage = "comprehension"
  /\ stage' = "made"
  /\ UNCHANGED <<items, item_index, member>>

set_contains(v) ==
  /\ stage = "made"
  /\ member' = <<v, Hit(items, item_index, v) \/ Holds(items, v)>>
  /\ UNCHANGED <<stage, items, item_index>>

SetNext ==
  \/ \E n \in 0 .. MaxItems : \E raw \in [1 .. n -> Keys] : BUILD_SET(raw)
  \/ SetComprehension
  \/ EndSetComprehension
  \/ \E v \in Keys : SET_ADD(v) \/ set_contains(v)

SetSpec == SetInit /\ [][SetNext]_set

(* No two items are equal and of the same hash, whatever the values that    *)
(* share hashes have done to the one entry they share (BUILD_SET, SET_ADD), *)
(* and the entry of every hash is the position of its newest item.          *)
SetDistinct ==
  /\ \A i, j \in DOMAIN items :
       Hash[items[i]] = Hash[items[j]] /\ values_equal(items[i], items[j]) => i = j
  /\ item_index = Reindexed(items)
=============================================================================
