------------------------------- MODULE Dicts -------------------------------
(***************************************************************************)
(* A dictionary: made by a display or a comprehension, then assigned to,    *)
(* asked, popped from, and iterated over while all that goes on.            *)
(***************************************************************************)
EXTENDS HashIndex

CONSTANTS
  Values,      \* what is stored
  Represented, \* the keys hashed by what represents them: floats, tuples, objects
  NoAnswer,    \* an operation without a result
  KeyError,    \* the error of a key that is not there
  NoIterator,  \* no loop over the dictionary runs
  MaxEntries   \* bound: entries of the dictionary

ASSUME DictAssumption == KeyError \notin Values /\ MaxEntries \in Nat

VARIABLES
  phase,      \* "none", "comprehension", "made"
  keys, values, index_map,
  asked,      \* history: the last operation and its operands
  answer,     \* what it returned: <<kind, it>>
  iterator,   \* the index of the DictKeyIter of a running loop
  seen,       \* history: keys the loop was given and that were not popped since
  popped      \* history: something was popped since the loop began

dict == <<phase, keys, values, index_map, asked, answer, iterator, seen, popped>>
history == <<iterator, seen, popped>>

DictInit ==
  /\ phase = "none"
  /\ keys = <<>> /\ values = <<>> /\ index_map = <<>>
  /\ asked = <<"nothing">> /\ answer = NoAnswer
  /\ iterator = NoIterator /\ seen = {} /\ popped = FALSE

----------------------------------------------------------------------------
(* Making it.  A display takes its keys as they come, repeated or not; a    *)
(* comprehension starts from an empty one and adds pair by pair.            *)

Pairs(ks, vs) == [i \in DOMAIN ks |-> <<ks[i], vs[i]>>]

Display(ks, vs) ==
  /\ phase = "none"
  /\ keys' = ks /\ values' = vs
  /\ index_map' = Reindexed(ks)
  /\ asked' = <<"display", Pairs(ks, vs)>>
  /\ UNCHANGED <<answer, history>>

BUILD_DICT(ks, vs) == Display(ks, vs) /\ phase' = "made"

Comprehension == Display(<<>>, <<>>) /\ phase' = "comprehension"

Add(k, v) ==
  /\ Len(keys) < MaxEntries
  /\ keys' = Append(keys, k)
  /\ values' = Append(values, v)
  /\ index_map' = Insert(index_map, Hash[k], Len(keys) + 1)

Without(s, i) == [j \in 1 .. Len(s) - 1 |-> s[IF j < i THEN j ELSE j + 1]]

\* The pair is taken out and added again.
Replace_faulty_last(i, v) ==
  /\ keys' = Append(Without(keys, i), keys[i])
  /\ values' = Append(Without(values, i), v)
  /\ index_map' = Reindexed(Append(Without(keys, i), keys[i]))

Replace(i, v) ==
  /\ values' = [values EXCEPT ![i] = v]
  /\ UNCHANGED <<keys, index_map>>

Assigned(k, v) == asked' = <<"set", k, v>> /\ answer' = NoAnswer /\ UNCHANGED <<phase, history>>

\* A comprehension scans all keys for an equal one.
MAP_ADD(k, v) ==
  /\ phase = "comprehension"
  /\ IF Scan(keys, k) # {} THEN Replace(First(Scan(keys, k)), v) ELSE Add(k, v)
  /\ Assigned(k, v)

EndComprehension ==
  /\ phase = "comprehension"
  /\ phase' = "made"
  /\ UNCHANGED <<keys, values, index_map, asked, answer, history>>

----------------------------------------------------------------------------
(* Using it.                                                                *)

\* An assignment looks only where index_map leads.
subscript_set(k, v) ==
  /\ phase = "made"
  /\ IF Hit(keys, index_map, k) THEN Replace(index_map[Hash[k]], v) ELSE Add(k, v)
  /\ Assigned(k, v)

Asked(question) ==
  /\ phase = "made"
  /\ asked' = question
  /\ UNCHANGED <<phase, keys, values, index_map, history>>

subscript_get_faulty_trusting(k) ==
  /\ Asked(<<"[]", k>>)
  /\ answer' = <<"result",
       IF Hash[k] \in DOMAIN index_map THEN values[index_map[Hash[k]]] ELSE KeyError>>

subscript_get(k) ==
  /\ Asked(<<"[]", k>>)
  /\ answer' = <<"result",
       IF Hit(keys, index_map, k) THEN values[index_map[Hash[k]]]
       ELSE IF Scan(keys, k) # {} THEN values[First(Scan(keys, k))]
       ELSE KeyError>>

\* get trusts the hash: neither the entry found nor the scan compares keys.
dict_get(k, default) ==
  LET SameHash == {i \in DOMAIN keys : Hash[keys[i]] = Hash[k]}
  IN /\ Asked(<<"get", k, default>>)
     /\ answer' = <<"result",
          IF Hash[k] \in DOMAIN index_map THEN values[index_map[Hash[k]]]
          ELSE IF SameHash # {} THEN values[First(SameHash)]
          ELSE default>>

contains(k) ==
  /\ Asked(<<"in", k>>)
  /\ answer' = <<"in", Hit(keys, index_map, k) \/ Scan(keys, k) # {}>>

\* What is left is entered into a new map.
Remove_faulty_stale(i) ==
  /\ keys' = Without(keys, i)
  /\ values' = Without(values, i)
  /\ index_map' = [h \in DOMAIN index_map \ {Hash[keys[i]]} |-> index_map[h]]

Remove(i) ==
  /\ keys' = Without(keys, i)
  /\ values' = Without(values, i)
  /\ index_map' = Reindexed(Without(keys, i))

\* pop trusts the hash as well.
dict_pop(k, otherwise) ==
  /\ phase = "made"
  /\ IF Hash[k] \in DOMAIN index_map
     THEN LET i == index_map[Hash[k]]
          IN /\ answer' = <<"result", values[i]>>
             /\ Remove(i)
             /\ seen' = seen \ {keys[i]}
             /\ popped' = TRUE
     ELSE answer' = <<"result", otherwise>> /\ UNCHANGED <<keys, values, index_map, seen, popped>>
  /\ asked' = <<"pop", k, otherwise>>
  /\ UNCHANGED <<phase, iterator>>

\* keys, values and items copy what is there.
dict_items == Asked(<<"items">>) /\ answer' = <<"items", Pairs(keys, values)>>

dict_len == Asked(<<"len">>) /\ answer' = <<"len", Len(keys)>>

----------------------------------------------------------------------------
(* A loop over the keys: the iterator is an index into the live sequence.   *)

GET_ITER ==
  /\ phase = "made"
  /\ iterator = NoIterator
  /\ iterator' = 0 /\ seen' = {} /\ popped' = FALSE
  /\ UNCHANGED <<phase, keys, values, index_map, asked, answer>>

FOR_ITER ==
  /\ iterator # NoIterator
  /\ IF iterator >= Len(keys)
     THEN iterator' = NoIterator /\ seen' = {}
     ELSE iterator' = iterator + 1 /\ seen' = seen \cup {keys[iterator + 1]}
  /\ UNCHANGED <<phase, keys, values, index_map, asked, answer, popped>>

----------------------------------------------------------------------------
DictNext ==
  \/ \E n \in 0 .. MaxEntries : \E ks \in [1 .. n -> Keys], vs \in [1 .. n -> Values] :
       BUILD_DICT(ks, vs)
  \/ Comprehension
  \/ EndComprehension
  \/ \E k \in Keys, v \in Values :
       MAP_ADD(k, v) \/ subscript_set(k, v) \/ dict_get(k, v)
  \/ \E k \in Keys : subscript_get(k) \/ contains(k)
  \/ \E k \in Keys, otherwise \in Values \cup {KeyError} : dict_pop(k, otherwise)
  \/ dict_items
  \/ dict_len
  \/ GET_ITER
  \/ FOR_ITER

DictSpec == DictInit /\ [][DictNext]_dict

----------------------------------------------------------------------------
(* index_map is at every moment what entering all keys in order would leave, *)
(* so that the position a hash leads to exists and is the newest of its      *)
(* hash: keys[i] and values[i] are indexed without a check (subscript_get),  *)
(* also when hashes collide and after pop has moved the positions.           *)
IndexSound ==
  /\ index_map = Reindexed(keys)
  /\ Len(values) = Len(keys)

(* A loop over a dictionary to which the body assigns and from which it pops *)
(* (DictKeyIter): what it was given and is still there stands behind its     *)
(* index, so that it is not given again, and unless something was popped it  *)
(* was given all that stands there, so that none is missed.  A key is given  *)
(* twice only where the dictionary holds it twice, behind the index and      *)
(* before it: from a display that repeats it, which 2026-05-19-m2-bigint-    *)
(* design.md:246 says is one key and vm.rs:1449 keeps as two, or from an     *)
(* assignment that did not find it, as in MapImplemented.                    *)
IterationSound ==
  iterator # NoIterator =>
    LET behind == {keys[i] : i \in {j \in DOMAIN keys : j <= iterator}}
    IN /\ seen \subseteq behind
       /\ ~popped => iterator <= Len(keys) /\ seen = behind

(* One key: equal values.  Those that are hashed by what represents them have *)
(* to share the hash as well: 1.0 and 1 are two keys of a dictionary.         *)
Same(a, b) == values_equal(a, b) /\ ({a, b} \cap Represented # {} => Hash[a] = Hash[b])
Alike == [k \in Keys |-> {j \in Keys : Same(j, k)}]

Promise == INSTANCE OrderedMap WITH made <- phase # "none", entries <- Pairs(keys, values)

(* Where it is not one: a display repeats a key; an assignment is to a key    *)
(* that it does not find, as another key has the one position of their hash   *)
(* (vm.rs:2414); get or pop is for a key whose hash has the position of        *)
(* another, which they take for it (builtins.rs:1157).                        *)
Repeats(pairs) == \E i, j \in DOMAIN pairs : i # j /\ Same(pairs[i][1], pairs[j][1])
Taken(k) == Hash[k] \in DOMAIN index_map /\ ~Hit(keys, index_map, k)
Strays ==
  \/ asked'[1] = "display" /\ Repeats(asked'[2])
  \/ asked'[1] = "set" /\ phase = "made" /\ Taken(asked'[2]) /\ Scan(keys, asked'[2]) # {}
  \/ asked'[1] \in {"get", "pop"} /\ Taken(asked'[2])

(* But for these the dictionary is the ordered map OrderedMap promises: a     *)
(* comprehension makes one with every key once, also of keys of one hash, an  *)
(* assignment keeps the place of its key or appends it, pop takes the entry   *)
(* of the key it is asked for and closes the gap, and get, [] and in answer   *)
(* for the key they are asked, [] and in also when another key has the hash.  *)
MapImplemented == Promise!Init /\ [][~Strays => Promise!Next \/ UNCHANGED Promise!map]_dict

(* Equal keys have one hash, where it is computed from their value: of ints,  *)
(* bools and strings.                                                         *)
HashesAgree ==
  \A a, b \in Keys : values_equal(a, b) /\ {a, b} \cap Represented = {} => Hash[a] = Hash[b]
=============================================================================
