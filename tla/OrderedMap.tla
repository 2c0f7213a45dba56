----------------------------- MODULE OrderedMap -----------------------------
(***************************************************************************)
(* What a dictionary promises: entries of pairwise different keys in the    *)
(* order in which the keys came, and to every question the answer for the   *)
(* key that was asked.  Nothing of hashes and positions.  An assignment to  *)
(* a key that is there keeps the key and the place of the entry.            *)
(***************************************************************************)
EXTENDS Naturals, Sequences

CONSTANTS
  Keys, Values, NoAnswer, KeyError,
  Alike      \* of every key, the keys that are the same

VARIABLES
  made,      \* the dictionary exists
  entries,   \* a sequence of <<key, value>>
  asked,     \* the last operation and its operands
  answer     \* what it returned: <<kind, it>>

map == <<made, entries, asked, answer>>

Same(a, b) == a \in Alike[b]

\* The entries of a key: one or none.
Places(k) == {i \in DOMAIN entries : Same(entries[i][1], k)}

Without(i) == [j \in 1 .. Len(entries) - 1 |-> entries[IF j < i THEN j ELSE j + 1]]

Init == ~made /\ entries = <<>> /\ asked = <<"nothing">> /\ answer = NoAnswer

Display ==
  /\ ~made /\ made'
  /\ entries' \in Seq(Keys \X Values)
  /\ \A i, j \in DOMAIN entries' : Same(entries'[i][1], entries'[j][1]) => i = j
  /\ asked' = <<"display", entries'>> /\ answer' = NoAnswer

Assign(k, v) ==
  /\ asked' = <<"set", k, v>> /\ answer' = NoAnswer
  /\ \/ /\ Places(k) = {}
        /\ entries' = Append(entries, <<k, v>>)
     \/ \E i \in Places(k) : entries' = [entries EXCEPT ![i] = <<@[1], v>>]

\* The value of the key, or what is said of a key that is not there.
Look(k, otherwise) ==
  /\ entries' = entries
  /\ \/ Places(k) = {} /\ answer' = <<"result", otherwise>>
     \/ \E i \in Places(k) : answer' = <<"result", entries[i][2]>>

Subscript(k) == asked' = <<"[]", k>> /\ Look(k, KeyError)

Get(k, default) == asked' = <<"get", k, default>> /\ Look(k, default)

Pop(k, otherwise) ==
  /\ asked' = <<"pop", k, otherwise>>
  /\ \/ Places(k) = {} /\ Look(k, otherwise)
     \/ \E i \in Places(k) : entries' = Without(i) /\ answer' = <<"result", entries[i][2]>>

Contains(k) == asked' = <<"in", k>> /\ entries' = entries /\ answer' = <<"in", Places(k) # {}>>

Listed == asked' = <<"items">> /\ entries' = entries /\ answer' = <<"items", entries>>

Length == asked' = <<"len">> /\ entries' = entries /\ answer' = <<"len", Len(entries)>>

Operation ==
  \/ \E k \in Keys, v \in Values : Assign(k, v) \/ Get(k, v)
  \/ \E k \in Keys : Subscript(k) \/ Contains(k)
  \/ \E k \in Keys, otherwise \in Values \cup {KeyError} : Pop(k, otherwise)
  \/ Listed
  \/ Length

Next == Display \/ (made /\ made' /\ Operation)

Spec == Init /\ [][Next]_map
=============================================================================
