------------------------------ MODULE MCValues ------------------------------
(***************************************************************************)
(* Programs over one kind of value: a dictionary, a set, a number, or a     *)
(* hierarchy of classes.  The keys are numbers and values equal to them,    *)
(* with the hashes that module Numbers computes.                            *)
(***************************************************************************)
EXTENDS Dicts, Sets, Numbers, Linearization, TLC

Key(kind, v) == [kind |-> kind, v |-> v]

\* True equals 1 and has its hash; 1.0 equals them and hashes by its bits; 8, a
\* big integer, has the hash of 1 as 2^61 has it in the code; -1 is like no other.
ValueKeys ==
  {Key("int", 1), Key("bool", 1), Key("float", 1), Key("int", 8), Key("int", -1)}

ValueHash == [k \in ValueKeys |->
  IF k.kind \in {"int", "bool"} THEN <<"int", number_hash(from_int(k.v))>> ELSE <<k.kind, k.v>>]

ValueClass == [k \in ValueKeys |-> k.v]

ValueRepresented == {k \in ValueKeys : k.kind = "float"}

ValueOperands == {-17, -8, -3, -1, 0, 2, 5, 8, 30, 64}

\* What a dictionary stores is only compared.
StoredAlike == Permutations(Values)

VARIABLE program

\* The history of the last question does not tell states apart: no step depends on
\* it, and every step is checked against the question it asks.
Unasked == <<program, phase, keys, values, index_map, history, set, arithmetic, hierarchy>>

values_vars == <<program, dict, set, arithmetic, hierarchy>>

Init ==
  /\ program \in {"dictionary", "set", "number", "classes"}
  /\ DictInit /\ SetInit /\ ClassInit
  /\ IF program = "number" THEN NumberInit
     ELSE number = Small(0) /\ exact = 0 /\ error = "none"

Next ==
  \/ program = "dictionary" /\ DictNext /\ UNCHANGED <<program, set, arithmetic, hierarchy>>
  \/ program = "set" /\ SetNext /\ UNCHANGED <<program, dict, arithmetic, hierarchy>>
  \/ program = "number" /\ NumberNext /\ UNCHANGED <<program, dict, set, hierarchy>>
  \/ program = "classes" /\ ClassNext /\ UNCHANGED <<program, dict, set, arithmetic>>

Spec == Init /\ [][Next]_values_vars
=============================================================================
