------------------------------ MODULE ModuleCache ------------------------------
(***************************************************************************)
(* What an import cache promises, without names, files, frames or a search: *)
(* a module is begun only when its name is not in the cache, is in the      *)
(* cache from then on, and the loads end in the reverse of the order they    *)
(* began in, each well or badly.                                            *)
(***************************************************************************)
EXTENDS Integers, Sequences

VARIABLES
  cache,   \* name -> position in loads of the module that has it
  loads    \* Seq of [name, state], state "loading", "ready" or "failed"

vars == <<cache, loads>>

Init == /\ \A m \in DOMAIN loads : /\ loads[m].state = "ready"
                                   /\ cache[loads[m].name] = m
        /\ DOMAIN cache = {loads[m].name : m \in DOMAIN loads}

Begin(n) ==
  /\ n \notin DOMAIN cache
  /\ cache' = [k \in DOMAIN cache \cup {n} |->
                 IF k = n THEN Len(loads) + 1 ELSE cache[k]]
  /\ loads' = Append(loads, [name |-> n, state |-> "loading"])

Innermost(m) == /\ m \in DOMAIN loads
                /\ loads[m].state = "loading"
                /\ \A k \in DOMAIN loads : k > m => loads[k].state # "loading"

End(m, state) == /\ Innermost(m)
                 /\ loads' = [loads EXCEPT ![m].state = state]
                 /\ UNCHANGED cache

Next == \/ \E n \in DOMAIN cache' : Begin(n)
        \/ \E m \in DOMAIN loads, state \in {"ready", "failed"} : End(m, state)

Spec == Init /\ [][Next]_vars
=============================================================================
