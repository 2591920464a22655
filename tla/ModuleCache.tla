---------------------------- MODULE ModuleCache ----------------------------
(***************************************************************************)
(* What require promises of the files it loads, apart from how it does so: *)
(* a file in the cache of src/src/runtime/modules.c is never evaluated by  *)
(* require again, evaluations end in the reverse of the order in which     *)
(* they started, and a file enters the cache at the very step its          *)
(* evaluation ends - however it ends.                                      *)
(*                                                                         *)
(* It does not promise one evaluation per file: a file that requires       *)
(* itself is not in the cache yet when it does.                            *)
(***************************************************************************)
EXTENDS Integers, Functions

CONSTANTS Path,      \* the names require is called with
          MaxPending \* bound: evaluations under way

VARIABLES loaded,  \* g_loaded: the cache, for the life of the process
          pending  \* the evaluations under way, by nesting depth

Init == /\ loaded = {}
        /\ pending = [i \in {} |-> ""]

Innermost(i) == \A j \in DOMAIN pending : j <= i

Start(p) ==
    /\ p \notin loaded
    /\ \E i \in (1..MaxPending) \ DOMAIN pending :
         /\ Innermost(i)
         /\ pending' = [j \in DOMAIN pending \cup {i} |->
                            IF j = i THEN p ELSE pending[j]]
    /\ UNCHANGED loaded

Finish ==
    \E i \in DOMAIN pending :
        /\ Innermost(i)
        /\ pending' = Restrict(pending, DOMAIN pending \ {i})
        /\ loaded' = loaded \cup {pending[i]}

Next == Finish \/ \E p \in Path : Start(p)

Spec == Init /\ [][Next]_<<loaded, pending>>
=============================================================================
