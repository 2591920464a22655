------------------------------ MODULE TextMap -------------------------------
(***************************************************************************)
(* What a table of texts promises its users: the loaded files, the members *)
(* of a namespace, the namespaces of the builtin loader. A call of put or  *)
(* get leaves in answer the value the key had before, if it had one.       *)
(***************************************************************************)
CONSTANTS Keys, Values

VARIABLES map,     \* the value of each key that has one
          answer   \* what the last call found: <<value>>, or <<>>

vars == <<map, answer>>

Lookup(key) == IF key \in DOMAIN map THEN <<map[key]>> ELSE <<>>

Put(key, value) ==
    /\ answer' = Lookup(key)
    /\ map' = [k \in DOMAIN map \cup {key} |-> IF k = key THEN value ELSE map[k]]

Get(key) ==
    /\ answer' = Lookup(key)
    /\ UNCHANGED map

Init == map = [k \in {} |-> {}] /\ answer = <<>>
Next == \E key \in Keys : Get(key) \/ \E value \in Values : Put(key, value)
Spec == Init /\ [][Next]_vars
=============================================================================
