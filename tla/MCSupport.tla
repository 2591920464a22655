----------------------------- MODULE MCSupport ------------------------------
(***************************************************************************)
(* The small parts the rest of the program stands on: a hash table, the    *)
(* string pool, the trace stack and the encodings of numbers and literals. *)
(* They share no state, so one of them moves in a behaviour and the others *)
(* stay as they began.                                                     *)
(***************************************************************************)
EXTENDS HashTable, TraceStack, StringPool, Codec

(* Keys and texts that collide in narrow tables, in wide ones, and never.  *)
KeyHash == [a |-> 0, b |-> 2, c |-> 4, d |-> 5, e |-> 3]
PoolHash == [p |-> 3, q |-> 3, r |-> 7, s |-> 15, t |-> 31, u |-> 0]

(* NUL, \a, newline, escape, the quotes, the backslash, 0, 7, 8, a, x, the  *)
(* letter g, DEL, and bytes above 127, one of them the byte 255.           *)
OneOfEachKind == {0, 7, 10, 27, 34, 39, 92, 48, 55, 56, 97, 120, 103, 127, -29, -1}

SupportInit == Init /\ PoolInit /\ TraceInit /\ CodecInit

NoEncoding == chars = <<>> /\ word = 0 /\ UNCHANGED codecVars
TableMoves == Next /\ texts = <<>> /\ made = 0 /\ NoEncoding /\ UNCHANGED <<poolVars, traceVars>>
PoolMoves == PoolNext /\ Init /\ made = 0 /\ NoEncoding /\ UNCHANGED <<vars, traceVars>>
TraceMoves == TraceNext /\ Init /\ texts = <<>> /\ NoEncoding /\ UNCHANGED <<vars, poolVars>>
CodecMoves == CodecNext /\ Init /\ texts = <<>> /\ made = 0 /\ UNCHANGED <<vars, poolVars, traceVars>>

SupportNext == TableMoves \/ PoolMoves \/ TraceMoves \/ CodecMoves
SupportSpec == SupportInit /\ [][SupportNext]_<<vars, poolVars, traceVars, codecVars>>
=============================================================================
