----------------------------- MODULE TraceStack -----------------------------
(***************************************************************************)
(* The stack of trace frames (runtime/trace.c) beside the calls of the     *)
(* evaluator that push and pop it. It has room for Frames frames; a push   *)
(* beyond is dropped, but the pop at the end of that call is not.          *)
(***************************************************************************)
EXTENDS Integers, Sequences

CONSTANTS Frames,     \* 256 in the code
          CallBound,  \* bound: calls under way
          CallLimit   \* bound: calls within one outermost call

VARIABLES calls,   \* the calls under way, each by its number
          trace,   \* g_trace_stack up to g_trace_top
          made     \* calls made since the last outermost one began

traceVars == <<calls, trace, made>>

TraceInit == calls = <<>> /\ trace = <<>> /\ made = 0

PushRound(id) ==
    IF Len(trace) < Frames THEN Append(trace, id) ELSE [trace EXCEPT ![1] = id]

Push(id) == IF Len(trace) < Frames THEN Append(trace, id) ELSE trace

Pop == IF trace = <<>> THEN trace ELSE SubSeq(trace, 1, Len(trace) - 1)

(* lsthunk_eval and lsthunk_eval0 push at their start, and pop on every    *)
(* way out.                                                                *)
Enter ==
    /\ Len(calls) < CallBound /\ (calls = <<>> \/ made < CallLimit)
    /\ made' = IF calls = <<>> THEN 1 ELSE made + 1
    /\ calls' = Append(calls, made')
    /\ trace' = Push(made')

Leave ==
    /\ calls # <<>>
    /\ calls' = SubSeq(calls, 1, Len(calls) - 1)
    /\ trace' = Pop
    /\ UNCHANGED made

TraceNext == Enter \/ Leave
TraceSpec == TraceInit /\ [][TraceNext]_traceVars

-----------------------------------------------------------------------------
(* What a stack trace shows are calls that are under way, the innermost    *)
(* last, also after pushes were dropped: frames get lost, but none of a    *)
(* call that returned is left behind.                                      *)
FramesPending ==
    /\ \A i \in 1 .. Len(trace) : \E j \in i .. Len(calls) : trace[i] = calls[j]
    /\ \A i, j \in 1 .. Len(trace) : i < j => trace[i] < trace[j]

=============================================================================
