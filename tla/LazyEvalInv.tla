---------------------------- MODULE LazyEvalInv ----------------------------
(***************************************************************************)
(* The inductive invariant of LazyEval: what every pending activation of   *)
(* the evaluator may rely on when it is resumed.  The parts are operators  *)
(* of the heap, so that a proof can say that a heap that only grows keeps  *)
(* them.                                                                   *)
(***************************************************************************)
EXTENDS LazyEval

\* IsValue in heap h.
ValueIn(h, t) ==
    \/ h[t].type \in DataTypes
    \/ h[t].type = "BUILTIN" /\ ArityOf(h[t].tag) > 0
    \/ /\ h[t].type = "APPL"
       /\ h[h[t].kids[1]].type = "BUILTIN"
       /\ Len(Tail(h[t].kids)) < ArityOf(h[h[t].kids[1]].tag)

\* h2 is h with free thunks filled in.
Grows(h, h2) == \A a \in Addr : h[a].type # "FREE" => h2[a] = h[a]

\* What the C locals saved in a pending activation are.
FrameFits(pats, h, f) ==
    /\ f.k \in {"Update", "Right", "Lhs", "Rhs", "Print", "Effect"} => f.a \in Addr
    /\ f.k \in {"Match", "Body"} => f.a \in Addr /\ h[f.a].type = "LAMBDA"
    /\ f.k = "Match" => f.args # <<>>
    /\ f.k \in {"LamChoice", "Catch", "ExprChoice"} =>
          f.a \in Addr /\ h[f.a].type = "CHOICE"
    /\ f.k = "LamChoice" => f.args # <<>>
    /\ f.k \in {"BindMatch", "AlgeHead", "AlgeArg", "As", "Or", "Caret"} => f.p \in PatId
    /\ f.k = "AlgeArg" =>
          /\ f.a \in Addr /\ h[f.a].type = "ALGE"
          /\ f.i \in Nat /\ Len(h[f.a].kids) = Len(pats[f.p].sub)
    /\ f.k \in {"As", "Or"} =>
          f.a \in Addr /\ pats[f.p].type \in {"AS", "OR"}
    /\ f.k = "Caret" => pats[f.p].type = "CARET"
    /\ f.k \in {"Lhs", "Rhs", "Effect"} => Len(f.args) >= 2
    /\ f.k = "Rhs" => f.i \in Addr
    /\ f.k = "Print" => Len(f.args) >= 1

\* What a call is made with, and what an evaluation returns.
ControlFits(h, c) ==
    /\ c.m = "eval0" => c.a \in Addr
    /\ c.m = "apply" => c.a \in Addr
    /\ c.m = "apply" /\ c.args = <<>> => h[c.a].type \in {"REF", "CHOICE", "BUILTIN"}
    /\ c.m = "match" => c.a \in Addr /\ c.p \in PatId
    /\ c.m = "ret" /\ c.a # Null => ValueIn(h, c.a)

Stack(pats, h, s) == s \in Seq(Frame) /\ \A i \in 1..Len(s) : FrameFits(pats, h, s[i])
Ctl(h, c) == c \in Control /\ ControlFits(h, c)

\* Thunks are allocated one after the other and keep what they were made of.
Graph(h, n, mem) ==
    /\ h \in [Addr -> Thunk]
    /\ n \in 1..MaxAddr
    /\ mem \in [Addr -> AddrOrNull]
    /\ \A a \in Addr : ThunkFits(h[a])
    /\ \A a \in Addr : a > n => h[a].type = "FREE"
    /\ \A a \in Addr : mem[a] # Null => ValueIn(h, mem[a])

BuiltHeapKept == \A a \in 1..Len(prog.heap) : heap[a] = prog.heap[a]

Inv ==
    /\ BuiltHeapKept
    /\ Graph(heap, top, memo)
    /\ bound \in [PatId -> AddrOrNull]
    /\ depth \in Nat
    /\ out \in Seq(Thunk)
    /\ Stack(prog.pats, heap, stack)
    /\ Ctl(heap, ctl)
IInv == prog \in Programs /\ Inv
=============================================================================
