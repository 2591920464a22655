--------------------------- MODULE LazyEvalProofs ---------------------------
(***************************************************************************)
(* What is proved about LazyEval for every set of well built programs and  *)
(* every bound.                                                            *)
(***************************************************************************)
EXTENDS LazyEvalInv, TLAPS, SequenceTheorems, FiniteSetTheorems

-----------------------------------------------------------------------------
(* Sequences and records *)

\* Dropping arguments leaves arguments.
LEMMA DropFits ==
    ASSUME NEW args \in Seq(Addr), NEW n \in Nat
    PROVE  /\ Drop(args, n) \in Seq(Addr)
           /\ n < Len(args) => Drop(args, n) # <<>>
<1>1. n + 1 \in Int /\ Len(args) \in Nat
  BY LenProperties
<1>2. \A i \in (n + 1)..Len(args) : args[i] \in Addr
  BY <1>1, ElementOfSeq
<1>3. /\ SubSeq(args, n + 1, Len(args)) \in Seq(Addr)
      /\ Len(SubSeq(args, n + 1, Len(args))) =
            IF n + 1 <= Len(args) THEN Len(args) - (n + 1) + 1 ELSE 0
  BY <1>1, <1>2, SubSeqProperties
<1>4. Drop(args, n) = SubSeq(args, n + 1, Len(args))
  BY DEF Drop
<1>5. /\ Drop(args, n) \in Seq(Addr)
      /\ n < Len(args) => Len(Drop(args, n)) # 0
  BY <1>1, <1>3, <1>4
<1>6. Len(<<>>) = 0
  BY EmptySeq
<1>. QED  BY <1>5, <1>6

\* A sequence without its last element.
LEMMA FrontProperties ==
    ASSUME NEW S, NEW s \in Seq(S), s # <<>>
    PROVE  /\ SubSeq(s, 1, Len(s) - 1) \in Seq(S)
           /\ Len(SubSeq(s, 1, Len(s) - 1)) = Len(s) - 1
           /\ \A i \in 1..(Len(s) - 1) : SubSeq(s, 1, Len(s) - 1)[i] = s[i]
<1>1. PICK n \in Nat : Len(s) - 1 = n
  <2>1. Len(s) \in Nat \ {0}
    BY EmptySeq
  <2>. QED  BY <2>1
<1>2. \A i \in 1..n : s[i] \in S
  <2>1. n \in Nat /\ Len(s) = n + 1
    BY <1>1, LenProperties
  <2>. QED  BY <2>1, ElementOfSeq
<1>3. /\ SubSeq(s, 1, n) \in Seq(S)
      /\ Len(SubSeq(s, 1, n)) = IF 1 <= n THEN n - 1 + 1 ELSE 0
      /\ \A i \in 1..(n - 1 + 1) : SubSeq(s, 1, n)[i] = s[1 + i - 1]
  BY <1>2, SubSeqProperties
<1>4. \A p : p \in Seq(S) /\ Len(p) = (IF 1 <= n THEN n - 1 + 1 ELSE 0)
                /\ (\A i \in 1..(n - 1 + 1) : p[i] = s[1 + i - 1])
            => Len(p) = n /\ \A i \in 1..n : p[i] = s[i]
  OBVIOUS
<1>. QED  BY <1>1, <1>3, <1>4

\* The positions the evaluator uses exist in what is long enough.
LEMMA InRange ==
    ASSUME NEW n \in Nat
    PROVE  /\ n >= 1 => 1 \in 1..n
           /\ n >= 2 => 2 \in 1..n
OBVIOUS

\* What a frame and a control record are made of.
LEMMA FrType ==
    ASSUME NEW k \in FrameKinds, NEW a \in AddrOrNull, NEW args \in Seq(Addr),
           NEW p \in 0..MaxPat, NEW i \in Nat
    PROVE  /\ Fr(k, a, args, p, i) \in Frame
           /\ Fr(k, a, args, p, i).k = k
           /\ Fr(k, a, args, p, i).a = a
           /\ Fr(k, a, args, p, i).args = args
           /\ Fr(k, a, args, p, i).p = p
           /\ Fr(k, a, args, p, i).i = i
BY DEF Fr, Frame

\* A control record built from values of its fields' kinds is one.
LEMMA CtlType ==
    ASSUME NEW m \in Modes, NEW a \in AddrOrNull, NEW args \in Seq(Addr),
           NEW p \in 0..MaxPat, NEW r \in Outcomes
    PROVE  /\ C(m, a, args, p, r) \in Control
           /\ C(m, a, args, p, r).m = m
           /\ C(m, a, args, p, r).a = a
           /\ C(m, a, args, p, r).args = args
           /\ C(m, a, args, p, r).p = p
           /\ C(m, a, args, p, r).r = r
BY DEF C, Control

\* The controls the evaluator builds.
LEMMA RetFits ==
    ASSUME NEW h, NEW v \in AddrOrNull, v # Null => ValueIn(h, v)
    PROVE  Ctl(h, Ret(v))
<1>1. /\ "ret" \in Modes /\ "" \in Outcomes /\ <<>> \in Seq(Addr) /\ 0 \in 0..MaxPat
  BY BoundsAssumption DEF Modes, Outcomes
<1>. QED  BY <1>1 DEF Ctl, ControlFits, Control, C, Ret

\* A call of lsthunk_eval0 on an address.
LEMMA Eval0Fits ==
    ASSUME NEW h, NEW t \in Addr
    PROVE  Ctl(h, Eval0(t))
<1>1. /\ "eval0" \in Modes /\ "" \in Outcomes /\ <<>> \in Seq(Addr)
      /\ 0 \in 0..MaxPat /\ t \in AddrOrNull
  BY BoundsAssumption DEF Modes, Outcomes, Addr, AddrOrNull
<1>. QED  BY <1>1 DEF Ctl, ControlFits, Control, C, Eval0

\* A call past lsthunk_eval's test for bottoms: without arguments only what
\* lsthunk_eval0 dispatches that way.
LEMMA ApplyFits ==
    ASSUME NEW h, NEW t \in Addr, NEW args \in Seq(Addr),
           args = <<>> => h[t].type \in {"REF", "CHOICE", "BUILTIN"}
    PROVE  Ctl(h, Apply(t, args))
<1>1. /\ "apply" \in Modes /\ "" \in Outcomes /\ 0 \in 0..MaxPat /\ t \in AddrOrNull
  BY BoundsAssumption DEF Modes, Outcomes, Addr, AddrOrNull
<1>. QED  BY <1>1 DEF Ctl, ControlFits, Control, C, Apply

\* A call of lsthunk_match_pat.
LEMMA MatchFits ==
    ASSUME NEW h, NEW t \in Addr, NEW p \in PatId
    PROVE  Ctl(h, Match(t, p))
<1>1. /\ "match" \in Modes /\ "" \in Outcomes /\ <<>> \in Seq(Addr)
      /\ p \in 0..MaxPat /\ t \in AddrOrNull
  BY BoundsAssumption DEF Modes, Outcomes, Addr, AddrOrNull, PatId
<1>. QED  BY <1>1 DEF Ctl, ControlFits, Control, C, Match

\* A return of lsthunk_match_pat.
LEMMA MatchedFits ==
    ASSUME NEW h, NEW ok \in BOOLEAN
    PROVE  Ctl(h, Matched(ok))
<1>1. /\ "matched" \in Modes /\ {"match", "fail"} \subseteq Outcomes
      /\ <<>> \in Seq(Addr) /\ 0 \in 0..MaxPat /\ Null \in AddrOrNull
  BY BoundsAssumption DEF Modes, Outcomes, AddrOrNull, Null
<1>. QED  BY <1>1 DEF Ctl, ControlFits, Control, C, Matched

\* The end of a run.
LEMMA HaltFits ==
    ASSUME NEW h, NEW why \in Outcomes
    PROVE  Ctl(h, Halt(why))
<1>1. /\ "halt" \in Modes /\ <<>> \in Seq(Addr) /\ 0 \in 0..MaxPat /\ Null \in AddrOrNull
  BY BoundsAssumption DEF Modes, AddrOrNull, Null
<1>. QED  BY <1>1 DEF Ctl, ControlFits, Control, C, Halt

\* lsthunk_eval is called, or returns the bottom it is applied to.
LEMMA EvalFits ==
    ASSUME heap \in [Addr -> Thunk], NEW f \in Addr, NEW args \in Seq(Addr)
    PROVE  Ctl(heap, Eval(f, args))
<1>1. CASE IsBottom(f)
  <2>1. ValueIn(heap, f)
    BY <1>1 DEF IsBottom, ValueIn, DataTypes
  <2>2. f \in AddrOrNull
    BY BoundsAssumption DEF Addr, AddrOrNull
  <2>. QED  BY <1>1, <2>1, <2>2, RetFits DEF Eval
<1>2. CASE ~IsBottom(f) /\ args = <<>>
  BY <1>2, Eval0Fits DEF Eval
<1>3. CASE ~IsBottom(f) /\ args # <<>>
  BY <1>3, ApplyFits DEF Eval
<1>. QED  BY <1>1, <1>2, <1>3

-----------------------------------------------------------------------------
(* The stack *)

\* One activation more on a stack that fits.
LEMMA PushFits ==
    ASSUME NEW pats, NEW h, NEW s, Stack(pats, h, s),
           NEW f \in Frame, FrameFits(pats, h, f)
    PROVE  Stack(pats, h, Append(s, f))
<1>1. /\ Append(s, f) \in Seq(Frame)
      /\ Len(Append(s, f)) = Len(s) + 1
      /\ \A i \in 1..(Len(s) + 1) : Append(s, f)[i] = IF i <= Len(s) THEN s[i] ELSE f
  BY DEF Stack
<1>. QED  BY <1>1 DEF Stack

\* The pending activation is resumed with what it saved, the others wait.
LEMMA PopFits ==
    ASSUME NEW pats, NEW h, Stack(pats, h, stack), stack # <<>>
    PROVE  /\ Top \in Frame
           /\ FrameFits(pats, h, Top)
           /\ Stack(pats, h, Pop)
<1>1. stack \in Seq(Frame) /\ Len(stack) \in Nat /\ Len(stack) # 0
  BY EmptySeq DEF Stack
<1>2. Len(stack) \in 1..Len(stack)
  BY <1>1
<1>3. Top \in Frame /\ FrameFits(pats, h, Top)
  BY <1>1, <1>2, ElementOfSeq DEF Top, Stack
<1>4. /\ Pop \in Seq(Frame)
      /\ Len(Pop) = Len(stack) - 1
      /\ \A i \in 1..(Len(stack) - 1) : Pop[i] = stack[i]
  BY <1>1, FrontProperties DEF Pop
<1>5. \A i \in 1..Len(Pop) : FrameFits(pats, h, Pop[i])
  BY <1>1, <1>4 DEF Stack
<1>. QED  BY <1>3, <1>4, <1>5 DEF Stack

\* A call: the caller's activation goes on the stack, within MaxDepth or not at all.
LEMMA CallFits ==
    ASSUME NEW pats, NEW h, NEW s, Stack(pats, h, s),
           NEW f \in Frame, FrameFits(pats, h, f),
           NEW c, Ctl(h, c), Call(s, f, c)
    PROVE  Stack(pats, h, stack') /\ Ctl(h, ctl')
<1>1. Ctl(h, Halt("bound"))
  BY HaltFits DEF Outcomes
<1>. QED  BY <1>1, PushFits DEF Call, Go

-----------------------------------------------------------------------------
(* A heap that grows keeps everything *)

\* What a thunk refers to are addresses.
LEMMA KidsInAddr ==
    ASSUME NEW h \in [Addr -> Thunk], NEW t \in Addr
    PROVE  /\ h[t].kids \in Seq(Addr)
           /\ \A i \in 1..Len(h[t].kids) : h[t].kids[i] \in Addr
BY ElementOfSeq DEF Thunk

\* A value stays the value it is while new thunks appear.
LEMMA GrowsValue ==
    ASSUME NEW h \in [Addr -> Thunk], NEW h2, Grows(h, h2),
           NEW t \in Addr, ThunkFits(h[t]), ValueIn(h, t)
    PROVE  ValueIn(h2, t)
<1>1. h2[t] = h[t]
  BY DEF Grows, ValueIn, DataTypes
<1>2. CASE h[t].type = "APPL"
  <2>1. h[t].kids[1] \in Addr
    BY <1>2, KidsInAddr, LenProperties DEF ThunkFits
  <2>. QED  BY <1>1, <1>2, <2>1 DEF Grows, ValueIn, DataTypes
<1>3. CASE h[t].type # "APPL"
  BY <1>1, <1>3 DEF ValueIn
<1>. QED  BY <1>2, <1>3

\* Pending activations stay valid while new thunks appear.
LEMMA GrowsStack ==
    ASSUME NEW pats, NEW h, NEW h2, Grows(h, h2), NEW s, Stack(pats, h, s)
    PROVE  Stack(pats, h2, s)
<1>1. ASSUME NEW f, FrameFits(pats, h, f)
      PROVE  FrameFits(pats, h2, f)
  BY <1>1 DEF Grows, FrameFits
<1>. QED  BY <1>1 DEF Stack

\* So does the call or return about to happen.
LEMMA GrowsControl ==
    ASSUME NEW n, NEW mem, NEW h, Graph(h, n, mem), NEW h2, Grows(h, h2),
           NEW c, Ctl(h, c)
    PROVE  Ctl(h2, c)
<1>1. c \in Control /\ c.a \in AddrOrNull
  BY DEF Ctl, Control
<1>2. ASSUME c.m = "ret", c.a # Null
      PROVE  ValueIn(h2, c.a)
  <2>1. c.a \in Addr /\ ValueIn(h, c.a)
    BY <1>1, <1>2 DEF Ctl, ControlFits, Addr, AddrOrNull, Null
  <2>. QED  BY <2>1, GrowsValue DEF Graph
<1>3. ASSUME c.m = "apply", c.args = <<>>
      PROVE  h2[c.a].type \in {"REF", "CHOICE", "BUILTIN"}
  BY <1>3 DEF Ctl, ControlFits, Grows
<1>. QED  BY <1>1, <1>2, <1>3 DEF Ctl, ControlFits

\* A thunk that is in normal form in heap h.
NormalIn(h, t) ==
    \/ t.type \in DataTypes
    \/ /\ t.type = "APPL"
       /\ h[t.kids[1]].type = "BUILTIN"
       /\ Len(Tail(t.kids)) < ArityOf(h[t.kids[1]].tag)

\* The next free thunk becomes t, its own normal form.
LEMMA AllocFits ==
    ASSUME Graph(heap, top, memo), top < MaxAddr,
           NEW t \in Thunk, ThunkFits(t), NormalIn(heap, t),
           heap' = [heap EXCEPT ![top + 1] = t],
           memo' = [memo EXCEPT ![top + 1] = top + 1],
           top' = top + 1
    PROVE  /\ Graph(heap', top', memo')
           /\ Grows(heap, heap')
           /\ top + 1 \in Addr
           /\ heap'[top + 1] = t
           /\ ValueIn(heap', top + 1)
<1>1. top + 1 \in Addr /\ top + 1 > top /\ top \in Nat
  BY BoundsAssumption DEF Graph, Addr
<1>2. heap[top + 1].type = "FREE"
  BY <1>1 DEF Graph
<1>3. /\ heap' \in [Addr -> Thunk]
      /\ heap'[top + 1] = t
      /\ \A a \in Addr : a # top + 1 => heap'[a] = heap[a]
  BY <1>1 DEF Graph
<1>4. Grows(heap, heap')
  BY <1>2, <1>3 DEF Grows
<1>5. ValueIn(heap', top + 1)
  <2>1. CASE t.type \in DataTypes
    BY <1>3, <2>1 DEF ValueIn
  <2>2. CASE t.type = "APPL" /\ t.type \notin DataTypes
    <3>1. t.kids \in Seq(Addr) /\ Len(t.kids) > 1
      BY <2>2 DEF ThunkFits, Thunk
    <3>2. t.kids[1] \in Addr
      BY <3>1, LenProperties, ElementOfSeq
    <3>3. heap'[t.kids[1]] = heap[t.kids[1]]
      BY <1>4, <2>2, <3>2 DEF Grows, NormalIn
    <3>. QED  BY <1>3, <2>2, <3>3 DEF ValueIn, NormalIn
  <2>. QED  BY <2>1, <2>2 DEF NormalIn
<1>6. ASSUME NEW a \in Addr, memo'[a] # Null
      PROVE  ValueIn(heap', memo'[a])
  <2>1. CASE a = top + 1
    BY <1>1, <1>5, <2>1 DEF Graph
  <2>2. CASE a # top + 1
    <3>1. memo'[a] = memo[a] /\ memo[a] \in Addr
      BY <1>6, <2>2, BoundsAssumption DEF Graph, Addr, AddrOrNull, Null
    <3>. QED  BY <1>4, <1>6, <3>1, GrowsValue DEF Graph
  <2>. QED  BY <2>1, <2>2
<1>7. /\ memo' \in [Addr -> AddrOrNull]
      /\ top' \in 1..MaxAddr
  BY <1>1 DEF Graph, Addr, AddrOrNull
<1>8. \A a \in Addr : ThunkFits(heap'[a])
  BY <1>3 DEF Graph
<1>9. \A a \in Addr : a > top' => heap'[a].type = "FREE"
  BY <1>1, <1>3 DEF Graph, Addr
<1>. QED  BY <1>1, <1>3, <1>4, <1>5, <1>6, <1>7, <1>8, <1>9 DEF Graph

-----------------------------------------------------------------------------
(* The building blocks of the actions *)

\* What a step establishes about the graph, the stack and the control.
StepFits ==
    /\ Graph(heap', top', memo')
    /\ Grows(heap, heap')
    /\ Stack(prog.pats, heap', stack')
    /\ Ctl(heap', ctl')

\* The pending activations s are those of a state with the current heap.
Waiting(s) == Graph(heap, top, memo) /\ Stack(prog.pats, heap, s)

\* A step that changes control only.
LEMMA GoFits ==
    ASSUME NEW s, Waiting(s), NEW c, Ctl(heap, c), Go(s, c), UNCHANGED graph
    PROVE  StepFits
BY DEF Waiting, Go, StepFits, graph, Grows

\* A step that calls and leaves the graph alone.
LEMMA CallStepFits ==
    ASSUME NEW s, Waiting(s), NEW f \in Frame, FrameFits(prog.pats, heap, f),
           NEW c, Ctl(heap, c), Call(s, f, c), UNCHANGED graph
    PROVE  StepFits
<1>1. Stack(prog.pats, heap, stack') /\ Ctl(heap, ctl')
  BY CallFits DEF Waiting
<1>2. heap' = heap /\ top' = top /\ memo' = memo
  BY DEF graph
<1>. QED  BY <1>1, <1>2 DEF Waiting, StepFits, Grows

\* A step cut off by MaxAddr.
LEMMA OutOfMemoryFits ==
    ASSUME NEW s, Waiting(s), UNCHANGED graph, Go(s, Halt("bound"))
    PROVE  StepFits
<1>1. Ctl(heap, Halt("bound"))
  BY HaltFits DEF Outcomes
<1>. QED  BY <1>1, GoFits

\* A step that returns a new value.
LEMMA AllocReturnFits ==
    ASSUME NEW s, Waiting(s), NEW t \in Thunk, ThunkFits(t), NormalIn(heap, t),
           AllocReturn(s, t)
    PROVE  StepFits
<1>1. CASE top < MaxAddr
  <2>1. /\ heap' = [heap EXCEPT ![top + 1] = t]
        /\ memo' = [memo EXCEPT ![top + 1] = top + 1]
        /\ top' = top + 1
        /\ Go(s, Ret(top + 1))
    BY <1>1 DEF AllocReturn
  <2>2. /\ Graph(heap', top', memo') /\ Grows(heap, heap')
        /\ top + 1 \in Addr /\ ValueIn(heap', top + 1)
    BY <1>1, <2>1, AllocFits DEF Waiting
  <2>3. Stack(prog.pats, heap', s)
    BY <2>2, GrowsStack DEF Waiting
  <2>4. top + 1 \in AddrOrNull
    BY <2>2 DEF Addr, AddrOrNull
  <2>5. Ctl(heap', Ret(top + 1))
    BY <2>2, <2>4, RetFits
  <2>. QED  BY <2>1, <2>2, <2>3, <2>5 DEF Go, StepFits
<1>2. CASE ~(top < MaxAddr)
  BY <1>2, OutOfMemoryFits DEF AllocReturn
<1>. QED  BY <1>1, <1>2

\* lsthunk_new_bottom makes a thunk that is its own normal form.
LEMMA BottomFits ==
    ASSUME NEW msg \in Tag, NEW related \in Seq(Addr)
    PROVE  /\ Bottom(msg, related) \in Thunk
           /\ ThunkFits(Bottom(msg, related))
           /\ NormalIn(heap, Bottom(msg, related))
BY DEF Bottom, T, Thunk, ThunkTypes, DataTypes, ThunkFits, NormalIn

\* A bottom is made and returned.
LEMMA BottomReturnFits ==
    ASSUME NEW s, Waiting(s), NEW msg \in Tag, NEW related \in Seq(Addr),
           AllocReturn(s, Bottom(msg, related))
    PROVE  StepFits
BY BottomFits, AllocReturnFits

\* The end of lsthunk_eval_builtin: the result, or its application to the rest.
LEMMA FinishBuiltinFits ==
    ASSUME NEW s, Waiting(s), NEW v \in AddrOrNull, NEW rest \in Seq(Addr),
           FinishBuiltin(s, v, rest)
    PROVE  StepFits
<1>1. CASE v = Null
  <2>1. AllocReturn(s, Bottom("builtin: null", <<>>))
    BY <1>1 DEF FinishBuiltin
  <2>2. <<>> \in Seq(Addr) /\ "builtin: null" \in Tag
    BY DEF Tag, OwnTags
  <2>. QED  BY <2>1, <2>2, BottomReturnFits
<1>2. CASE v # Null
  <2>1. v \in Addr
    BY <1>2 DEF Addr, AddrOrNull, Null
  <2>2. Ctl(heap, Eval(v, rest))
    BY <2>1, EvalFits DEF Waiting, Graph
  <2>. QED  BY <1>2, <2>2, GoFits DEF FinishBuiltin
<1>. QED  BY <1>1, <1>2

\* A fresh value is passed to f, or applied to the arguments left.
LEMMA AllocPassFits ==
    ASSUME NEW s, Waiting(s), NEW t \in Thunk, ThunkFits(t), NormalIn(heap, t),
           NEW f \in Addr, NEW args \in Seq(Addr), AllocPass(s, t, f, args)
    PROVE  StepFits
<1>1. CASE top < MaxAddr
  <2>1. /\ heap' = [heap EXCEPT ![top + 1] = t]
        /\ memo' = [memo EXCEPT ![top + 1] = top + 1]
        /\ top' = top + 1
        /\ Go(s, Eval(f, <<top + 1>> \o args))
    BY <1>1 DEF AllocPass
  <2>2. /\ Graph(heap', top', memo') /\ Grows(heap, heap') /\ top + 1 \in Addr
    BY <1>1, <2>1, AllocFits DEF Waiting
  <2>3. Stack(prog.pats, heap', s)
    BY <2>2, GrowsStack DEF Waiting
  <2>4. <<top + 1>> \o args \in Seq(Addr)
    BY <2>2, ConcatProperties
  <2>5. Ctl(heap, Eval(f, <<top + 1>> \o args))
    BY <2>4, EvalFits DEF Waiting, Graph
  <2>6. Ctl(heap', Eval(f, <<top + 1>> \o args))
    BY <2>2, <2>5, GrowsControl DEF Waiting
  <2>. QED  BY <2>1, <2>2, <2>3, <2>6 DEF Go, StepFits
<1>2. CASE ~(top < MaxAddr)
  BY <1>2, OutOfMemoryFits DEF AllocPass
<1>. QED  BY <1>1, <1>2

\* A step that makes a value and applies it at once.
LEMMA AllocApplyFits ==
    ASSUME NEW s, Waiting(s), NEW t \in Thunk, ThunkFits(t), NormalIn(heap, t),
           NEW rest \in Seq(Addr), AllocApply(s, t, rest)
    PROVE  StepFits
<1>1. CASE top < MaxAddr
  <2>1. /\ heap' = [heap EXCEPT ![top + 1] = t]
        /\ memo' = [memo EXCEPT ![top + 1] = top + 1]
        /\ top' = top + 1
        /\ Go(s, IF rest = <<>> THEN Ret(top + 1) ELSE Apply(top + 1, rest))
    BY <1>1 DEF AllocApply
  <2>2. /\ Graph(heap', top', memo') /\ Grows(heap, heap')
        /\ top + 1 \in Addr /\ ValueIn(heap', top + 1)
    BY <1>1, <2>1, AllocFits DEF Waiting
  <2>3. Stack(prog.pats, heap', s)
    BY <2>2, GrowsStack DEF Waiting
  <2>4. top + 1 \in AddrOrNull
    BY <2>2 DEF Addr, AddrOrNull
  <2>5. CASE rest = <<>>
    <3>1. Ctl(heap', Ret(top + 1))
      BY <2>2, <2>4, RetFits
    <3>. QED  BY <2>1, <2>2, <2>3, <2>5, <3>1 DEF Go, StepFits
  <2>6. CASE rest # <<>>
    <3>1. Ctl(heap', Apply(top + 1, rest))
      BY <2>2, <2>6, ApplyFits
    <3>. QED  BY <2>1, <2>2, <2>3, <2>6, <3>1 DEF Go, StepFits
  <2>. QED  BY <2>5, <2>6
<1>2. CASE ~(top < MaxAddr)
  BY <1>2, OutOfMemoryFits DEF AllocApply
<1>. QED  BY <1>1, <1>2

-----------------------------------------------------------------------------
(* The substituted copy *)

\* Substitution copies allotted thunks only, of the types it rebuilds.
LEMMA CopySetFits ==
    ASSUME top \in Nat, NEW v
    PROVE  /\ CopySet(v) \subseteq 1..top
           /\ \A t \in CopySet(v) : heap[t].type \in Copied
           /\ IsFiniteSet(CopySet(v))
           /\ Cardinality(CopySet(v)) \in Nat
<1>1. /\ CopySet(v) \subseteq 1..top
      /\ \A t \in CopySet(v) : heap[t].type \in Copied
  BY DEF CopySet
<1>2. IsFiniteSet(1..top)
  BY FS_Interval
<1>3. IsFiniteSet(CopySet(v))
  BY <1>1, <1>2, FS_Subset
<1>. QED  BY <1>1, <1>3, FS_CardinalityType

\* Copies are allocated above the thunks there are, each at its own address.
LEMMA CopyOfFits ==
    ASSUME top \in Nat, NEW S, S \subseteq 1..top, NEW t \in S
    PROVE  /\ CopyOf(S, t) \in (top + 1)..(top + Cardinality(S))
           /\ \A u \in S : CopyOf(S, u) = CopyOf(S, t) => u = t
<1>. DEFINE Low(u) == {w \in S : w <= u}
<1>1. IsFiniteSet(S)
  <2>1. S \in SUBSET (1..top) /\ IsFiniteSet(1..top)
    BY FS_Interval
  <2>. QED  BY <2>1, FS_Subset
<1>2. ASSUME NEW u \in S
      PROVE  /\ IsFiniteSet(Low(u))
             /\ Cardinality(Low(u)) \in 1..Cardinality(S)
             /\ Cardinality(S) \in Nat
  <2>1. Low(u) \in SUBSET S /\ u \in Low(u)
    OBVIOUS
  <2>2. IsFiniteSet(Low(u)) /\ Cardinality(Low(u)) <= Cardinality(S)
    BY <1>1, <2>1, FS_Subset
  <2>3. Cardinality(Low(u)) \in Nat /\ Cardinality(S) \in Nat
    BY <1>1, <2>2, FS_CardinalityType
  <2>4. Cardinality(Low(u)) # 0
    BY <2>1, <2>2, FS_EmptySet
  <2>. QED  BY <2>2, <2>3, <2>4
<1>3. ASSUME NEW u \in S, NEW w \in S, u < w
      PROVE  Cardinality(Low(u)) # Cardinality(Low(w))
  <2>1. \A x \in S : x \in Int
    OBVIOUS
  <2>2. Low(u) \in SUBSET Low(w) /\ w \in Low(w) /\ w \notin Low(u)
    <3>1. \A x \in S : x <= u => x <= w
      BY <1>3, <2>1
    <3>2. w <= w /\ ~(w <= u)
      BY <1>3, <2>1
    <3>. QED  BY <3>1, <3>2
  <2>3. Low(u) # Low(w)
    BY <2>2
  <2>. QED  BY <1>2, <2>2, <2>3, FS_Subset
<1>4. \A u \in S : CopyOf(S, u) = top + Cardinality(Low(u))
  BY DEF CopyOf
<1>5. CopyOf(S, t) \in (top + 1)..(top + Cardinality(S))
  <2>. HIDE DEF Low
  <2>. QED  BY <1>2, <1>4
<1>6. ASSUME NEW u \in S, CopyOf(S, u) = CopyOf(S, t), u # t
      PROVE  FALSE
  <2>1. Cardinality(Low(u)) = Cardinality(Low(t))
    <3>. HIDE DEF Low
    <3>. QED  BY <1>2, <1>4, <1>6
  <2>2. u < t \/ t < u
    BY <1>6
  <2>. QED  BY <1>3, <2>1, <2>2
<1>. QED  BY <1>5, <1>6

\* A kid of a copy is a copy, what a parameter is bound to, or the kid itself.
LEMMA SubstFits ==
    ASSUME Graph(heap, top, memo), bound \in [PatId -> AddrOrNull],
           NEW S, S \subseteq 1..top, top + Cardinality(S) <= MaxAddr,
           IsFiniteSet(S), NEW param, NEW t \in Addr
    PROVE  Subst(S, param, t) \in Addr
<1>1. CASE t \in S
  <2>1. top \in Nat /\ Cardinality(S) \in Nat
    BY FS_CardinalityType DEF Graph
  <2>2. CopyOf(S, t) \in (top + 1)..(top + Cardinality(S))
    BY <1>1, <2>1, CopyOfFits
  <2>. QED  BY <1>1, <2>1, <2>2, BoundsAssumption DEF Subst, Addr
<1>2. CASE t \notin S
  BY <1>2 DEF Subst, IsParamRef, Addr, AddrOrNull, Null
<1>. QED  BY <1>1, <1>2

\* A copy is a thunk of the same type as its original, and refers to addresses.
LEMMA CopyThunkFits ==
    ASSUME Graph(heap, top, memo), bound \in [PatId -> AddrOrNull],
           NEW S, S \subseteq 1..top, top + Cardinality(S) <= MaxAddr,
           IsFiniteSet(S), NEW param, NEW t \in Addr
    PROVE  LET c == CopyThunk(S, param, t)
           IN  /\ c \in Thunk
               /\ ThunkFits(c)
               /\ c.type = heap[t].type
               /\ Len(c.kids) = Len(heap[t].kids)
               /\ \A i \in 1..Len(heap[t].kids) :
                     c.kids[i] = Subst(S, param, heap[t].kids[i])
<1>. DEFINE kids == [i \in 1..Len(heap[t].kids) |-> Subst(S, param, heap[t].kids[i])]
<1>1. heap[t] \in Thunk /\ ThunkFits(heap[t]) /\ Len(heap[t].kids) \in Nat
  BY LenProperties DEF Graph, Thunk
<1>2. \A i \in 1..Len(heap[t].kids) : Subst(S, param, heap[t].kids[i]) \in Addr
  BY KidsInAddr, SubstFits DEF Graph
<1>3. kids \in Seq(Addr) /\ Len(kids) = Len(heap[t].kids)
  BY <1>1, <1>2
<1>4. CopyThunk(S, param, t) = [heap[t] EXCEPT !.kids = kids]
  BY DEF CopyThunk
<1>5. /\ CopyThunk(S, param, t) \in Thunk
      /\ CopyThunk(S, param, t).kids = kids
      /\ CopyThunk(S, param, t).type = heap[t].type
      /\ CopyThunk(S, param, t).num = heap[t].num
      /\ CopyThunk(S, param, t).tag = heap[t].tag
  <2>. HIDE DEF kids
  <2>. QED  BY <1>1, <1>3, <1>4 DEF Thunk
<1>6. ThunkFits(CopyThunk(S, param, t))
  <2>. HIDE DEF kids
  <2>. QED  BY <1>1, <1>3, <1>5 DEF ThunkFits
<1>. QED  BY <1>3, <1>5, <1>6

\* lsthunk_subst_param keeps the graph, and maps a value to a value.
LEMMA SubstReturnFits ==
    ASSUME bound \in [PatId -> AddrOrNull], NEW s, Waiting(s),
           NEW v \in Addr, ValueIn(heap, v), NEW param, SubstReturn(s, v, param)
    PROVE  StepFits
<1>. DEFINE S == CopySet(v)
            Source(a) == CHOOSE t \in S : CopyOf(S, t) = a
            IsCopy(a) == \E t \in S : CopyOf(S, t) = a
            n == Cardinality(S)
<1>1. top \in Nat /\ top \in 1..MaxAddr /\ MaxAddr \in Nat
  BY BoundsAssumption DEF Waiting, Graph
<1>2. /\ S \subseteq 1..top /\ IsFiniteSet(S) /\ n \in Nat
      /\ \A t \in S : heap[t].type \in Copied
  BY <1>1, CopySetFits
<1>3. S \subseteq Addr
  BY <1>1, <1>2 DEF Addr
<1>4. CASE ~(top + n <= MaxAddr)
  <2>1. UNCHANGED graph /\ Go(s, Halt("bound"))
    BY <1>4 DEF SubstReturn
  <2>. QED  BY <2>1, OutOfMemoryFits
<1>5. CASE top + n <= MaxAddr
  <2>1. /\ heap' = [a \in Addr |-> IF IsCopy(a) THEN CopyThunk(S, param, Source(a))
                                   ELSE heap[a]]
        /\ memo' = [a \in Addr |-> IF IsCopy(a)
                                   THEN IF heap[Source(a)].type \in {"ALGE", "LAMBDA"}
                                        THEN a ELSE Null
                                   ELSE memo[a]]
        /\ top' = top + n
        /\ Go(s, Ret(Subst(S, param, v)))
    BY <1>5 DEF SubstReturn
  <2>2. ASSUME NEW t \in S
        PROVE  /\ CopyOf(S, t) \in (top + 1)..(top + n)
               /\ CopyOf(S, t) \in Addr
               /\ Source(CopyOf(S, t)) = t
    <3>1. /\ CopyOf(S, t) \in (top + 1)..(top + n)
          /\ \A u \in S : CopyOf(S, u) = CopyOf(S, t) => u = t
      <4>. HIDE DEF S
      <4>. QED  BY <1>1, <1>2, CopyOfFits
    <3>2. CopyOf(S, t) \in Addr
      <4>. HIDE DEF S, n
      <4>. QED  BY <1>1, <1>2, <1>5, <3>1 DEF Addr
    <3>3. Source(CopyOf(S, t)) = t
      <4>. HIDE DEF S
      <4>. QED  BY <3>1
    <3>. QED  BY <3>1, <3>2, <3>3
  <2>3. ASSUME NEW a \in Addr, IsCopy(a)
        PROVE  /\ Source(a) \in S /\ Source(a) \in Addr
               /\ a \in (top + 1)..(top + n)
    <3>. HIDE DEF S, n
    <3>. QED  BY <1>3, <2>2, <2>3
  <2>4. ASSUME NEW t \in Addr
        PROVE  LET c == CopyThunk(S, param, t)
               IN  /\ c \in Thunk
                   /\ ThunkFits(c)
                   /\ c.type = heap[t].type
                   /\ Len(c.kids) = Len(heap[t].kids)
                   /\ \A i \in 1..Len(heap[t].kids) :
                         c.kids[i] = Subst(S, param, heap[t].kids[i])
    <3>. HIDE DEF S
    <3>. QED  BY <1>2, <1>5, CopyThunkFits DEF Waiting
  <2>. HIDE DEF S, n, Source, IsCopy
  <2>5. ASSUME NEW a \in Addr
        PROVE  /\ heap'[a] \in Thunk
               /\ ThunkFits(heap'[a])
               /\ IsCopy(a) => heap'[a].type = heap[Source(a)].type
               /\ ~IsCopy(a) => heap'[a] = heap[a]
    <3>1. CASE IsCopy(a)
      BY <2>1, <2>3, <2>4, <3>1
    <3>2. CASE ~IsCopy(a)
      BY <2>1, <3>2 DEF Waiting, Graph
    <3>. QED  BY <3>1, <3>2
  <2>6. heap' \in [Addr -> Thunk]
    BY <2>1, <2>5
  <2>7. \A a \in Addr : heap[a].type # "FREE" => ~IsCopy(a)
    BY <1>1, <2>3 DEF Waiting, Graph, Addr
  <2>8. Grows(heap, heap')
    BY <2>5, <2>7 DEF Grows
  <2>9. top' \in 1..MaxAddr
    BY <1>1, <1>2, <1>5, <2>1
  <2>10. \A a \in Addr : a > top' => heap'[a].type = "FREE"
    <3>. SUFFICES ASSUME NEW a \in Addr, a > top'
                  PROVE  heap'[a].type = "FREE"
      OBVIOUS
    <3>1. a > top + n /\ a > top
      BY <1>1, <1>2, <2>1 DEF Addr
    <3>2. ~IsCopy(a)
      BY <1>1, <1>2, <2>3, <3>1 DEF Addr
    <3>. QED  BY <2>5, <3>1, <3>2 DEF Waiting, Graph
  <2>11. ASSUME NEW a \in Addr
         PROVE  /\ memo'[a] \in AddrOrNull
                /\ memo'[a] # Null => ValueIn(heap', memo'[a])
    <3>1. CASE IsCopy(a) /\ heap[Source(a)].type \in {"ALGE", "LAMBDA"}
      <4>1. memo'[a] = a /\ heap'[a].type \in DataTypes
        BY <2>1, <2>5, <3>1 DEF DataTypes
      <4>. QED  BY <4>1 DEF ValueIn, Addr, AddrOrNull
    <3>2. CASE IsCopy(a) /\ heap[Source(a)].type \notin {"ALGE", "LAMBDA"}
      BY <2>1, <3>2, <1>1 DEF AddrOrNull, Null
    <3>3. CASE ~IsCopy(a)
      <4>1. memo'[a] = memo[a] /\ memo[a] \in AddrOrNull
        BY <2>1, <3>3 DEF Waiting, Graph
      <4>2. ASSUME memo[a] # Null
            PROVE  ValueIn(heap', memo[a])
        <5>1. memo[a] \in Addr
          BY <4>1, <4>2 DEF Addr, AddrOrNull, Null
        <5>. QED  BY <2>8, <4>2, <5>1, GrowsValue DEF Waiting, Graph
      <4>. QED  BY <4>1, <4>2
    <3>. QED  BY <3>1, <3>2, <3>3
  <2>12. memo' \in [Addr -> AddrOrNull]
    BY <2>1, <2>11
  <2>13. Graph(heap', top', memo')
    BY <2>5, <2>6, <2>9, <2>10, <2>11, <2>12 DEF Graph
  <2>14. Subst(S, param, v) \in Addr /\ ValueIn(heap', Subst(S, param, v))
    <3>1. CASE v \in S
      <4>1. /\ Subst(S, param, v) = CopyOf(S, v) /\ CopyOf(S, v) \in Addr
            /\ IsCopy(CopyOf(S, v)) /\ Source(CopyOf(S, v)) = v
        BY <2>2, <3>1 DEF Subst, IsCopy
      <4>2. heap'[CopyOf(S, v)] = CopyThunk(S, param, v)
        BY <2>1, <4>1
      <4>3. CASE heap[v].type \in DataTypes
        BY <2>4, <4>1, <4>2, <4>3 DEF ValueIn
      <4>4. CASE heap[v].type \notin DataTypes
        <5>. DEFINE k == heap[v].kids
        <5>1. /\ heap[v].type = "APPL" /\ heap[k[1]].type = "BUILTIN"
              /\ Len(Tail(k)) < ArityOf(heap[k[1]].tag)
          BY <1>2, <3>1, <4>4 DEF ValueIn, Copied
        <5>2. k \in Seq(Addr) /\ Len(k) \in Nat /\ Len(k) > 1 /\ k[1] \in Addr
          BY <5>1, KidsInAddr, LenProperties DEF Waiting, Graph, ThunkFits
        <5>3. Subst(S, param, k[1]) = k[1]
          BY <1>2, <5>1 DEF Subst, IsParamRef, Copied
        <5>. DEFINE c == CopyThunk(S, param, v)
        <5>4. /\ c.type = "APPL" /\ c.kids \in Seq(Addr)
              /\ Len(c.kids) = Len(k) /\ c.kids[1] = k[1]
          <6>1. /\ c \in Thunk /\ c.type = heap[v].type
                /\ Len(c.kids) = Len(k)
                /\ \A i \in 1..Len(k) : c.kids[i] = Subst(S, param, k[i])
            BY <2>4
          <6>2. 1 \in 1..Len(k)
            BY <5>2
          <6>. HIDE DEF c, k
          <6>3. c.kids[1] = Subst(S, param, k[1])
            BY <6>1, <6>2
          <6>4. c.kids \in Seq(Addr)
            BY <6>1 DEF Thunk
          <6>5. c.type = "APPL"
            BY <5>1, <6>1
          <6>. QED  BY <5>3, <6>1, <6>3, <6>4, <6>5
        <5>5. Len(Tail(c.kids)) = Len(Tail(k))
          <6>1. c.kids # <<>> /\ k # <<>>
            BY <5>2, <5>4, EmptySeq
          <6>. HIDE DEF c, k
          <6>. QED  BY <5>2, <5>4, <6>1, HeadTailProperties
        <5>6. heap'[k[1]] = heap[k[1]]
          BY <2>8, <5>1, <5>2 DEF Grows
        <5>. QED  BY <4>1, <4>2, <5>1, <5>4, <5>5, <5>6 DEF ValueIn
      <4>. QED  BY <4>3, <4>4
    <3>2. CASE v \notin S
      <4>1. Subst(S, param, v) = v
        BY <3>2 DEF Subst, IsParamRef, ValueIn, DataTypes
      <4>. QED  BY <2>8, <4>1, GrowsValue DEF Waiting, Graph
    <3>. QED  BY <3>1, <3>2
  <2>15. Ctl(heap', Ret(Subst(S, param, v)))
    <3>1. Subst(S, param, v) \in AddrOrNull
      BY <2>14 DEF Addr, AddrOrNull
    <3>. QED  BY <2>14, <3>1, RetFits
  <2>16. Stack(prog.pats, heap', s)
    BY <2>8, GrowsStack DEF Waiting
  <2>. QED  BY <2>1, <2>8, <2>13, <2>15, <2>16 DEF Go, StepFits
<1>. QED  BY <1>4, <1>5

-----------------------------------------------------------------------------
(* The steps of the evaluator *)

OthersFit ==
    /\ prog' = prog
    /\ bound' \in [PatId -> AddrOrNull]
    /\ depth' \in Nat
    /\ out' \in Seq(Thunk)

\* The parts of the invariant, by name.
LEMMA Invariants ==
    ASSUME IInv
    PROVE  /\ WellBuilt(prog)
           /\ prog.pats \in [PatId -> Pattern]
           /\ \A p \in PatId : PatternFits(prog, p)
           /\ Waiting(stack)
           /\ heap \in [Addr -> Thunk]
           /\ memo \in [Addr -> AddrOrNull]
           /\ bound \in [PatId -> AddrOrNull]
           /\ \A a \in Addr : ThunkFits(heap[a])
           /\ ctl \in Control /\ ControlFits(heap, ctl)
           /\ ctl.a \in AddrOrNull /\ ctl.args \in Seq(Addr) /\ ctl.p \in 0..MaxPat
           /\ ctl.a # Null => ctl.a \in Addr
BY ProgramsAssumption DEF IInv, Inv, WellBuilt, Waiting, Graph, Ctl, Control,
   Addr, AddrOrNull, Null

\* A step that leaves the graph and the other variables alone.
LEMMA StepAllFits ==
    ASSUME IInv, NEW s, Waiting(s), NEW c, Ctl(heap, c), Step(s, c)
    PROVE  StepFits /\ OthersFit
<1>1. StepFits
  BY GoFits DEF Step
<1>2. OthersFit
  BY DEF Step, OthersFit, world, IInv, Inv
<1>. QED  BY <1>1, <1>2

\* A step that is a call keeps every part of the invariant.
LEMMA PushAllFits ==
    ASSUME IInv, NEW s, Waiting(s), NEW f \in Frame, FrameFits(prog.pats, heap, f),
           NEW c, Ctl(heap, c), Push(s, f, c)
    PROVE  StepFits /\ OthersFit
<1>1. StepFits
  BY CallStepFits DEF Push
<1>2. OthersFit
  BY DEF Push, OthersFit, world, IInv, Inv
<1>. QED  BY <1>1, <1>2

\* The activation on top of the stack is one, with what it saved.
LEMMA ResumeFits ==
    ASSUME IInv, stack # <<>>
    PROVE  /\ Top \in Frame
           /\ FrameFits(prog.pats, heap, Top)
           /\ Waiting(Pop)
           /\ Top.args \in Seq(Addr)
           /\ Top.a \in AddrOrNull
BY Invariants, PopFits DEF Waiting, Frame

\* The function and the arguments of an application, and what it applies.
LEMMA ApplFits ==
    ASSUME IInv, NEW t \in Addr, heap[t].type = "APPL"
    PROVE  Func(t) \in Addr /\ Args(t) \in Seq(Addr) /\ Args(t) # <<>>
<1>1. heap[t].kids \in Seq(Addr) /\ Len(heap[t].kids) > 1 /\ Len(heap[t].kids) \in Nat
  BY Invariants, KidsInAddr, LenProperties DEF ThunkFits
<1>2. heap[t].kids # <<>> /\ heap[t].kids[1] \in Addr
  BY <1>1, EmptySeq, ElementOfSeq
<1>3. Tail(heap[t].kids) \in Seq(Addr) /\ Len(Tail(heap[t].kids)) = Len(heap[t].kids) - 1
  BY <1>1, <1>2, HeadTailProperties
<1>4. Tail(heap[t].kids) # <<>>
  <2>1. \A n, m : n \in Nat /\ n > 1 /\ m = n - 1 => m # 0
    OBVIOUS
  <2>2. Len(Tail(heap[t].kids)) # 0
    BY <1>1, <1>3, <2>1, Zenon
  <2>. QED  BY <2>2, EmptySeq, Zenon
<1>. QED  BY <1>2, <1>3, <1>4 DEF Func, Args, Kids

\* A step that stores a value in the memo of one thunk.
LEMMA MemoFits ==
    ASSUME IInv, NEW s, Waiting(s), NEW t \in Addr, NEW v \in AddrOrNull,
           v # Null => ValueIn(heap, v), memo' = [memo EXCEPT ![t] = v],
           Go(s, Ret(v)), UNCHANGED <<heap, top, world, bound>>
    PROVE  StepFits /\ OthersFit
<1>1. /\ memo' \in [Addr -> AddrOrNull]
      /\ \A a \in Addr : memo'[a] # Null => ValueIn(heap, memo'[a])
  BY Invariants DEF Waiting, Graph
<1>2. Ctl(heap, Ret(v))
  BY RetFits
<1>3. StepFits
  BY <1>1, <1>2 DEF Waiting, Graph, Go, StepFits, Grows
<1>4. OthersFit
  BY DEF OthersFit, world, IInv, Inv
<1>. QED  BY <1>3, <1>4

\* The activation that remembers a result in lt_whnf.
LEMMA UpdateFrameFits ==
    ASSUME NEW t \in Addr
    PROVE  /\ Fr("Update", t, <<>>, 0, 0) \in Frame
           /\ FrameFits(prog.pats, heap, Fr("Update", t, <<>>, 0, 0))
<1>1. /\ "Update" \in FrameKinds /\ t \in AddrOrNull /\ <<>> \in Seq(Addr)
      /\ 0 \in 0..MaxPat /\ 0 \in Nat
  BY BoundsAssumption DEF FrameKinds, Addr, AddrOrNull
<1>2. /\ Fr("Update", t, <<>>, 0, 0) \in Frame
      /\ Fr("Update", t, <<>>, 0, 0).k = "Update"
      /\ Fr("Update", t, <<>>, 0, 0).a = t
  BY <1>1 DEF Fr, Frame
<1>. QED  BY <1>2 DEF FrameFits

\* lsthunk_eval0.
LEMMA Eval0Steps ==
    ASSUME IInv, Eval0Memo \/ Eval0Appl \/ Eval0Other \/ Update
    PROVE  StepFits /\ OthersFit
<1>1. Waiting(stack)
  BY Invariants
<1>2. ctl.m = "eval0" => ctl.a \in Addr
  BY Invariants DEF ControlFits
<1>3. CASE Eval0Memo
  <2>1. memo[ctl.a] \in AddrOrNull /\ ValueIn(heap, memo[ctl.a])
    BY <1>1, <1>2, <1>3 DEF Eval0Memo, Waiting, Graph
  <2>2. Ctl(heap, Ret(memo[ctl.a]))
    BY <2>1, RetFits
  <2>. QED  BY <1>1, <1>3, <2>2, StepAllFits DEF Eval0Memo
<1>4. CASE Eval0Appl
  <2>1. ctl.a \in Addr /\ heap[ctl.a].type = "APPL"
    BY <1>2, <1>4 DEF Eval0Appl
  <2>2. Ctl(heap, Eval(Func(ctl.a), Args(ctl.a)))
    BY <2>1, ApplFits, EvalFits, Invariants
  <2>3. /\ Fr("Update", ctl.a, <<>>, 0, 0) \in Frame
        /\ FrameFits(prog.pats, heap, Fr("Update", ctl.a, <<>>, 0, 0))
    BY <2>1, UpdateFrameFits
  <2>. QED  BY <1>1, <1>4, <2>2, <2>3, PushAllFits DEF Eval0Appl
<1>5. CASE Eval0Other
  <2>1. ctl.a \in Addr /\ heap[ctl.a].type \in {"REF", "CHOICE", "BUILTIN"}
    BY <1>2, <1>5 DEF Eval0Other
  <2>2. Ctl(heap, Apply(ctl.a, <<>>))
    <3>1. <<>> \in Seq(Addr)
      OBVIOUS
    <3>. QED  BY <2>1, <3>1, ApplyFits
  <2>3. /\ Fr("Update", ctl.a, <<>>, 0, 0) \in Frame
        /\ FrameFits(prog.pats, heap, Fr("Update", ctl.a, <<>>, 0, 0))
    BY <2>1, UpdateFrameFits
  <2>. QED  BY <1>1, <1>5, <2>2, <2>3, PushAllFits DEF Eval0Other
<1>6. CASE Update
  <2>1. Top.k = "Update" /\ stack # <<>> /\ ctl.m = "ret"
    BY <1>6 DEF Update, Returned
  <2>2. Top.a \in Addr /\ Waiting(Pop)
    BY <2>1, ResumeFits DEF FrameFits
  <2>3. ctl.a \in AddrOrNull /\ (ctl.a # Null => ValueIn(heap, ctl.a))
    BY <2>1, Invariants DEF ControlFits
  <2>. QED  BY <1>6, <2>2, <2>3, MemoFits DEF Update
<1>. QED  BY <1>3, <1>4, <1>5, <1>6

\* lsthunk_eval_lambda.
LEMMA LambdaStepsFit ==
    ASSUME IInv,
           EvalLambda \/ LambdaMismatch \/ LambdaBody \/ LambdaReturn
    PROVE  StepFits /\ OthersFit
<1>1. Waiting(stack)
  BY Invariants
<1>. DEFINE f == Fr("Match", ctl.a, ctl.args, 0, 0)
<1>2. CASE EvalLambda
  <2>1. ctl.a \in Addr /\ heap[ctl.a].type = "LAMBDA" /\ ctl.args \in Seq(Addr)
    BY <1>2, Invariants DEF EvalLambda, Applying, ControlFits
  <2>2. ctl.args # <<>>
    BY <1>2, <2>1, Invariants DEF EvalLambda, Applying, ControlFits
  <2>3. ctl.args[1] \in Addr /\ Param(ctl.a) \in PatId
    BY <2>1, <2>2, EmptySeq, LenProperties, ElementOfSeq, Invariants DEF Param, ThunkFits
  <2>4. Ctl(heap, Match(ctl.args[1], Param(ctl.a)))
    BY <2>3, MatchFits
  <2>5. /\ f \in Frame
        /\ f.k = "Match" /\ f.a = ctl.a /\ f.args = ctl.args
    <3>1. "Match" \in FrameKinds /\ ctl.a \in AddrOrNull /\ 0 \in 0..MaxPat /\ 0 \in Nat
      BY <2>1, BoundsAssumption DEF FrameKinds, Addr, AddrOrNull
    <3>. QED  BY <2>1, <3>1 DEF Fr, Frame
  <2>6. FrameFits(prog.pats, heap, f)
    <3>. HIDE DEF f
    <3>. QED  BY <2>1, <2>2, <2>5 DEF FrameFits
  <2>. QED  BY <1>1, <1>2, <2>4, <2>5, <2>6, PushAllFits DEF EvalLambda
<1>3. ASSUME ctl.m \in {"ret", "matched"}, stack # <<>>, Top.k \in {"Match", "Body"}
      PROVE  /\ Top \in Frame /\ FrameFits(prog.pats, heap, Top) /\ Waiting(Pop)
             /\ Top.a \in Addr /\ Top.args \in Seq(Addr)
             /\ Top.k = "Match" => Top.args[1] \in Addr
             /\ Param(Top.a) \in PatId /\ Body(Top.a) \in Addr
             /\ ClearBinds(Param(Top.a)) => bound' \in [PatId -> AddrOrNull]
  <2>1. /\ Top \in Frame /\ FrameFits(prog.pats, heap, Top) /\ Waiting(Pop)
        /\ Top.args \in Seq(Addr)
    BY <1>3, ResumeFits
  <2>2. Top.a \in Addr /\ heap[Top.a].type = "LAMBDA"
    BY <1>3, <2>1 DEF FrameFits
  <2>3. ASSUME Top.k = "Match"
        PROVE  Top.args[1] \in Addr
    BY <2>1, <2>3, EmptySeq, LenProperties, ElementOfSeq DEF FrameFits
  <2>4. Param(Top.a) \in PatId /\ Body(Top.a) \in Addr
    BY <2>2, Invariants, KidsInAddr DEF Param, Body, Kids, ThunkFits
  <2>5. ClearBinds(Param(Top.a)) => bound' \in [PatId -> AddrOrNull]
    BY Invariants, BoundsAssumption DEF ClearBinds, AddrOrNull, Null
  <2>. QED  BY <2>1, <2>2, <2>3, <2>4, <2>5
<1>4. CASE LambdaMismatch
  <2>1. ctl.m = "matched" /\ stack # <<>> /\ Top.k = "Match"
    BY <1>4 DEF LambdaMismatch, MatchReturned
  <2>2. Waiting(Pop) /\ Top.args[1] \in Addr /\ bound' \in [PatId -> AddrOrNull]
    BY <1>3, <1>4, <2>1 DEF LambdaMismatch
  <2>3. <<Top.args[1]>> \in Seq(Addr) /\ "lambda match failure" \in Tag
    BY <2>2 DEF Tag, OwnTags
  <2>4. StepFits
    BY <1>4, <2>2, <2>3, BottomReturnFits DEF LambdaMismatch
  <2>. QED  BY <1>4, <2>2, <2>4 DEF LambdaMismatch, OthersFit, world, IInv, Inv
<1>5. CASE LambdaBody
  <2>. DEFINE g == [Top EXCEPT !.k = "Body"]
  <2>1. ctl.m = "matched" /\ stack # <<>> /\ Top.k = "Match"
    BY <1>5 DEF LambdaBody, MatchReturned
  <2>2. /\ Top \in Frame /\ FrameFits(prog.pats, heap, Top) /\ Waiting(Pop)
        /\ Top.a \in Addr /\ Top.args \in Seq(Addr) /\ Body(Top.a) \in Addr
    BY <1>3, <2>1
  <2>3. Ctl(heap, Eval(Body(Top.a), Drop(Top.args, 1)))
    BY <2>2, DropFits, EvalFits, Invariants
  <2>4. g \in Frame /\ g.k = "Body" /\ g.a = Top.a
    BY <2>2 DEF Frame, FrameKinds
  <2>5. FrameFits(prog.pats, heap, g)
    <3>. HIDE DEF g
    <3>. QED  BY <2>1, <2>2, <2>4 DEF FrameFits
  <2>. QED  BY <1>5, <2>2, <2>3, <2>4, <2>5, PushAllFits DEF LambdaBody
<1>6. CASE LambdaReturn
  <2>1. ctl.m = "ret" /\ stack # <<>> /\ Top.k = "Body"
    BY <1>6 DEF LambdaReturn, Returned
  <2>2. Waiting(Pop) /\ bound' \in [PatId -> AddrOrNull]
    BY <1>3, <1>6, <2>1 DEF LambdaReturn
  <2>3. CASE ctl.a = Null
    <3>1. Ctl(heap, Ret(Null))
      BY RetFits, BoundsAssumption DEF AddrOrNull, Null
    <3>2. StepFits
      BY <1>6, <2>2, <2>3, <3>1, GoFits DEF LambdaReturn
    <3>. QED  BY <1>6, <2>2, <3>2 DEF LambdaReturn, OthersFit, world, IInv, Inv
  <2>4. CASE ctl.a # Null
    <3>1. ctl.a \in Addr /\ ValueIn(heap, ctl.a) /\ bound \in [PatId -> AddrOrNull]
      BY <2>1, <2>4, Invariants DEF ControlFits
    <3>2. StepFits
      BY <1>6, <2>2, <2>4, <3>1, SubstReturnFits DEF LambdaReturn
    <3>. QED  BY <1>6, <2>2, <3>2 DEF LambdaReturn, OthersFit, world, IInv, Inv
  <2>. QED  BY <2>3, <2>4
<1>. QED  BY <1>2, <1>4, <1>5, <1>6

\* lsthunk_eval_alge, lsthunk_eval_appl and the types that take no arguments.
LEMMA ApplyStepsFit ==
    ASSUME IInv, EvalAlge \/ EvalAppl \/ EvalAtom
    PROVE  StepFits /\ OthersFit
<1>1. /\ Waiting(stack) /\ ctl.m = "apply" /\ ctl.a \in Addr /\ ctl.args \in Seq(Addr)
      /\ heap[ctl.a] \in Thunk
  BY Invariants DEF EvalAlge, EvalAppl, EvalAtom, Applying, ControlFits
<1>2. CASE EvalAlge
  <2>. DEFINE t == [heap[ctl.a] EXCEPT !.kids = @ \o ctl.args]
  <2>1. heap[ctl.a].kids \o ctl.args \in Seq(Addr)
    BY <1>1, ConcatProperties DEF Thunk
  <2>2. t \in Thunk /\ t.type = "ALGE"
    BY <1>1, <1>2, <2>1 DEF EvalAlge, Applying, Thunk
  <2>3. ThunkFits(t) /\ NormalIn(heap, t)
    <3>. HIDE DEF t
    <3>. QED  BY <2>2 DEF ThunkFits, NormalIn, DataTypes
  <2>4. StepFits
    BY <1>1, <1>2, <2>2, <2>3, AllocReturnFits DEF EvalAlge
  <2>. QED  BY <1>2, <2>4 DEF EvalAlge, OthersFit, world, IInv, Inv
<1>3. CASE EvalAppl
  <2>1. heap[ctl.a].type = "APPL"
    BY <1>3 DEF EvalAppl, Applying
  <2>2. Func(ctl.a) \in Addr /\ Args(ctl.a) \o ctl.args \in Seq(Addr)
    BY <1>1, <2>1, ApplFits, ConcatProperties
  <2>3. Ctl(heap, Eval(Func(ctl.a), Args(ctl.a) \o ctl.args))
    BY <2>2, EvalFits, Invariants
  <2>. QED  BY <1>1, <1>3, <2>3, StepAllFits DEF EvalAppl
<1>4. CASE EvalAtom
  <2>1. Ctl(heap, Ret(Null))
    BY RetFits, BoundsAssumption DEF AddrOrNull, Null
  <2>. QED  BY <1>1, <1>4, <2>1, StepAllFits DEF EvalAtom
<1>. QED  BY <1>2, <1>3, <1>4

\* lsthunk_eval_ref, whatever the reference resolves to.
LEMMA RefStepsFit ==
    ASSUME IInv, RefStep
    PROVE  StepFits /\ OthersFit
<1>. DEFINE q == heap[ctl.a].num
<1>1. Waiting(stack) /\ ctl.args \in Seq(Addr) /\ <<>> \in Seq(Addr)
  BY Invariants
<1>2. ASSUME Applying("REF")
      PROVE  /\ ctl.a \in Addr /\ q \in 0..MaxPat
             /\ q # 0 => q \in PatId /\ PatternFits(prog, q) /\ bound[q] \in AddrOrNull
  BY <1>2, Invariants DEF Applying, ControlFits, ThunkFits, PatId
<1>3. CASE RefUndefined
  <2>1. "undefined reference" \in Tag
    BY DEF Tag, OwnTags
  <2>2. StepFits
    BY <1>1, <1>3, <2>1, BottomReturnFits DEF RefUndefined
  <2>. QED  BY <1>3, <2>2 DEF RefUndefined, OthersFit, world, IInv, Inv
<1>4. CASE RefBound
  <2>1. bound[q] \in Addr
    BY <1>2, <1>4 DEF RefBound, Addr, AddrOrNull, Null
  <2>2. Ctl(heap, Eval(bound[q], ctl.args))
    BY <1>1, <2>1, EvalFits, Invariants
  <2>. QED  BY <1>1, <1>4, <2>2, StepAllFits DEF RefBound
<1>5. CASE RefBind
  <2>. DEFINE f == Fr("BindMatch", Null, ctl.args, q, 0)
  <2>1. q \in PatId /\ Pat(q).root \in PatId /\ Pat(q).rhs \in Addr
    BY <1>2, <1>5 DEF RefBind, RefUnbound, PatternFits, Pat
  <2>2. Ctl(heap, Match(Pat(q).rhs, Pat(q).root))
    BY <2>1, MatchFits
  <2>3. f \in Frame /\ f.k = "BindMatch" /\ f.p = q
    <3>1. "BindMatch" \in FrameKinds /\ Null \in AddrOrNull /\ q \in 0..MaxPat /\ 0 \in Nat
      BY <2>1, BoundsAssumption DEF FrameKinds, AddrOrNull, Null, PatId
    <3>. QED  BY <1>1, <3>1 DEF Fr, Frame
  <2>4. FrameFits(prog.pats, heap, f)
    <3>. HIDE DEF f
    <3>. QED  BY <2>1, <2>3 DEF FrameFits
  <2>5. StepFits
    BY <1>1, <1>5, <2>2, <2>3, <2>4, CallStepFits DEF RefBind
  <2>. QED  BY <1>5, <2>5 DEF RefBind, OthersFit, world, IInv, Inv
<1>6. CASE RefBindMismatch
  <2>1. Waiting(Pop) /\ "ref match failure" \in Tag
    BY <1>6, ResumeFits DEF RefBindMismatch, MatchReturned, Tag, OwnTags
  <2>2. StepFits
    BY <1>1, <1>6, <2>1, BottomReturnFits DEF RefBindMismatch
  <2>. QED  BY <1>6, <2>2 DEF RefBindMismatch, OthersFit, world, IInv, Inv
<1>7. CASE RefBindMatched
  <2>1. Waiting(Pop) /\ Top.p \in PatId /\ Top.args \in Seq(Addr)
    BY <1>7, ResumeFits DEF RefBindMatched, MatchReturned, FrameFits
  <2>2. CASE bound[Top.p] = Null
    <3>1. Ctl(heap, Halt("assert"))
      BY HaltFits DEF Outcomes
    <3>. QED  BY <1>7, <2>1, <2>2, <3>1, StepAllFits DEF RefBindMatched
  <2>3. CASE bound[Top.p] # Null
    <3>1. bound[Top.p] \in Addr
      BY <2>1, <2>3, Invariants DEF Addr, AddrOrNull, Null
    <3>2. Ctl(heap, Eval(bound[Top.p], Top.args))
      BY <2>1, <3>1, EvalFits, Invariants
    <3>. QED  BY <1>7, <2>1, <2>3, <3>2, StepAllFits DEF RefBindMatched
  <2>. QED  BY <2>2, <2>3
<1>8. CASE RefParam
  <2>1. "unbound lambda param" \in Tag
    BY DEF Tag, OwnTags
  <2>2. StepFits
    BY <1>1, <1>8, <2>1, BottomReturnFits DEF RefParam
  <2>. QED  BY <1>8, <2>2 DEF RefParam, OthersFit, world, IInv, Inv
<1>9. CASE RefBuiltin
  <2>1. /\ q \in PatId /\ Pat(q).rhs \in 1..Len(prog.heap)
        /\ prog.heap[Pat(q).rhs].type = "BUILTIN"
    BY <1>2, <1>9 DEF RefBuiltin, RefUnbound, PatternFits, Pat
  <2>2. Pat(q).rhs \in Addr /\ heap[Pat(q).rhs].type = "BUILTIN"
    <3>1. 1..Len(prog.heap) \subseteq Addr
      BY Invariants, LenProperties, BoundsAssumption DEF WellBuilt, Addr
    <3>. QED  BY <2>1, <3>1 DEF IInv, Inv, BuiltHeapKept
  <2>3. Ctl(heap, Apply(Pat(q).rhs, ctl.args))
    BY <1>1, <2>2, ApplyFits
  <2>. QED  BY <1>1, <1>9, <2>3, StepAllFits DEF RefBuiltin
<1>. QED  BY <1>3, <1>4, <1>5, <1>6, <1>7, <1>8, <1>9 DEF RefStep

\* A choice has two arms.
LEMMA ChoiceFits ==
    ASSUME IInv, NEW t \in Addr, heap[t].type = "CHOICE"
    PROVE  Left(t) \in Addr /\ Right(t) \in Addr
BY Invariants, KidsInAddr DEF ThunkFits, Left, Right, Kids

\* An activation that waits for an arm of choice t applied to args.
LEMMA ChoiceFrameFits ==
    ASSUME NEW k \in {"LamChoice", "Catch", "ExprChoice"}, NEW t \in Addr,
           heap[t].type = "CHOICE", NEW args \in Seq(Addr),
           k = "LamChoice" => args # <<>>
    PROVE  /\ Fr(k, t, args, 0, 0) \in Frame
           /\ FrameFits(prog.pats, heap, Fr(k, t, args, 0, 0))
<1>. DEFINE f == Fr(k, t, args, 0, 0)
<1>1. f \in Frame /\ f.k = k /\ f.a = t /\ f.args = args
  <2>1. k \in FrameKinds /\ t \in AddrOrNull /\ 0 \in 0..MaxPat /\ 0 \in Nat
    BY BoundsAssumption DEF FrameKinds, Addr, AddrOrNull
  <2>. QED  BY <2>1 DEF Fr, Frame
<1>2. FrameFits(prog.pats, heap, f)
  <2>. HIDE DEF f
  <2>. QED  BY <1>1 DEF FrameFits
<1>. QED  BY <1>1, <1>2

\* The activation that waits for the right arm.
LEMMA RightFrameFits ==
    ASSUME NEW t \in Addr
    PROVE  /\ Fr("Right", t, <<>>, 0, 0) \in Frame
           /\ FrameFits(prog.pats, heap, Fr("Right", t, <<>>, 0, 0))
<1>. DEFINE f == Fr("Right", t, <<>>, 0, 0)
<1>1. f \in Frame /\ f.k = "Right" /\ f.a = t
  <2>1. /\ "Right" \in FrameKinds /\ t \in AddrOrNull /\ 0 \in 0..MaxPat /\ 0 \in Nat
        /\ <<>> \in Seq(Addr)
    BY BoundsAssumption DEF FrameKinds, Addr, AddrOrNull
  <2>. QED  BY <2>1 DEF Fr, Frame
<1>2. FrameFits(prog.pats, heap, f)
  <2>. HIDE DEF f
  <2>. QED  BY <1>1 DEF FrameFits
<1>. QED  BY <1>1, <1>2

\* The calls lsthunk_eval_choice makes.
LEMMA ChoiceCallsFit ==
    ASSUME IInv, EvalLamChoice \/ EvalCatch \/ EvalExprChoice
    PROVE  StepFits /\ OthersFit
<1>1. /\ Waiting(stack) /\ ctl.a \in Addr /\ ctl.args \in Seq(Addr)
      /\ heap[ctl.a].type = "CHOICE" /\ Left(ctl.a) \in Addr /\ <<>> \in Seq(Addr)
  BY Invariants, ChoiceFits
     DEF EvalLamChoice, EvalCatch, EvalExprChoice, Applying, ControlFits
<1>2. CASE EvalLamChoice
  <2>1. ctl.args # <<>> /\ ctl.args[1] \in Addr
    BY <1>1, <1>2, EmptySeq, LenProperties, ElementOfSeq DEF EvalLamChoice
  <2>2. Ctl(heap, Eval(Left(ctl.a), <<ctl.args[1]>>))
    <3>1. <<ctl.args[1]>> \in Seq(Addr)
      BY <2>1
    <3>. QED  BY <1>1, <3>1, EvalFits, Invariants
  <2>3. /\ Fr("LamChoice", ctl.a, ctl.args, 0, 0) \in Frame
        /\ FrameFits(prog.pats, heap, Fr("LamChoice", ctl.a, ctl.args, 0, 0))
    BY <1>1, <2>1, ChoiceFrameFits
  <2>. QED  BY <1>1, <1>2, <2>2, <2>3, PushAllFits DEF EvalLamChoice
<1>3. ASSUME NEW args \in Seq(Addr)
      PROVE  Ctl(heap, Eval(Left(ctl.a), args))
  BY <1>1, EvalFits, Invariants
<1>4. CASE EvalCatch
  <2>1. /\ Fr("Catch", ctl.a, <<>>, 0, 0) \in Frame
        /\ FrameFits(prog.pats, heap, Fr("Catch", ctl.a, <<>>, 0, 0))
    BY <1>1, ChoiceFrameFits
  <2>. QED  BY <1>1, <1>3, <1>4, <2>1, PushAllFits DEF EvalCatch
<1>5. CASE EvalExprChoice
  <2>1. /\ Fr("ExprChoice", ctl.a, ctl.args, 0, 0) \in Frame
        /\ FrameFits(prog.pats, heap, Fr("ExprChoice", ctl.a, ctl.args, 0, 0))
    BY <1>1, ChoiceFrameFits
  <2>. QED  BY <1>1, <1>3, <1>5, <2>1, PushAllFits DEF EvalExprChoice
<1>. QED  BY <1>2, <1>4, <1>5

\* The returns to lsthunk_eval_choice.
LEMMA ChoiceReturnsFit ==
    ASSUME IInv,
           LamChoiceReturn \/ ExprChoiceReturn \/ RightReturn \/ CatchReturn
    PROVE  StepFits /\ OthersFit
<1>1. /\ ctl.m = "ret" /\ stack # <<>> /\ Waiting(Pop) /\ Top.args \in Seq(Addr)
      /\ FrameFits(prog.pats, heap, Top)
  BY ResumeFits DEF LamChoiceReturn, ExprChoiceReturn, RightReturn, CatchReturn, Returned
<1>2. /\ ctl.a \in AddrOrNull /\ (ctl.a # Null => ctl.a \in Addr /\ ValueIn(heap, ctl.a))
      /\ heap \in [Addr -> Thunk]
      /\ IsBottom(ctl.a) => ctl.a \in Addr
  BY <1>1, Invariants DEF ControlFits, IsBottom
<1>3. Ctl(heap, Ret(ctl.a))
  BY <1>2, RetFits
<1>4. ASSUME Top.k \in {"LamChoice", "Catch", "ExprChoice"}, NEW args \in Seq(Addr)
      PROVE  Right(Top.a) \in Addr /\ Ctl(heap, Eval(Right(Top.a), args))
  <2>1. Top.a \in Addr /\ heap[Top.a].type = "CHOICE"
    BY <1>1, <1>4 DEF FrameFits
  <2>2. Right(Top.a) \in Addr
    BY <2>1, ChoiceFits
  <2>. QED  BY <1>2, <1>4, <2>2, EvalFits
<1>5. ASSUME ctl.a # Null
      PROVE  /\ Fr("Right", ctl.a, <<>>, 0, 0) \in Frame
             /\ FrameFits(prog.pats, heap, Fr("Right", ctl.a, <<>>, 0, 0))
  BY <1>2, <1>5, RightFrameFits
<1>6. OthersFit
  BY DEF LamChoiceReturn, ExprChoiceReturn, RightReturn, CatchReturn, OthersFit,
         world, IInv, Inv
<1>7. CASE LamChoiceReturn
  <2>. DEFINE right == Eval(Right(Top.a), Top.args)
              left == Eval(ctl.a, Drop(Top.args, 1))
  <2>1. Ctl(heap, right)
    BY <1>1, <1>4, <1>7 DEF LamChoiceReturn, Returned
  <2>2. ctl.a # Null => Ctl(heap, left)
    BY <1>1, <1>2, DropFits, EvalFits
  <2>3. /\ UNCHANGED graph
        /\ \/ Go(Pop, right)
           \/ ctl.a # Null /\ Call(Pop, Fr("Right", ctl.a, <<>>, 0, 0), right)
           \/ Go(Pop, Ret(ctl.a))
           \/ ctl.a # Null /\ Go(Pop, left)
    BY <1>7 DEF LamChoiceReturn, IsMismatch, IsBottom
  <2>. HIDE DEF right, left
  <2>. QED  BY <1>1, <1>3, <1>5, <1>6, <2>1, <2>2, <2>3, GoFits, CallStepFits
<1>8. CASE ExprChoiceReturn
  <2>. DEFINE right == Eval(Right(Top.a), Top.args)
  <2>1. Ctl(heap, right)
    BY <1>1, <1>4, <1>8 DEF ExprChoiceReturn, Returned
  <2>2. /\ UNCHANGED graph
        /\ \/ Go(Pop, right)
           \/ ctl.a # Null /\ Call(Pop, Fr("Right", ctl.a, <<>>, 0, 0), right)
           \/ Go(Pop, Ret(ctl.a))
    BY <1>8 DEF ExprChoiceReturn, IsMismatch, IsBottom
  <2>. HIDE DEF right
  <2>. QED  BY <1>1, <1>3, <1>5, <1>6, <2>1, <2>2, GoFits, CallStepFits
<1>9. CASE RightReturn
  <2>1. CASE IsBottom(ctl.a)
    <3>1. Top.a \in Addr /\ ctl.a \in Addr
      BY <1>1, <1>2, <1>9, <2>1 DEF RightReturn, Returned, FrameFits
    <3>2. Kids(Top.a) \o Kids(ctl.a) \in Seq(Addr) /\ "merged" \in Tag
      BY <1>2, <3>1, KidsInAddr, ConcatProperties DEF Kids, Tag, OwnTags
    <3>3. AllocReturn(Pop, Bottom("merged", Kids(Top.a) \o Kids(ctl.a)))
      BY <1>9, <2>1 DEF RightReturn, MergedBottom
    <3>. QED  BY <1>1, <1>6, <3>2, <3>3, BottomReturnFits
  <2>2. CASE ~IsBottom(ctl.a)
    BY <1>1, <1>3, <1>6, <1>9, <2>2, GoFits DEF RightReturn
  <2>. QED  BY <2>1, <2>2
<1>10. CASE CatchReturn
  <2>1. Right(Top.a) \in Addr
    <3>1. <<>> \in Seq(Addr)
      OBVIOUS
    <3>. QED  BY <1>4, <1>10, <3>1 DEF CatchReturn, Returned
  <2>2. CASE ctl.a = Null /\ AllocPass(Pop, Bottom("null", <<>>), Right(Top.a), <<>>)
    <3>1. <<>> \in Seq(Addr) /\ "null" \in Tag
      BY DEF Tag, OwnTags
    <3>2. /\ Bottom("null", <<>>) \in Thunk /\ ThunkFits(Bottom("null", <<>>))
          /\ NormalIn(heap, Bottom("null", <<>>))
      BY <3>1, BottomFits
    <3>. QED  BY <1>1, <1>6, <2>1, <2>2, <3>1, <3>2, AllocPassFits
  <2>3. CASE IsBottom(ctl.a) /\ Go(Pop, Eval(Right(Top.a), <<ctl.a>>)) /\ UNCHANGED graph
    <3>1. <<ctl.a>> \in Seq(Addr)
      BY <1>2, <2>3
    <3>2. Ctl(heap, Eval(Right(Top.a), <<ctl.a>>))
      BY <1>2, <2>1, <3>1, EvalFits
    <3>. QED  BY <1>1, <1>6, <2>3, <3>2, GoFits
  <2>4. CASE Go(Pop, Ret(ctl.a)) /\ UNCHANGED graph
    BY <1>1, <1>3, <1>6, <2>4, GoFits
  <2>. QED  BY <1>10, <2>2, <2>3, <2>4 DEF CatchReturn
<1>. QED  BY <1>7, <1>8, <1>9, <1>10

\* Patterns refer to patterns.
LEMMA PatternInvariants ==
    ASSUME IInv, NEW p \in PatId
    PROVE  /\ Pat(p) \in Pattern
           /\ \A i \in 1..Len(Pat(p).sub) : Pat(p).sub[i] \in PatId
           /\ Len(Pat(p).sub) \in Nat
           /\ Pat(p).type \in {"AS", "OR"} =>
                 Pat(p).sub[1] \in PatId /\ Pat(p).sub[2] \in PatId
           /\ Pat(p).type = "CARET" => Pat(p).sub[1] \in PatId
<1>1. Pat(p) \in Pattern /\ PatternFits(prog, p)
  BY Invariants DEF Pat
<1>2. Pat(p).sub \in Seq(PatId) /\ Len(Pat(p).sub) \in Nat
  BY <1>1 DEF Pattern
<1>3. \A i \in 1..Len(Pat(p).sub) : Pat(p).sub[i] \in PatId
  BY <1>2, ElementOfSeq
<1>. QED  BY <1>1, <1>2, <1>3 DEF PatternFits, Pat

\* Binding a pattern node keeps the type of the bindings.
LEMMA BindFits ==
    ASSUME IInv, NEW p \in PatId, NEW t \in AddrOrNull
    PROVE  [bound EXCEPT ![p] = t] \in [PatId -> AddrOrNull]
BY Invariants

\* Clearing bindings leaves bindings.
LEMMA ClearBindsFits ==
    ASSUME IInv, NEW p, ClearBinds(p)
    PROVE  bound' \in [PatId -> AddrOrNull]
BY Invariants, BoundsAssumption DEF ClearBinds, AddrOrNull, Null

\* The calls of the matcher.
LEMMA MatchCallsFit ==
    ASSUME IInv,
           \/ MatchRef \/ MatchWildcard \/ MatchLiteral \/ MatchAlge
           \/ MatchAs \/ MatchOr \/ MatchCaret
    PROVE  StepFits /\ OthersFit
<1>1. /\ Waiting(stack) /\ ctl.a \in Addr /\ ctl.p \in PatId /\ ctl.a \in AddrOrNull
      /\ <<>> \in Seq(Addr) /\ Null \in AddrOrNull /\ ctl.p \in 0..MaxPat /\ 0 \in Nat
  BY Invariants, BoundsAssumption
     DEF MatchRef, MatchWildcard, MatchLiteral, MatchAlge, MatchAs, MatchOr,
         MatchCaret, Matching, ControlFits, AddrOrNull, Null
<1>2. \A ok \in BOOLEAN : Ctl(heap, Matched(ok))
  BY MatchedFits
<1>3. CASE MatchRef
  <2>1. bound' \in [PatId -> AddrOrNull]
    BY <1>1, <1>3, BindFits, Invariants DEF MatchRef
  <2>2. StepFits
    BY <1>1, <1>2, <1>3, GoFits DEF MatchRef
  <2>. QED  BY <1>3, <2>1, <2>2 DEF MatchRef, OthersFit, world, IInv, Inv
<1>4. CASE MatchWildcard
  BY <1>1, <1>2, <1>4, StepAllFits DEF MatchWildcard
<1>5. CASE MatchLiteral
  <2>1. StepFits
    BY <1>1, <1>2, <1>5, GoFits DEF MatchLiteral
  <2>. QED  BY <1>5, <2>1 DEF MatchLiteral, OthersFit, world, IInv, Inv
<1>6. CASE MatchAlge
  <2>. DEFINE f == Fr("AlgeHead", Null, <<>>, ctl.p, 0)
  <2>1. f \in Frame /\ f.k = "AlgeHead" /\ f.p = ctl.p
    BY <1>1 DEF Fr, Frame, FrameKinds
  <2>2. FrameFits(prog.pats, heap, f)
    <3>. HIDE DEF f
    <3>. QED  BY <1>1, <2>1 DEF FrameFits
  <2>3. Ctl(heap, Eval0(ctl.a))
    BY <1>1, Eval0Fits
  <2>. QED  BY <1>1, <1>6, <2>1, <2>2, <2>3, PushAllFits DEF MatchAlge
<1>7. CASE MatchAs
  <2>. DEFINE f == Fr("As", ctl.a, <<>>, ctl.p, 0)
  <2>1. f \in Frame /\ f.k = "As" /\ f.p = ctl.p /\ f.a = ctl.a
    BY <1>1 DEF Fr, Frame, FrameKinds
  <2>2. FrameFits(prog.pats, heap, f)
    <3>. HIDE DEF f
    <3>. QED  BY <1>1, <1>7, <2>1 DEF MatchAs, Matching, FrameFits, Pat
  <2>3. Ctl(heap, Match(ctl.a, Pat(ctl.p).sub[2]))
    BY <1>1, <1>7, MatchFits, PatternInvariants DEF MatchAs, Matching
  <2>. QED  BY <1>1, <1>7, <2>1, <2>2, <2>3, PushAllFits DEF MatchAs
<1>8. CASE MatchOr
  <2>. DEFINE f == Fr("Or", ctl.a, <<>>, ctl.p, 0)
  <2>1. f \in Frame /\ f.k = "Or" /\ f.p = ctl.p /\ f.a = ctl.a
    BY <1>1 DEF Fr, Frame, FrameKinds
  <2>2. FrameFits(prog.pats, heap, f)
    <3>. HIDE DEF f
    <3>. QED  BY <1>1, <1>8, <2>1 DEF MatchOr, Matching, FrameFits, Pat
  <2>3. Ctl(heap, Match(ctl.a, Pat(ctl.p).sub[1]))
    BY <1>1, <1>8, MatchFits, PatternInvariants DEF MatchOr, Matching
  <2>. QED  BY <1>1, <1>8, <2>1, <2>2, <2>3, PushAllFits DEF MatchOr
<1>9. CASE MatchCaret
  <2>. DEFINE f == Fr("Caret", Null, <<>>, ctl.p, 0)
  <2>1. f \in Frame /\ f.k = "Caret" /\ f.p = ctl.p
    BY <1>1 DEF Fr, Frame, FrameKinds
  <2>2. FrameFits(prog.pats, heap, f)
    <3>. HIDE DEF f
    <3>. QED  BY <1>1, <1>9, <2>1 DEF MatchCaret, Matching, FrameFits, Pat
  <2>3. Ctl(heap, Eval0(ctl.a))
    BY <1>1, Eval0Fits
  <2>. QED  BY <1>1, <1>9, <2>1, <2>2, <2>3, PushAllFits DEF MatchCaret
<1>. QED  BY <1>3, <1>4, <1>5, <1>6, <1>7, <1>8, <1>9

\* The returns to the matcher.
LEMMA MatchReturnsFit ==
    ASSUME IInv,
           \/ MatchAlgeHead \/ MatchAlgeArg \/ MatchAsReturn \/ MatchOrReturn
           \/ MatchCaretReturn
    PROVE  StepFits /\ OthersFit
<1>. DEFINE q == Pat(Top.p)
<1>1. /\ stack # <<>>
      /\ Top.k \in {"AlgeHead", "AlgeArg", "As", "Or", "Caret"}
  BY DEF MatchAlgeHead, MatchAlgeArg, MatchAsReturn, MatchOrReturn,
         MatchCaretReturn, Returned, MatchReturned
<1>2. /\ Waiting(Pop) /\ Top \in Frame /\ FrameFits(prog.pats, heap, Top)
      /\ Top.p \in PatId /\ Top.a \in AddrOrNull
      /\ <<>> \in Seq(Addr) /\ Top.p \in 0..MaxPat
  BY <1>1, ResumeFits DEF FrameFits, Frame
<1>3. /\ \A i \in 1..Len(q.sub) : q.sub[i] \in PatId
      /\ Len(q.sub) \in Nat
      /\ q.type \in {"AS", "OR"} => q.sub[1] \in PatId /\ q.sub[2] \in PatId
      /\ q.type = "CARET" => q.sub[1] \in PatId
  BY <1>2, PatternInvariants
<1>4. \A ok \in BOOLEAN : Ctl(heap, Matched(ok))
  BY MatchedFits
<1>5. ctl.m = "ret" /\ ctl.a # Null => ctl.a \in Addr
  BY Invariants
<1>6. CASE MatchAlgeHead
  <2>. DEFINE t == heap[ctl.a]
  <2>1. OthersFit
    BY <1>6 DEF MatchAlgeHead, OthersFit, world, IInv, Inv
  <2>2. Ctl(heap, Halt("assert"))
    BY HaltFits DEF Outcomes
  <2>3. CASE /\ ctl.a # Null /\ t.type = "ALGE" /\ Len(t.kids) = Len(q.sub)
             /\ q.sub # <<>>
             /\ Call(Pop, Fr("AlgeArg", ctl.a, <<>>, Top.p, 1),
                     Match(t.kids[1], q.sub[1]))
    <3>. DEFINE f == Fr("AlgeArg", ctl.a, <<>>, Top.p, 1)
    <3>1. ctl.a \in Addr /\ ctl.a \in AddrOrNull
      BY <1>5, <1>6, <2>3 DEF MatchAlgeHead, Returned, Addr, AddrOrNull
    <3>2. 1 \in 1..Len(q.sub)
      <4>1. q.sub \in Seq(PatId)
        BY <1>2, PatternInvariants DEF Pattern
      <4>. QED  BY <1>3, <2>3, <4>1, EmptySeq
    <3>3. t.kids[1] \in Addr /\ q.sub[1] \in PatId
      BY <1>3, <2>3, <3>1, <3>2, KidsInAddr, Invariants
    <3>4. Ctl(heap, Match(t.kids[1], q.sub[1]))
      BY <3>3, MatchFits
    <3>5. f \in Frame /\ f.k = "AlgeArg" /\ f.p = Top.p /\ f.a = ctl.a /\ f.i = 1
      BY <1>2, <3>1 DEF Fr, Frame, FrameKinds
    <3>6. FrameFits(prog.pats, heap, f)
      <4>. HIDE DEF f
      <4>. QED  BY <1>2, <2>3, <3>1, <3>5 DEF FrameFits, Pat
    <3>7. UNCHANGED graph
      BY <1>6 DEF MatchAlgeHead
    <3>. QED  BY <1>2, <2>1, <2>3, <3>4, <3>5, <3>6, <3>7, CallStepFits
  <2>4. CASE ~(/\ ctl.a # Null /\ t.type = "ALGE" /\ Len(t.kids) = Len(q.sub)
               /\ q.sub # <<>>
               /\ Call(Pop, Fr("AlgeArg", ctl.a, <<>>, Top.p, 1),
                       Match(t.kids[1], q.sub[1])))
    <3>1. /\ UNCHANGED graph
          /\ Go(Pop, Halt("assert")) \/ Go(Pop, Matched(FALSE)) \/ Go(Pop, Matched(TRUE))
      BY <1>6, <2>4 DEF MatchAlgeHead
    <3>. QED  BY <1>2, <1>4, <2>1, <2>2, <3>1, GoFits
  <2>. QED  BY <2>3, <2>4
<1>7. CASE MatchAlgeArg
  <2>. DEFINE n == Top.i + 1
              f == [Top EXCEPT !.i = n]
  <2>1. OthersFit /\ UNCHANGED graph
    BY <1>7 DEF MatchAlgeArg, OthersFit, world, IInv, Inv
  <2>2. /\ Top.a \in Addr /\ heap[Top.a].type = "ALGE" /\ Top.i \in Nat
        /\ Len(heap[Top.a].kids) = Len(q.sub) /\ Top.k = "AlgeArg"
    BY <1>2, <1>7 DEF MatchAlgeArg, MatchReturned, FrameFits, Pat
  <2>3. CASE Go(Pop, Matched(TRUE))
    BY <1>2, <1>4, <2>1, <2>3, GoFits
  <2>4. CASE n <= Len(q.sub) /\ Call(Pop, f, Match(Kids(Top.a)[n], q.sub[n]))
    <3>1. n \in 1..Len(q.sub)
      BY <1>3, <2>2, <2>4
    <3>2. Kids(Top.a)[n] \in Addr /\ q.sub[n] \in PatId
      BY <1>3, <2>2, <3>1, KidsInAddr, Invariants DEF Kids
    <3>3. Ctl(heap, Match(Kids(Top.a)[n], q.sub[n]))
      BY <3>2, MatchFits
    <3>4. /\ f \in Frame /\ f.k = "AlgeArg" /\ f.p = Top.p /\ f.a = Top.a
          /\ f.i = n /\ n \in Nat
      BY <1>2, <2>2 DEF Frame
    <3>5. FrameFits(prog.pats, heap, f)
      <4>. HIDE DEF f, n
      <4>. QED  BY <1>2, <2>2, <3>4 DEF FrameFits, Pat
    <3>. QED  BY <1>2, <2>1, <2>4, <3>3, <3>4, <3>5, CallStepFits
  <2>. QED  BY <1>7, <2>3, <2>4 DEF MatchAlgeArg
<1>8. CASE MatchAsReturn
  <2>1. Top.a \in Addr /\ q.sub[1] \in PatId
    BY <1>2, <1>3, <1>8 DEF MatchAsReturn, MatchReturned, FrameFits, Pat
  <2>2. Ctl(heap, Match(Top.a, q.sub[1]))
    BY <2>1, MatchFits
  <2>. QED  BY <1>2, <1>4, <1>8, <2>2, StepAllFits DEF MatchAsReturn
<1>9. CASE MatchOrReturn
  <2>1. Top.a \in Addr /\ q.sub[2] \in PatId
    BY <1>2, <1>3, <1>9 DEF MatchOrReturn, MatchReturned, FrameFits, Pat
  <2>2. Ctl(heap, Match(Top.a, q.sub[2]))
    BY <2>1, MatchFits
  <2>3. StepFits
    BY <1>2, <1>4, <1>9, <2>2, GoFits DEF MatchOrReturn
  <2>4. bound' \in [PatId -> AddrOrNull]
    <3>1. UNCHANGED bound \/ ClearBinds(q.sub[1])
      BY <1>9 DEF MatchOrReturn
    <3>. QED  BY <3>1, ClearBindsFits, Invariants
  <2>. QED  BY <1>9, <2>3, <2>4 DEF MatchOrReturn, OthersFit, world, IInv, Inv
<1>10. CASE MatchCaretReturn
  <2>1. q.sub[1] \in PatId
    BY <1>2, <1>3, <1>10 DEF MatchCaretReturn, Returned, FrameFits, Pat
  <2>2. StepFits
    <3>. DEFINE binds == /\ IsBottom(ctl.a)
                         /\ Pat(q.sub[1]).type = "REF"
                         /\ Kids(ctl.a) # <<>>
                empty == IsBottom(ctl.a) /\ Pat(q.sub[1]).type = "WILDCARD"
    <3>1. Go(Pop, Matched(binds \/ empty)) /\ UNCHANGED graph
      BY <1>10 DEF MatchCaretReturn
    <3>2. (binds \/ empty) \in BOOLEAN
      OBVIOUS
    <3>. HIDE DEF binds, empty
    <3>3. Ctl(heap, Matched(binds \/ empty))
      BY <3>2, MatchedFits
    <3>. QED  BY <1>2, <3>1, <3>3, GoFits
  <2>3. IsBottom(ctl.a) /\ Kids(ctl.a) # <<>> => Kids(ctl.a)[1] \in AddrOrNull
    <3>. SUFFICES ASSUME IsBottom(ctl.a), Kids(ctl.a) # <<>>
                  PROVE  Kids(ctl.a)[1] \in AddrOrNull
      OBVIOUS
    <3>1. ctl.a \in Addr /\ Kids(ctl.a) \in Seq(Addr)
      BY Invariants, KidsInAddr DEF IsBottom, Kids
    <3>2. Kids(ctl.a)[1] \in Addr
      BY <3>1, EmptySeq, LenProperties, ElementOfSeq
    <3>. QED  BY <3>2 DEF Addr, AddrOrNull
  <2>4. bound' \in [PatId -> AddrOrNull]
    BY <1>10, <2>1, <2>3, BindFits, Invariants DEF MatchCaretReturn
  <2>. QED  BY <1>10, <2>2, <2>4 DEF MatchCaretReturn, OthersFit, world, IInv, Inv
<1>. QED  BY <1>6, <1>7, <1>8, <1>9, <1>10

\* The calls lsthunk_eval_builtin and the builtins make.
LEMMA BuiltinCallsFit ==
    ASSUME IInv,
           \/ EvalBuiltinValue \/ EvalBuiltinGuard \/ EvalBuiltinPartial
           \/ CallReturn \/ CallArith \/ CallEffect \/ CallPrint
    PROVE  StepFits /\ OthersFit
<1>. DEFINE name == heap[ctl.a].tag
<1>1. /\ ctl.m = "apply" /\ heap[ctl.a].type = "BUILTIN"
  BY DEF EvalBuiltinValue, EvalBuiltinGuard, EvalBuiltinPartial, CallReturn,
         CallArith, CallEffect, CallPrint, Calling, Applying
<1>2. /\ Waiting(stack) /\ ctl.a \in Addr /\ ctl.a \in AddrOrNull
      /\ ctl.args \in Seq(Addr) /\ Len(ctl.args) \in Nat
      /\ \A i \in 1..Len(ctl.args) : ctl.args[i] \in Addr
      /\ <<>> \in Seq(Addr) /\ Null \in AddrOrNull /\ 0 \in 0..MaxPat /\ 0 \in Nat
  BY <1>1, Invariants, LenProperties, ElementOfSeq, BoundsAssumption
     DEF ControlFits, Addr, AddrOrNull, Null
<1>3. ArityOf(name) \in Nat /\ (ArityOf(name) = 0 => Kids(ctl.a)[1] \in Addr)
  <2>1. ArityOf(name) \in Nat
    BY DEF ArityOf, BuiltinArity
  <2>2. ASSUME ArityOf(name) = 0
        PROVE  Kids(ctl.a)[1] \in Addr
    BY <1>1, <1>2, <2>2, Invariants, KidsInAddr DEF ThunkFits, Kids
  <2>. QED  BY <2>1, <2>2
<1>4. /\ Rest(ctl.a, ctl.args) \in Seq(Addr)
  BY <1>2, <1>3, DropFits DEF Rest
<1>5. ASSUME NEW k \in {"Lhs", "Effect", "Print"},
             Len(ctl.args) >= IF k = "Print" THEN 1 ELSE 2
      PROVE  /\ Fr(k, ctl.a, ctl.args, 0, 0) \in Frame
             /\ FrameFits(prog.pats, heap, Fr(k, ctl.a, ctl.args, 0, 0))
             /\ Ctl(heap, Eval0(ctl.args[1]))
  <2>. DEFINE f == Fr(k, ctl.a, ctl.args, 0, 0)
  <2>1. f \in Frame /\ f.k = k /\ f.a = ctl.a /\ f.args = ctl.args
    BY <1>2 DEF Fr, Frame, FrameKinds
  <2>2. FrameFits(prog.pats, heap, f)
    <3>. HIDE DEF f
    <3>. QED  BY <1>2, <1>5, <2>1 DEF FrameFits
  <2>3. ctl.args[1] \in Addr
    BY <1>2, <1>5
  <2>. QED  BY <2>1, <2>2, <2>3, Eval0Fits
<1>6. CASE EvalBuiltinValue
  <2>1. CASE ArityOf(name) = 0
    <3>1. Ctl(heap, Eval0(Kids(ctl.a)[1]))
      BY <1>3, <2>1, Eval0Fits
    <3>. QED  BY <1>2, <1>6, <2>1, <3>1, StepAllFits DEF EvalBuiltinValue
  <2>2. CASE ArityOf(name) # 0
    <3>1. ValueIn(heap, ctl.a)
      BY <1>1, <1>3, <2>2 DEF ValueIn
    <3>2. Ctl(heap, Ret(ctl.a))
      BY <1>2, <3>1, RetFits
    <3>. QED  BY <1>2, <1>6, <2>2, <3>2, StepAllFits DEF EvalBuiltinValue
  <2>. QED  BY <2>1, <2>2
<1>7. CASE EvalBuiltinGuard
  <2>1. Ctl(heap, Ret(Null))
    BY <1>2, RetFits
  <2>. QED  BY <1>2, <1>7, <2>1, StepAllFits DEF EvalBuiltinGuard
<1>8. CASE EvalBuiltinPartial
  <2>. DEFINE kids == <<ctl.a>> \o ctl.args
              t == T("APPL", "", 0, kids)
  <2>1. ctl.args # <<>> /\ Len(ctl.args) < ArityOf(name)
    BY <1>8 DEF EvalBuiltinPartial
  <2>2. /\ kids \in Seq(Addr) /\ Len(kids) = 1 + Len(ctl.args) /\ kids[1] = ctl.a
        /\ kids # <<>>
    <3>1. <<ctl.a>> \in Seq(Addr) /\ Len(<<ctl.a>>) = 1 /\ <<ctl.a>>[1] = ctl.a
      BY <1>2
    <3>2. /\ kids \in Seq(Addr) /\ Len(kids) = 1 + Len(ctl.args)
          /\ \A i \in 1..(1 + Len(ctl.args)) :
                kids[i] = IF i <= 1 THEN <<ctl.a>>[i] ELSE ctl.args[i - 1]
      BY <1>2, <3>1, ConcatProperties
    <3>. HIDE DEF kids
    <3>3. kids[1] = ctl.a
      BY <1>2, <3>1, <3>2
    <3>4. Len(kids) # 0
      BY <1>2, <3>2
    <3>. QED  BY <3>2, <3>3, <3>4, EmptySeq
  <2>3. Len(Tail(kids)) = Len(ctl.args)
    <3>1. Len(Tail(kids)) = Len(kids) - 1
      <4>. HIDE DEF kids
      <4>. QED  BY <2>2, HeadTailProperties
    <3>2. \A n, m, l : n \in Nat /\ m = 1 + n /\ l = m - 1 => l = n
      OBVIOUS
    <3>. HIDE DEF kids
    <3>. QED  BY <1>2, <2>2, <3>1, <3>2, Zenon
  <2>4. Len(ctl.args) # 0
    BY <1>2, <2>1, EmptySeq
  <2>5. /\ t \in Thunk /\ t.type = "APPL" /\ t.kids = kids
    <3>. HIDE DEF kids
    <3>. QED  BY <2>2 DEF T, Thunk, ThunkTypes, DataTypes, Tag, OwnTags
  <2>6. ThunkFits(t) /\ NormalIn(heap, t)
    <3>. HIDE DEF t, kids
    <3>1. Len(kids) > 1
      BY <1>2, <2>2, <2>4
    <3>. QED  BY <1>1, <2>1, <2>2, <2>3, <2>5, <3>1 DEF ThunkFits, NormalIn
  <2>7. StepFits
    <3>1. AllocReturn(stack, t)
      BY <1>8 DEF EvalBuiltinPartial
    <3>. HIDE DEF t
    <3>. QED  BY <1>2, <2>5, <2>6, <3>1, AllocReturnFits
  <2>. QED  BY <1>8, <2>7 DEF EvalBuiltinPartial, OthersFit, world, IInv, Inv
<1>9. CASE CallReturn
  <2>. DEFINE v == IF name = "return" THEN ctl.args[1] ELSE Kids(ctl.a)[1]
  <2>1. v \in AddrOrNull
    <3>1. CASE name = "return"
      <4>1. Len(ctl.args) >= 1
        BY <1>9, <3>1 DEF CallReturn, Calling, ArityOf, BuiltinArity
      <4>. QED  BY <1>2, <3>1, <4>1 DEF Addr, AddrOrNull
    <3>2. CASE name # "return"
      <4>1. ArityOf(name) = 0
        BY <1>9, <3>2 DEF CallReturn, Calling, ArityOf, BuiltinArity
      <4>. QED  BY <1>3, <3>2, <4>1 DEF Addr, AddrOrNull
    <3>. QED  BY <3>1, <3>2
  <2>2. FinishBuiltin(stack, v, Rest(ctl.a, ctl.args))
    BY <1>9 DEF CallReturn
  <2>3. StepFits
    <3>. HIDE DEF v
    <3>. QED  BY <1>2, <1>4, <2>1, <2>2, FinishBuiltinFits
  <2>. QED  BY <1>9, <2>3 DEF CallReturn, OthersFit, world, IInv, Inv
<1>10. CASE CallArith
  <2>1. Len(ctl.args) >= 2
    BY <1>10 DEF CallArith, Calling, ArityOf, BuiltinArity
  <2>2. /\ Fr("Lhs", ctl.a, ctl.args, 0, 0) \in Frame
        /\ FrameFits(prog.pats, heap, Fr("Lhs", ctl.a, ctl.args, 0, 0))
        /\ Ctl(heap, Eval0(ctl.args[1]))
    BY <1>5, <2>1
  <2>. QED  BY <1>2, <1>10, <2>2, PushAllFits DEF CallArith
<1>11. CASE CallEffect
  <2>1. Len(ctl.args) >= 2
    BY <1>11 DEF CallEffect, Calling, ArityOf, BuiltinArity
  <2>2. /\ Fr("Effect", ctl.a, ctl.args, 0, 0) \in Frame
        /\ FrameFits(prog.pats, heap, Fr("Effect", ctl.a, ctl.args, 0, 0))
        /\ Ctl(heap, Eval0(ctl.args[1]))
    BY <1>5, <2>1
  <2>3. StepFits
    BY <1>2, <1>11, <2>2, CallStepFits DEF CallEffect
  <2>4. depth' \in Nat
    BY <1>11 DEF CallEffect, EffectsBegin, IInv, Inv
  <2>. QED  BY <1>11, <2>3, <2>4 DEF CallEffect, OthersFit, IInv, Inv
<1>12. CASE CallPrint
  <2>1. OthersFit
    BY <1>12 DEF CallPrint, OthersFit, world, IInv, Inv
  <2>2. CASE FinishBuiltin(stack, Null, Rest(ctl.a, ctl.args))
    BY <1>2, <1>4, <2>1, <2>2, FinishBuiltinFits
  <2>3. CASE /\ Call(stack, Fr("Print", ctl.a, ctl.args, 0, 0), Eval0(ctl.args[1]))
             /\ UNCHANGED graph
    <3>1. Len(ctl.args) >= 1
      BY <1>12 DEF CallPrint, Calling, ArityOf, BuiltinArity
    <3>2. /\ Fr("Print", ctl.a, ctl.args, 0, 0) \in Frame
          /\ FrameFits(prog.pats, heap, Fr("Print", ctl.a, ctl.args, 0, 0))
          /\ Ctl(heap, Eval0(ctl.args[1]))
      BY <1>5, <3>1
    <3>. QED  BY <1>2, <2>1, <2>3, <3>2, CallStepFits
  <2>. QED  BY <1>12, <2>2, <2>3 DEF CallPrint
<1>. QED  BY <1>6, <1>7, <1>8, <1>9, <1>10, <1>11, <1>12

\* The depth stays a natural number (ls_effects_end stops at 0).
LEMMA EffectsEndFits ==
    ASSUME IInv, EffectsEnd
    PROVE  depth' \in Nat
BY DEF EffectsEnd, IInv, Inv

\* seqc leaves a fresh seqc applied to one argument: two thunks at once.
LEMMA SeqcReturnFits ==
    ASSUME IInv, SeqcReturn
    PROVE  StepFits
<1>. DEFINE b == T("BUILTIN", "seqc", 0, <<>>)
            c == T("APPL", "", 0, <<top + 1, Top.args[2]>>)
            rest == Rest(Top.a, Top.args)
<1>1. /\ stack # <<>> /\ Top.k = "Effect" /\ heap[Top.a].tag = "seqc"
  BY DEF SeqcReturn, EffectDone, Returned
<1>2. /\ Waiting(Pop) /\ Top.args \in Seq(Addr) /\ Len(Top.args) >= 2
      /\ Waiting(stack) /\ Len(Top.args) \in Nat /\ Top.args[2] \in Addr
  <2>1. /\ Waiting(Pop) /\ Top.args \in Seq(Addr) /\ Len(Top.args) >= 2 /\ Waiting(stack)
    BY <1>1, ResumeFits, Invariants DEF FrameFits
  <2>. QED  BY <2>1, LenProperties, ElementOfSeq
<1>3. rest \in Seq(Addr)
  BY <1>1, <1>2, DropFits DEF Rest, ArityOf, BuiltinArity
<1>4. CASE ~(top + 2 <= MaxAddr)
  BY <1>2, <1>4, OutOfMemoryFits DEF SeqcReturn
<1>5. CASE top + 2 <= MaxAddr
  <2>1. /\ heap' = [heap EXCEPT ![top + 1] = b, ![top + 2] = c]
        /\ memo' = [memo EXCEPT ![top + 2] = top + 2]
        /\ top' = top + 2
        /\ Go(Pop, IF rest = <<>> THEN Ret(top + 2) ELSE Apply(top + 2, rest))
    BY <1>5 DEF SeqcReturn
  <2>2. /\ top \in Nat /\ MaxAddr \in Nat /\ top + 1 \in Addr /\ top + 2 \in Addr
        /\ top + 1 # top + 2 /\ top + 1 > top /\ top + 2 > top
        /\ top + 2 \in 1..MaxAddr /\ top + 2 \in AddrOrNull
    BY <1>2, <1>5, BoundsAssumption DEF Waiting, Graph, Addr, AddrOrNull
  <2>3. /\ b \in Thunk /\ b.type = "BUILTIN" /\ b.tag = "seqc"
    BY DEF T, Thunk, ThunkTypes, DataTypes, Tag, OwnTags
  <2>4. /\ c \in Thunk /\ c.type = "APPL" /\ c.kids = <<top + 1, Top.args[2]>>
    <3>1. <<top + 1, Top.args[2]>> \in Seq(Addr)
      BY <1>2, <2>2
    <3>. QED  BY <3>1 DEF T, Thunk, ThunkTypes, DataTypes, Tag, OwnTags
  <2>5. /\ Len(c.kids) = 2 /\ c.kids[1] = top + 1 /\ Len(Tail(c.kids)) = 1
    <3>1. c.kids \in Seq(Addr) /\ Len(c.kids) = 2 /\ c.kids[1] = top + 1
      <4>1. \A x, y \in Addr : /\ <<x, y>> \in Seq(Addr) /\ Len(<<x, y>>) = 2
                               /\ <<x, y>>[1] = x
        OBVIOUS
      <4>. QED  BY <1>2, <2>2, <2>4, <4>1, Zenon
    <3>2. Len(Tail(c.kids)) = Len(c.kids) - 1
      <4>. HIDE DEF c
      <4>. QED  BY <3>1, EmptySeq, HeadTailProperties
    <3>3. 2 - 1 = 1
      OBVIOUS
    <3>. HIDE DEF c
    <3>. QED  BY <3>1, <3>2, <3>3, Zenon
  <2>. HIDE DEF b, c, rest
  <2>6. ThunkFits(b) /\ ThunkFits(c) /\ ArityOf("seqc") = 2
    BY <2>3, <2>4, <2>5 DEF ThunkFits, ArityOf, BuiltinArity
  <2>7. /\ heap' \in [Addr -> Thunk]
        /\ heap'[top + 1] = b /\ heap'[top + 2] = c
        /\ \A a \in Addr : a # top + 1 /\ a # top + 2 => heap'[a] = heap[a]
    BY <1>2, <2>1, <2>2, <2>3, <2>4 DEF Waiting, Graph
  <2>8. heap[top + 1].type = "FREE" /\ heap[top + 2].type = "FREE"
    BY <1>2, <2>2 DEF Waiting, Graph
  <2>9. Grows(heap, heap')
    BY <2>7, <2>8 DEF Grows
  <2>10. ValueIn(heap', top + 2)
    <3>1. heap'[top + 2].type = "APPL" /\ heap'[top + 2].kids[1] = top + 1
      BY <2>4, <2>5, <2>7, Zenon
    <3>2. /\ heap'[heap'[top + 2].kids[1]].type = "BUILTIN"
          /\ ArityOf(heap'[heap'[top + 2].kids[1]].tag) = 2
      BY <2>3, <2>6, <2>7, <3>1, Zenon
    <3>3. Len(Tail(heap'[top + 2].kids)) = 1
      BY <2>5, <2>7, Zenon
    <3>4. 1 < 2
      OBVIOUS
    <3>. QED  BY <3>1, <3>2, <3>3, <3>4, Zenon DEF ValueIn
  <2>11. ASSUME NEW a \in Addr, memo'[a] # Null
         PROVE  ValueIn(heap', memo'[a])
    <3>1. CASE a = top + 2
      BY <1>2, <2>1, <2>2, <2>10, <3>1 DEF Waiting, Graph
    <3>2. CASE a # top + 2
      <4>1. memo'[a] = memo[a] /\ memo[a] \in Addr
        BY <1>2, <2>1, <2>11, <3>2, BoundsAssumption
           DEF Waiting, Graph, Addr, AddrOrNull, Null
      <4>. QED  BY <1>2, <2>9, <2>11, <4>1, GrowsValue DEF Waiting, Graph
    <3>. QED  BY <3>1, <3>2
  <2>12. memo' \in [Addr -> AddrOrNull] /\ top' \in 1..MaxAddr
    BY <1>2, <2>1, <2>2 DEF Waiting, Graph
  <2>13. \A a \in Addr : ThunkFits(heap'[a])
    BY <1>2, <2>6, <2>7 DEF Waiting, Graph
  <2>14. \A a \in Addr : a > top' => heap'[a].type = "FREE"
    <3>1. \A a \in Addr : a > top + 2 => a > top /\ a # top + 1 /\ a # top + 2
      BY <2>2 DEF Addr
    <3>. QED  BY <1>2, <2>1, <2>7, <3>1 DEF Waiting, Graph
  <2>15. Graph(heap', top', memo')
    BY <2>7, <2>11, <2>12, <2>13, <2>14 DEF Graph
  <2>16. Stack(prog.pats, heap', Pop)
    BY <1>2, <2>9, GrowsStack DEF Waiting
  <2>17. Ctl(heap', Ret(top + 2)) /\ (rest # <<>> => Ctl(heap', Apply(top + 2, rest)))
    BY <1>3, <2>2, <2>10, RetFits, ApplyFits
  <2>. QED  BY <2>1, <2>9, <2>15, <2>16, <2>17 DEF Go, StepFits
<1>. QED  BY <1>4, <1>5

\* The returns to a builtin.
LEMMA BuiltinReturnsFit ==
    ASSUME IInv,
           \/ ArithLhs \/ ArithRhs \/ EffectFails \/ SeqReturn \/ SeqcReturn
           \/ ChainReturn \/ BindReturn \/ ContinuationReturn \/ PrintReturn
    PROVE  StepFits /\ OthersFit
<1>1. /\ stack # <<>> /\ ctl.m = "ret"
      /\ Top.k \in {"Lhs", "Rhs", "Effect", "Result", "Print"}
  BY DEF ArithLhs, ArithRhs, EffectFails, SeqReturn, SeqcReturn, ChainReturn,
         BindReturn, ContinuationReturn, PrintReturn, EffectDone, Returned
<1>2. /\ Waiting(Pop) /\ Top \in Frame /\ FrameFits(prog.pats, heap, Top)
      /\ Top.args \in Seq(Addr) /\ Top.a \in AddrOrNull /\ Len(Top.args) \in Nat
      /\ \A i \in 1..Len(Top.args) : Top.args[i] \in Addr
      /\ <<>> \in Seq(Addr) /\ Null \in AddrOrNull /\ 0 \in 0..MaxPat /\ 0 \in Nat
      /\ {"arg1", "arg2", "first", "invalid type", "print: arg"} \subseteq Tag
  <2>1. /\ Waiting(Pop) /\ Top \in Frame /\ FrameFits(prog.pats, heap, Top)
        /\ Top.args \in Seq(Addr) /\ Top.a \in AddrOrNull
    BY <1>1, ResumeFits
  <2>. QED  BY <2>1, LenProperties, ElementOfSeq, BoundsAssumption
            DEF AddrOrNull, Null, Tag, OwnTags
<1>3. /\ ctl.a \in AddrOrNull /\ (ctl.a # Null => ctl.a \in Addr /\ ValueIn(heap, ctl.a))
      /\ heap \in [Addr -> Thunk]
      /\ IsBottom(ctl.a) => ctl.a \in Addr
  BY <1>1, Invariants DEF ControlFits, IsBottom
<1>4. Ctl(heap, Ret(ctl.a))
  BY <1>3, RetFits
<1>5. ASSUME NEW t
      PROVE  Rest(t, Top.args) \in Seq(Addr)
  <2>1. ArityOf(heap[t].tag) \in Nat
    BY DEF ArityOf, BuiltinArity
  <2>. QED  BY <1>2, <2>1, DropFits DEF Rest
<1>6. ASSUME NEW msg \in {"arg1", "arg2", "first", "invalid type", "print: arg"},
             FailBuiltin(Pop, msg)
      PROVE  StepFits
  BY <1>2, <1>6, BottomReturnFits DEF FailBuiltin
<1>7. CASE ArithLhs
  <2>1. OthersFit
    BY <1>7 DEF ArithLhs, OthersFit, world, IInv, Inv
  <2>2. CASE FailBuiltin(Pop, "arg1")
    BY <1>6, <2>1, <2>2
  <2>3. CASE Go(Pop, Ret(ctl.a)) /\ UNCHANGED graph
    BY <1>2, <1>4, <2>1, <2>3, GoFits
  <2>. DEFINE f == [Top EXCEPT !.k = "Rhs", !.i = ctl.a]
  <2>4. CASE ctl.a # Null /\ Call(Pop, f, Eval0(Top.args[2])) /\ UNCHANGED graph
    <3>1. /\ f \in Frame /\ f.k = "Rhs" /\ f.i = ctl.a /\ f.a = Top.a /\ f.args = Top.args
      <4>1. ctl.a \in Nat /\ "Rhs" \in FrameKinds
        BY <1>3, <2>4, BoundsAssumption DEF Addr, FrameKinds
      <4>. QED  BY <1>2, <4>1 DEF Frame
    <3>2. Top.k = "Lhs" /\ Len(Top.args) >= 2 /\ Top.a \in Addr
      BY <1>2, <1>7 DEF ArithLhs, Returned, FrameFits
    <3>5. 2 \in 1..Len(Top.args)
      BY <1>2, <3>2, InRange, Zenon
    <3>6. Top.args[2] \in Addr
      BY <1>2, <3>5
    <3>3. FrameFits(prog.pats, heap, f)
      <4>. HIDE DEF f
      <4>. QED  BY <1>3, <2>4, <3>1, <3>2 DEF FrameFits
    <3>4. Ctl(heap, Eval0(Top.args[2]))
      BY <3>6, Eval0Fits
    <3>. QED  BY <1>2, <2>1, <2>4, <3>1, <3>3, <3>4, CallStepFits
  <2>. QED  BY <1>7, <2>2, <2>3, <2>4 DEF ArithLhs
<1>8. CASE ArithRhs
  <2>. DEFINE t == ArithResult(heap[Top.a].tag, heap[Top.i].num, heap[ctl.a].num)
  <2>1. OthersFit
    BY <1>8 DEF ArithRhs, OthersFit, world, IInv, Inv
  <2>2. CASE FailBuiltin(Pop, "arg2") \/ FailBuiltin(Pop, "invalid type")
    BY <1>6, <2>1, <2>2
  <2>3. CASE Go(Pop, Ret(ctl.a)) /\ UNCHANGED graph
    BY <1>2, <1>4, <2>1, <2>3, GoFits
  <2>4. CASE ctl.a # Null /\ AllocApply(Pop, t, Rest(Top.a, Top.args))
    <3>1. heap[Top.i].num \in Int /\ heap[ctl.a].num \in Int
      BY <1>2, <1>3, <1>8, <2>4 DEF ArithRhs, Returned, FrameFits, Thunk
    <3>2. t \in Thunk /\ t.type \in {"INT", "ALGE"}
      BY <1>2, <3>1 DEF ArithResult, T, Thunk, ThunkTypes, DataTypes, Tag, OwnTags
    <3>3. ThunkFits(t) /\ NormalIn(heap, t)
      <4>. HIDE DEF t
      <4>. QED  BY <3>2 DEF ThunkFits, NormalIn, DataTypes
    <3>. HIDE DEF t
    <3>. QED  BY <1>2, <1>5, <2>1, <2>4, <3>2, <3>3, AllocApplyFits
  <2>. QED  BY <1>8, <2>2, <2>3, <2>4 DEF ArithRhs
<1>9. CASE EffectFails
  <2>1. OthersFit
    BY <1>9, EffectsEndFits DEF EffectFails, OthersFit, IInv, Inv
  <2>2. CASE FailBuiltin(Pop, "first")
    BY <1>6, <2>1, <2>2
  <2>3. CASE Go(Pop, Ret(ctl.a)) /\ UNCHANGED graph
    BY <1>2, <1>4, <2>1, <2>3, GoFits
  <2>. QED  BY <1>9, <2>2, <2>3 DEF EffectFails
<1>10. ASSUME NEW name, EffectDone(name)
       PROVE  /\ OthersFit /\ ctl.a \in Addr /\ Top.args[2] \in Addr
  <2>1. OthersFit
    BY <1>10, EffectsEndFits DEF EffectDone, OthersFit, IInv, Inv
  <2>2. Len(Top.args) >= 2
    BY <1>2, <1>10 DEF EffectDone, Returned, FrameFits
  <2>3. 2 \in 1..Len(Top.args)
    BY <1>2, <2>2, InRange, Zenon
  <2>. QED  BY <1>2, <1>3, <1>10, <2>1, <2>3 DEF EffectDone
<1>11. CASE SeqReturn
  <2>1. OthersFit /\ Top.args[2] \in AddrOrNull
    BY <1>10, <1>11 DEF SeqReturn, Addr, AddrOrNull
  <2>. QED  BY <1>2, <1>5, <1>11, <2>1, FinishBuiltinFits DEF SeqReturn
<1>12. CASE SeqcReturn
  BY <1>10, <1>12, SeqcReturnFits DEF SeqcReturn
<1>13. /\ ResultFrame \in Frame /\ FrameFits(prog.pats, heap, ResultFrame)
       /\ Waiting(Append(Pop, ResultFrame))
  <2>1. ResultFrame \in Frame /\ ResultFrame.k = "Result"
    BY <1>2, <1>5 DEF ResultFrame, Fr, Frame, FrameKinds
  <2>2. FrameFits(prog.pats, heap, ResultFrame)
    BY <2>1 DEF FrameFits
  <2>. QED  BY <1>2, <2>1, <2>2, PushFits DEF Waiting
<1>14. CASE ChainReturn
  <2>. DEFINE t == T("ALGE", "()", 0, <<>>)
  <2>1. OthersFit /\ Top.args[2] \in Addr
    BY <1>10, <1>14 DEF ChainReturn
  <2>2. t \in Thunk /\ t.type = "ALGE"
    BY <1>2 DEF T, Thunk, ThunkTypes, DataTypes, Tag, OwnTags
  <2>3. AllocPass(Append(Pop, ResultFrame), t, Top.args[2], <<>>)
    BY <1>14 DEF ChainReturn
  <2>. HIDE DEF t
  <2>4. ThunkFits(t) /\ NormalIn(heap, t)
    BY <2>2 DEF ThunkFits, NormalIn, DataTypes
  <2>. QED  BY <1>2, <1>13, <2>1, <2>2, <2>3, <2>4, AllocPassFits
<1>15. CASE BindReturn
  <2>1. OthersFit /\ Top.args[2] \in Addr /\ ctl.a \in Addr
    BY <1>10, <1>15 DEF BindReturn
  <2>2. <<ctl.a>> \in Seq(Addr)
    BY <2>1
  <2>3. Ctl(heap, Eval(Top.args[2], <<ctl.a>>))
    BY <1>3, <2>1, <2>2, EvalFits
  <2>. QED  BY <1>13, <1>15, <2>1, <2>3, GoFits DEF BindReturn
<1>16. CASE ContinuationReturn
  <2>1. OthersFit
    BY <1>16 DEF ContinuationReturn, OthersFit, world, IInv, Inv
  <2>. QED  BY <1>2, <1>3, <1>16, <2>1, FinishBuiltinFits DEF ContinuationReturn
<1>17. CASE PrintReturn
  <2>1. out \in Seq(Thunk) /\ (ctl.a # Null => Append(out, heap[ctl.a]) \in Seq(Thunk))
    <3>1. ctl.a # Null => heap[ctl.a] \in Thunk
      BY <1>3
    <3>. QED  BY <3>1, AppendProperties DEF IInv, Inv
  <2>2. OthersFit
    BY <1>17, <2>1 DEF PrintReturn, OthersFit, IInv, Inv
  <2>3. CASE FailBuiltin(Pop, "print: arg")
    BY <1>6, <2>2, <2>3
  <2>4. CASE Go(Pop, Ret(ctl.a)) /\ UNCHANGED graph
    BY <1>2, <1>4, <2>2, <2>4, GoFits
  <2>5. CASE FinishBuiltin(Pop, Top.args[1], Rest(Top.a, Top.args))
    <3>1. Top.args[1] \in AddrOrNull
      <4>1. Len(Top.args) >= 1
        BY <1>2, <1>17 DEF PrintReturn, Returned, FrameFits
      <4>2. 1 \in 1..Len(Top.args)
        BY <1>2, <4>1, InRange, Zenon
      <4>3. Top.args[1] \in Addr
        BY <1>2, <4>2
      <4>. QED  BY <4>3 DEF Addr, AddrOrNull
    <3>. QED  BY <1>2, <1>5, <2>2, <2>5, <3>1, FinishBuiltinFits
  <2>. QED  BY <1>17, <2>3, <2>4, <2>5 DEF PrintReturn
<1>. QED  BY <1>7, <1>8, <1>9, <1>11, <1>12, <1>14, <1>15, <1>16, <1>17

-----------------------------------------------------------------------------
(* The theorems *)

\* The invariant holds of a program just built.
LEMMA InitFits ==
    ASSUME Init
    PROVE  IInv
<1>1. prog \in Programs /\ WellBuilt(prog)
  BY ProgramsAssumption DEF Init
<1>2. /\ prog.heap \in Seq(Thunk) /\ Len(prog.heap) \in Nat
      /\ \A a \in 1..Len(prog.heap) : prog.heap[a] \in Thunk
      /\ Len(prog.heap) \in 1..MaxAddr
      /\ prog.root \in Addr
  <2>1. prog.heap \in Seq(Thunk) /\ prog.root \in 1..Len(prog.heap) /\ Len(prog.heap) <= MaxAddr
    BY <1>1 DEF WellBuilt
  <2>2. Len(prog.heap) \in Nat /\ \A a \in 1..Len(prog.heap) : prog.heap[a] \in Thunk
    BY <2>1, LenProperties, ElementOfSeq
  <2>. QED  BY <2>1, <2>2, BoundsAssumption DEF Addr
<1>3. FreeThunk \in Thunk /\ FreeThunk.type = "FREE" /\ ThunkFits(FreeThunk)
  <2>1. <<>> \in Seq(Addr)
    OBVIOUS
  <2>. QED  BY <2>1 DEF FreeThunk, T, Thunk, ThunkTypes, DataTypes, Tag, OwnTags, ThunkFits
<1>4. ASSUME NEW a \in Addr
      PROVE  /\ heap[a] \in Thunk /\ ThunkFits(heap[a])
             /\ a > top => heap[a].type = "FREE"
             /\ a <= Len(prog.heap) => heap[a] = prog.heap[a]
             /\ memo[a] = IF heap[a].type \in DataTypes THEN a ELSE Null
  <2>1. CASE a <= Len(prog.heap)
    <3>1. a \in 1..Len(prog.heap) /\ heap[a] = prog.heap[a] /\ ~(a > top)
      BY <1>2, <2>1 DEF Init, Addr
    <3>. QED  BY <1>1, <1>2, <3>1 DEF WellBuilt, Init
  <2>2. CASE ~(a <= Len(prog.heap))
    BY <1>3, <2>2 DEF Init
  <2>. QED  BY <2>1, <2>2
<1>5. heap \in [Addr -> Thunk]
  BY <1>4 DEF Init
<1>6. /\ memo \in [Addr -> AddrOrNull]
      /\ \A a \in Addr : memo[a] # Null => ValueIn(heap, memo[a])
  <2>1. \A a \in Addr : a \in AddrOrNull /\ Null \in AddrOrNull
    BY BoundsAssumption DEF Addr, AddrOrNull, Null
  <2>2. \A a \in Addr : memo[a] \in AddrOrNull
    BY <1>4, <2>1
  <2>3. \A a \in Addr : memo[a] # Null => ValueIn(heap, memo[a])
    BY <1>4 DEF ValueIn
  <2>4. memo = [a \in Addr |-> IF heap[a].type \in DataTypes THEN a ELSE Null]
    BY DEF Init
  <2>5. memo \in [Addr -> AddrOrNull]
    BY <2>2, <2>4
  <2>. QED  BY <2>3, <2>5
<1>7. Graph(heap, top, memo)
  <2>1. top \in 1..MaxAddr
    BY <1>2 DEF Init
  <2>. QED  BY <1>4, <1>5, <1>6, <2>1 DEF Graph
<1>8. BuiltHeapKept
  <2>1. ASSUME NEW a \in 1..Len(prog.heap)  PROVE  heap[a] = prog.heap[a]
    <3>1. a \in Addr /\ a <= Len(prog.heap)
      <4>1. Len(prog.heap) \in Nat /\ MaxAddr \in Nat /\ Len(prog.heap) <= MaxAddr
        BY <1>2, BoundsAssumption
      <4>2. a \in Nat /\ 1 <= a /\ a <= Len(prog.heap)
        BY <2>1, <4>1
      <4>. QED  BY <4>1, <4>2 DEF Addr
    <3>. QED  BY <1>4, <3>1
  <2>2. Len(prog.heap) <= top
    BY <1>2 DEF Init
  <2>. QED  BY <1>2, <2>1, <2>2 DEF BuiltHeapKept
<1>9. Stack(prog.pats, heap, stack)
  <2>1. stack = <<>> /\ stack \in Seq(Frame) /\ Len(stack) = 0
    BY DEF Init
  <2>. QED  BY <2>1 DEF Stack
<1>10. Ctl(heap, ctl)
  BY <1>2, Eval0Fits DEF Init
<1>11. /\ bound \in [PatId -> AddrOrNull] /\ depth \in Nat /\ out \in Seq(Thunk)
  BY BoundsAssumption DEF Init, AddrOrNull, Null
<1>. QED  BY <1>1, <1>7, <1>8, <1>9, <1>10, <1>11 DEF IInv, Inv

\* Every step preserves the invariant.
LEMMA NextFits ==
    ASSUME IInv, [Next]_vars
    PROVE  IInv'
<1>1. CASE UNCHANGED vars
  <2>1. /\ prog' = prog /\ heap' = heap /\ top' = top /\ memo' = memo
        /\ bound' = bound /\ depth' = depth /\ out' = out /\ stack' = stack /\ ctl' = ctl
    BY <1>1 DEF vars
  <2>. QED  BY <2>1 DEF IInv, Inv, BuiltHeapKept
<1>2. ASSUME StepFits, OthersFit
      PROVE  IInv'
  <2>1. BuiltHeapKept'
    <3>1. 1..Len(prog.heap) \subseteq Addr
      BY Invariants, LenProperties, BoundsAssumption DEF WellBuilt, Addr
    <3>2. \A a \in 1..Len(prog.heap) : heap'[a] = prog.heap[a]
      BY <1>2, <3>1, Invariants DEF StepFits, Grows, WellBuilt, IInv, Inv, BuiltHeapKept
    <3>. QED  BY <1>2, <3>2 DEF OthersFit, BuiltHeapKept
  <2>. QED  BY <1>2, <2>1 DEF StepFits, OthersFit, IInv, Inv
<1>3. CASE EvalStep
  BY <1>2, <1>3, Eval0Steps, ApplyStepsFit, LambdaStepsFit DEF EvalStep
<1>4. CASE RefStep
  BY <1>2, <1>4, RefStepsFit
<1>5. CASE ChoiceStep
  BY <1>2, <1>5, ChoiceCallsFit, ChoiceReturnsFit DEF ChoiceStep
<1>6. CASE MatchStep
  BY <1>2, <1>6, MatchCallsFit, MatchReturnsFit DEF MatchStep
<1>7. CASE BuiltinStep
  BY <1>2, <1>7, BuiltinCallsFit, BuiltinReturnsFit DEF BuiltinStep
<1>8. CASE Finish
  <2>. DEFINE c == C("halt", ctl.a, <<>>, 0, "done")
  <2>1. Waiting(stack) /\ ctl.a \in AddrOrNull /\ <<>> \in Seq(Addr) /\ 0 \in 0..MaxPat
    BY Invariants, BoundsAssumption
  <2>2. c \in Control /\ c.m = "halt"
    BY <2>1 DEF C, Control, Modes, Outcomes
  <2>3. Ctl(heap, c) /\ Step(stack, c)
    <3>1. Step(stack, c)
      BY <1>8 DEF Finish
    <3>. HIDE DEF c
    <3>. QED  BY <2>2, <3>1 DEF Ctl, ControlFits
  <2>. HIDE DEF c
  <2>. QED  BY <1>2, <2>1, <2>3, StepAllFits
<1>9. CASE Stopped
  BY <1>1, <1>9 DEF Stopped
<1>. QED  BY <1>1, <1>3, <1>4, <1>5, <1>6, <1>7, <1>8, <1>9 DEF Next

\* Every reachable state satisfies the inductive invariant.
THEOREM InvHolds == Spec => []IInv
<1>1. Init => IInv
  BY InitFits
<1>2. IInv /\ [Next]_vars => IInv'
  BY NextFits
<1>. QED  BY <1>1, <1>2, PTL DEF Spec

\* Every component of the evaluator's state stays of its kind, whatever the
\* program and the bounds: no action applies NULL, reads an argument that is
\* not there or stores an address outside the heap.
THEOREM TypeCorrect == Spec => []TypeOK
<1>1. IInv => TypeOK
  BY BoundsAssumption DEF IInv, Inv, Graph, Stack, Ctl, TypeOK
<1>. QED  BY <1>1, InvHolds, PTL

\* lsthunk_eval0 and lsthunk_eval return weak head normal forms, and lt_whnf
\* remembers nothing else, for every program.
THEOREM ResultsAreValues == Spec => []WhnfIsValue
<1>1. \A t : IsValue(t) <=> ValueIn(heap, t)
  BY DEF IsValue, ValueIn, Func, Args, Kids
<1>2. IInv => WhnfIsValue
  BY <1>1 DEF IInv, Inv, Graph, Ctl, ControlFits, WhnfIsValue
<1>. QED  BY <1>2, InvHolds, PTL

-----------------------------------------------------------------------------
(* What is open while something else is evaluated: effects, and the        *)
(* bindings of parameters. Both are opened in one activation of the        *)
(* evaluator and closed in another, any number of steps later; that they   *)
(* are is a property of which activations are pending, so the invariants   *)
(* are about the stack.                                                    *)

EffectKinds == {"Effect", "Print"}
LambdaKinds == {"Match", "Body"}
MatchKinds == {"AlgeHead", "AlgeArg", "As", "Or", "Caret"}
CalmKinds == {"Update", "BindMatch", "LamChoice", "Right", "Catch", "ExprChoice",
              "Lhs", "Rhs", "Result"}

\* The innermost activation is resumed, or not, and may be followed by a new
\* one; those that come and go are of these kinds.
Shifts(kinds) ==
    /\ ctl.m # "halt"
    /\ \E s : /\ \/ s = stack
                 \/ stack # <<>> /\ Top.k \in kinds /\ s = Pop
              /\ \/ stack' = s
                 \/ \E f : f.k \in kinds /\ stack' = Append(s, f)

\* A step that neither begins nor ends a match or an application.
Unbinding == bound' = bound /\ ctl'.m # "match"

-----------------------------------------------------------------------------
(* Steps, by the activations they begin and end *)

\* No call or return but Match is a call of lsthunk_match_pat.
LEMMA CallModes ==
    /\ \A v : Ret(v).m = "ret"
    /\ \A t : Eval0(t).m = "eval0"
    /\ \A t, args : Apply(t, args).m = "apply"
    /\ \A why : Halt(why).m = "halt"
    /\ \A ok : Matched(ok).m = "matched"
    /\ \A t, p : Match(t, p).m = "match" /\ Match(t, p).p = p
    /\ \A f, args : Eval(f, args).m \in {"ret", "eval0", "apply"}
<1>1. /\ \A v : Ret(v).m = "ret"
      /\ \A t : Eval0(t).m = "eval0"
      /\ \A t, args : Apply(t, args).m = "apply"
  BY DEF Ret, Eval0, Apply, C
<1>2. /\ \A why : Halt(why).m = "halt"
      /\ \A ok : Matched(ok).m = "matched"
      /\ \A t, p : Match(t, p).m = "match" /\ Match(t, p).p = p
  BY DEF Halt, Matched, Match, C
<1>3. \A f, args : Eval(f, args).m \in {"ret", "eval0", "apply"}
  BY <1>1 DEF Eval
<1>. QED  BY <1>1, <1>2, <1>3

\* The parts of steps that end in a return or a tail call leave s pending.
LEMMA ReturnsTo ==
    ASSUME NEW s, NEW t, NEW v, NEW rest, NEW p, NEW f
    PROVE  /\ AllocReturn(s, t) => stack' = s /\ ctl'.m # "match"
           /\ FailBuiltin(s, t) => stack' = s /\ ctl'.m # "match"
           /\ FinishBuiltin(s, v, rest) => stack' = s /\ ctl'.m # "match"
           /\ AllocPass(s, t, f, rest) => stack' = s /\ ctl'.m # "match"
           /\ AllocApply(s, t, rest) => stack' = s /\ ctl'.m # "match"
           /\ SubstReturn(s, v, p) => stack' = s /\ ctl'.m # "match"
<1>1. \A x : AllocReturn(s, x) => stack' = s /\ ctl'.m # "match"
  BY CallModes DEF AllocReturn, Go
<1>2. FailBuiltin(s, t) => stack' = s /\ ctl'.m # "match"
  BY <1>1 DEF FailBuiltin
<1>3. FinishBuiltin(s, v, rest) => stack' = s /\ ctl'.m # "match"
  <2>1. FinishBuiltin(s, v, rest) => (\E x : AllocReturn(s, x)) \/ Go(s, Eval(v, rest))
    BY Zenon DEF FinishBuiltin
  <2>. QED  BY <1>1, <2>1, CallModes DEF Go
<1>4. AllocPass(s, t, f, rest) => stack' = s /\ ctl'.m # "match"
  BY CallModes DEF AllocPass, Go
<1>5. AllocApply(s, t, rest) => stack' = s /\ ctl'.m # "match"
  BY CallModes DEF AllocApply, Go
<1>6. SubstReturn(s, v, p) => stack' = s /\ ctl'.m # "match"
  BY CallModes DEF SubstReturn, Go
<1>. QED  BY <1>1, <1>2, <1>3, <1>4, <1>5, <1>6

\* A call leaves the caller pending on s, or runs out of stack.
LEMMA CallsFrom ==
    ASSUME NEW s, NEW f, NEW c, Call(s, f, c)
    PROVE  /\ stack' = s \/ stack' = Append(s, f)
           /\ c.m # "match" => ctl'.m # "match"
           /\ ctl' = Halt("bound") \/ (ctl' = c /\ stack' = Append(s, f))
BY CallModes DEF Call, Go

\* What a frame is made for.
LEMMA FrKind ==
    ASSUME NEW k, NEW a, NEW args, NEW p, NEW i
    PROVE  /\ Fr(k, a, args, p, i).k = k
           /\ Fr(k, a, args, p, i).a = a
           /\ Fr(k, a, args, p, i).p = p
BY DEF Fr

\* The two ways to shift.
LEMMA ShiftsBy ==
    ASSUME NEW kinds, ctl.m # "halt", NEW s,
           s = stack \/ (stack # <<>> /\ Top.k \in kinds /\ s = Pop)
    PROVE  /\ stack' = s => Shifts(kinds)
           /\ \A f : f.k \in kinds /\ stack' = Append(s, f) => Shifts(kinds)
BY DEF Shifts

\* More kinds allow more.
LEMMA ShiftsMore ==
    ASSUME NEW small, NEW large, small \subseteq large, Shifts(small)
    PROVE  Shifts(large)
BY DEF Shifts

\* Returns and tail calls within the evaluator: everything but applications,
\* matches, effects and print.
LEMMA CalmEvalSteps ==
    ASSUME IInv,
           Eval0Memo \/ Eval0Appl \/ Eval0Other \/ Update \/ EvalAlge \/ EvalAppl \/ EvalAtom
    PROVE  Shifts(CalmKinds) /\ Unbinding /\ UNCHANGED world
<1>. USE DEF Unbinding, world
<1>1. CASE Eval0Memo
  BY <1>1, CallModes, ShiftsBy DEF Eval0Memo, Step, Go
<1>2. CASE Eval0Appl
  <2>1. ctl.m # "halt" /\ Push(stack, Fr("Update", ctl.a, <<>>, 0, 0), Eval(Func(ctl.a), Args(ctl.a)))
    BY <1>2 DEF Eval0Appl
  <2>. QED  BY <2>1, CallModes, CallsFrom, FrKind, ShiftsBy DEF Push, CalmKinds
<1>3. CASE Eval0Other
  <2>1. ctl.m # "halt" /\ Push(stack, Fr("Update", ctl.a, <<>>, 0, 0), Apply(ctl.a, <<>>))
    BY <1>3 DEF Eval0Other
  <2>. QED  BY <2>1, CallModes, CallsFrom, FrKind, ShiftsBy DEF Push, CalmKinds
<1>4. CASE Update
  BY <1>4, CallModes, ShiftsBy DEF Update, Returned, Go, CalmKinds
<1>5. CASE EvalAlge
  BY <1>5, ReturnsTo, ShiftsBy DEF EvalAlge, Applying
<1>6. CASE EvalAppl
  BY <1>6, CallModes, ShiftsBy DEF EvalAppl, Applying, Step, Go
<1>7. CASE EvalAtom
  BY <1>7, CallModes, ShiftsBy DEF EvalAtom, Step, Go
<1>. QED  BY <1>1, <1>2, <1>3, <1>4, <1>5, <1>6, <1>7

\* References, but for the first use of a let-bound name, and choices.
LEMMA CalmRefSteps ==
    ASSUME IInv,
           RefUndefined \/ RefBound \/ RefBindMismatch \/ RefBindMatched \/ RefParam \/ RefBuiltin
    PROVE  Shifts(CalmKinds) /\ Unbinding /\ UNCHANGED world
<1>. USE DEF Unbinding, world
<1>1. CASE RefUndefined
  BY <1>1, ReturnsTo, ShiftsBy DEF RefUndefined, Applying
<1>2. CASE RefBound
  BY <1>2, CallModes, ShiftsBy DEF RefBound, Applying, Step, Go
<1>3. CASE RefBindMismatch
  BY <1>3, ReturnsTo, ShiftsBy DEF RefBindMismatch, MatchReturned, CalmKinds
<1>4. CASE RefBindMatched
  BY <1>4, CallModes, ShiftsBy DEF RefBindMatched, MatchReturned, Step, Go, CalmKinds
<1>5. CASE RefParam
  BY <1>5, ReturnsTo, ShiftsBy DEF RefParam, RefUnbound, Applying
<1>6. CASE RefBuiltin
  BY <1>6, CallModes, ShiftsBy DEF RefBuiltin, RefUnbound, Applying, Step, Go
<1>. QED  BY <1>1, <1>2, <1>3, <1>4, <1>5, <1>6

\* A step that resumes the innermost activation, of a calm kind, and returns
\* or goes on in its place.
LEMMA CalmResumed ==
    ASSUME NEW kind \in CalmKinds, Returned(kind), stack' = Pop,
           ctl'.m # "match", UNCHANGED <<world, bound>>
    PROVE  Shifts(CalmKinds) /\ Unbinding /\ UNCHANGED world
BY ShiftsBy DEF Returned, Unbinding

\* ... or calls with another calm one in its place.
LEMMA CalmReplaced ==
    ASSUME NEW kind \in CalmKinds, Returned(kind), NEW f, f.k \in CalmKinds,
           NEW c, c.m # "match", Call(Pop, f, c), UNCHANGED <<world, bound>>
    PROVE  Shifts(CalmKinds) /\ Unbinding /\ UNCHANGED world
<1>1. /\ stack' = Pop \/ stack' = Append(Pop, f)
      /\ ctl'.m # "match"
  BY CallsFrom
<1>. QED  BY <1>1, ShiftsBy DEF Returned, Unbinding

\* A call with a calm activation pending.
LEMMA CalmCalled ==
    ASSUME ctl.m # "halt", NEW f, f.k \in CalmKinds, NEW c, c.m # "match",
           Call(stack, f, c), UNCHANGED <<world, bound>>
    PROVE  Shifts(CalmKinds) /\ Unbinding /\ UNCHANGED world
<1>1. /\ stack' = stack \/ stack' = Append(stack, f)
      /\ ctl'.m # "match"
  BY CallsFrom
<1>. QED  BY <1>1, ShiftsBy DEF Unbinding

\* The three operators.
LEMMA CalmChoiceSteps ==
    ASSUME IInv, ChoiceStep
    PROVE  Shifts(CalmKinds) /\ Unbinding /\ UNCHANGED world
<1>. DEFINE right == Eval(Right(Top.a), Top.args)
            again == Fr("Right", ctl.a, <<>>, 0, 0)
<1>1. right.m # "match" /\ again.k \in CalmKinds
  BY CallModes, FrKind DEF CalmKinds
<1>2. CASE EvalLamChoice
  <2>1. /\ ctl.m # "halt" /\ UNCHANGED <<world, bound>>
        /\ Call(stack, Fr("LamChoice", ctl.a, ctl.args, 0, 0),
                Eval(Left(ctl.a), <<ctl.args[1]>>))
    BY <1>2 DEF EvalLamChoice, Applying, Push
  <2>. QED  BY <2>1, CalmCalled, CallModes, FrKind DEF CalmKinds
<1>3. CASE LamChoiceReturn
  <2>1. Returned("LamChoice") /\ "LamChoice" \in CalmKinds /\ UNCHANGED <<world, bound>>
    BY <1>3 DEF LamChoiceReturn, CalmKinds
  <2>2. CASE Call(Pop, again, right)
    BY <1>1, <2>1, <2>2, CalmReplaced
  <2>3. CASE Go(Pop, right) \/ Go(Pop, Ret(ctl.a)) \/ Go(Pop, Eval(ctl.a, Drop(Top.args, 1)))
    <3>1. stack' = Pop /\ ctl'.m # "match"
      BY <1>1, <2>3, CallModes DEF Go
    <3>. QED  BY <2>1, <3>1, CalmResumed
  <2>. QED  BY <1>3, <2>2, <2>3 DEF LamChoiceReturn
<1>4. CASE RightReturn
  <2>1. stack' = Pop /\ ctl'.m # "match" /\ Returned("Right") /\ UNCHANGED <<world, bound>>
    BY <1>4, ReturnsTo, CallModes DEF RightReturn, Go
  <2>. QED  BY <2>1, CalmResumed DEF CalmKinds
<1>5. CASE EvalCatch
  <2>1. /\ ctl.m # "halt" /\ UNCHANGED <<world, bound>>
        /\ Call(stack, Fr("Catch", ctl.a, <<>>, 0, 0), Eval(Left(ctl.a), ctl.args))
    BY <1>5 DEF EvalCatch, Applying, Push
  <2>. QED  BY <2>1, CalmCalled, CallModes, FrKind DEF CalmKinds
<1>6. CASE CatchReturn
  <2>1. stack' = Pop /\ ctl'.m # "match" /\ Returned("Catch") /\ UNCHANGED <<world, bound>>
    BY <1>6, ReturnsTo, CallModes DEF CatchReturn, Go
  <2>. QED  BY <2>1, CalmResumed DEF CalmKinds
<1>7. CASE EvalExprChoice
  <2>1. /\ ctl.m # "halt" /\ UNCHANGED <<world, bound>>
        /\ Call(stack, Fr("ExprChoice", ctl.a, ctl.args, 0, 0), Eval(Left(ctl.a), ctl.args))
    BY <1>7 DEF EvalExprChoice, Applying, Push
  <2>. QED  BY <2>1, CalmCalled, CallModes, FrKind DEF CalmKinds
<1>8. CASE ExprChoiceReturn
  <2>1. Returned("ExprChoice") /\ "ExprChoice" \in CalmKinds /\ UNCHANGED <<world, bound>>
    BY <1>8 DEF ExprChoiceReturn, CalmKinds
  <2>2. CASE Call(Pop, again, right)
    BY <1>1, <2>1, <2>2, CalmReplaced
  <2>3. CASE Go(Pop, right) \/ Go(Pop, Ret(ctl.a))
    <3>1. stack' = Pop /\ ctl'.m # "match"
      BY <1>1, <2>3, CallModes DEF Go
    <3>. QED  BY <2>1, <3>1, CalmResumed
  <2>. QED  BY <1>8, <2>2, <2>3 DEF ExprChoiceReturn
<1>. QED
  BY <1>2, <1>3, <1>4, <1>5, <1>6, <1>7, <1>8 DEF ChoiceStep

\* Builtins that neither begin effects nor print.
LEMMA CalmBuiltinSteps ==
    ASSUME IInv,
           \/ EvalBuiltinValue \/ EvalBuiltinGuard \/ EvalBuiltinPartial
           \/ CallReturn \/ CallArith \/ ArithLhs \/ ArithRhs \/ ContinuationReturn
    PROVE  Shifts(CalmKinds) /\ Unbinding /\ UNCHANGED world
<1>1. CASE EvalBuiltinValue
  BY <1>1, CallModes, ShiftsBy DEF EvalBuiltinValue, Applying, Step, Go, Unbinding
<1>2. CASE EvalBuiltinGuard
  BY <1>2, CallModes, ShiftsBy DEF EvalBuiltinGuard, Applying, Step, Go, Unbinding
<1>3. CASE EvalBuiltinPartial
  BY <1>3, ReturnsTo, ShiftsBy DEF EvalBuiltinPartial, Applying, Unbinding
<1>4. CASE CallReturn
  BY <1>4, ReturnsTo, ShiftsBy DEF CallReturn, Calling, Applying, Unbinding
<1>5. CASE CallArith
  <2>1. /\ ctl.m # "halt" /\ UNCHANGED <<world, bound>>
        /\ Call(stack, Fr("Lhs", ctl.a, ctl.args, 0, 0), Eval0(ctl.args[1]))
    BY <1>5 DEF CallArith, Calling, Applying, Push
  <2>. QED  BY <2>1, CalmCalled, CallModes, FrKind DEF CalmKinds
<1>6. CASE ArithLhs
  <2>. DEFINE f == [Top EXCEPT !.k = "Rhs", !.i = ctl.a]
  <2>1. Returned("Lhs") /\ "Lhs" \in CalmKinds /\ UNCHANGED <<world, bound>>
    BY <1>6 DEF ArithLhs, CalmKinds
  <2>2. CASE Call(Pop, f, Eval0(Top.args[2]))
    <3>1. Top \in Frame
      BY <2>1, ResumeFits DEF Returned
    <3>2. f.k \in CalmKinds
      BY <3>1 DEF Frame, CalmKinds
    <3>. QED  BY <2>1, <2>2, <3>2, CallModes, CalmReplaced
  <2>3. CASE FailBuiltin(Pop, "arg1") \/ Go(Pop, Ret(ctl.a))
    <3>1. stack' = Pop /\ ctl'.m # "match"
      BY <2>3, ReturnsTo, CallModes DEF Go
    <3>. QED  BY <2>1, <3>1, CalmResumed
  <2>. QED  BY <1>6, <2>2, <2>3 DEF ArithLhs
<1>7. CASE ArithRhs
  <2>1. stack' = Pop /\ ctl'.m # "match" /\ Returned("Rhs") /\ UNCHANGED <<world, bound>>
    BY <1>7, ReturnsTo, CallModes DEF ArithRhs, Go
  <2>. QED  BY <2>1, CalmResumed DEF CalmKinds
<1>8. CASE ContinuationReturn
  <2>1. stack' = Pop /\ ctl'.m # "match" /\ Returned("Result") /\ UNCHANGED <<world, bound>>
    BY <1>8, ReturnsTo DEF ContinuationReturn
  <2>. QED  BY <2>1, CalmResumed DEF CalmKinds
<1>. QED  BY <1>1, <1>2, <1>3, <1>4, <1>5, <1>6, <1>7, <1>8

\* The end.
LEMMA CalmFinish ==
    ASSUME IInv, Finish
    PROVE  Shifts(CalmKinds) /\ Unbinding /\ UNCHANGED world
BY ShiftsBy DEF Finish, Step, Go, C, Unbinding

-----------------------------------------------------------------------------
(* Effects *)

NoEffectKinds == CalmKinds \cup LambdaKinds \cup MatchKinds

\* A call from where the evaluator is, or from the activation it resumes.
LEMMA ShiftsCall ==
    ASSUME NEW kinds, ctl.m # "halt", NEW s,
           s = stack \/ (stack # <<>> /\ Top.k \in kinds /\ s = Pop),
           NEW f, f.k \in kinds, NEW c, Call(s, f, c)
    PROVE  Shifts(kinds)
BY CallsFrom, ShiftsBy

\* Applications of lambdas, and the first use of a let-bound name.
LEMMA LambdaShifts ==
    ASSUME IInv, EvalLambda \/ LambdaMismatch \/ LambdaBody \/ LambdaReturn \/ RefBind
    PROVE  Shifts(NoEffectKinds) /\ UNCHANGED world
<1>1. CASE EvalLambda
  <2>1. /\ ctl.m # "halt" /\ UNCHANGED world
        /\ Call(stack, Fr("Match", ctl.a, ctl.args, 0, 0), Match(ctl.args[1], Param(ctl.a)))
    BY <1>1 DEF EvalLambda, Applying, Push
  <2>. QED  BY <2>1, FrKind, ShiftsCall DEF NoEffectKinds, LambdaKinds
<1>2. CASE LambdaMismatch
  <2>1. /\ ctl.m # "halt" /\ stack # <<>> /\ Top.k = "Match" /\ stack' = Pop /\ UNCHANGED world
    BY <1>2, ReturnsTo DEF LambdaMismatch, MatchReturned
  <2>. QED  BY <2>1, ShiftsBy DEF NoEffectKinds, LambdaKinds
<1>3. CASE LambdaBody
  <2>. DEFINE f == [Top EXCEPT !.k = "Body"]
              c == Eval(Body(Top.a), Drop(Top.args, 1))
  <2>1. /\ ctl.m # "halt" /\ stack # <<>> /\ Top.k = "Match" /\ UNCHANGED world
        /\ Call(Pop, f, c)
    BY <1>3 DEF LambdaBody, MatchReturned, Push
  <2>2. f.k = "Body"
    BY <2>1, ResumeFits DEF Frame
  <2>. HIDE DEF f, c
  <2>. QED  BY <2>1, <2>2, ShiftsCall DEF NoEffectKinds, LambdaKinds
<1>4. CASE LambdaReturn
  <2>1. /\ ctl.m # "halt" /\ stack # <<>> /\ Top.k = "Body" /\ stack' = Pop /\ UNCHANGED world
    BY <1>4, ReturnsTo DEF LambdaReturn, Returned, Go
  <2>. QED  BY <2>1, ShiftsBy DEF NoEffectKinds, LambdaKinds
<1>5. CASE RefBind
  <2>. DEFINE q == Pat(heap[ctl.a].num)
  <2>1. /\ ctl.m # "halt" /\ UNCHANGED world
        /\ Call(stack, Fr("BindMatch", Null, ctl.args, heap[ctl.a].num, 0), Match(q.rhs, q.root))
    BY <1>5 DEF RefBind, RefUnbound, Applying
  <2>2. Fr("BindMatch", Null, ctl.args, heap[ctl.a].num, 0).k \in NoEffectKinds
    BY FrKind DEF NoEffectKinds, CalmKinds
  <2>. QED  BY <2>1, <2>2, ShiftsCall
<1>. QED  BY <1>1, <1>2, <1>3, <1>4, <1>5

\* Matching.
LEMMA MatchShifts ==
    ASSUME IInv, MatchStep
    PROVE  Shifts(NoEffectKinds) /\ UNCHANGED world
<1>1. CASE MatchRef \/ MatchWildcard \/ MatchLiteral
  <2>1. ctl.m # "halt" /\ stack' = stack /\ UNCHANGED world
    BY <1>1 DEF MatchRef, MatchWildcard, MatchLiteral, Matching, Step, Go
  <2>. QED  BY <2>1, ShiftsBy
<1>2. CASE MatchAlge \/ MatchAs \/ MatchOr \/ MatchCaret
  <2>1. /\ ctl.m # "halt" /\ UNCHANGED world
        /\ \/ Call(stack, Fr("AlgeHead", Null, <<>>, ctl.p, 0), Eval0(ctl.a))
           \/ Call(stack, Fr("As", ctl.a, <<>>, ctl.p, 0), Match(ctl.a, Pat(ctl.p).sub[2]))
           \/ Call(stack, Fr("Or", ctl.a, <<>>, ctl.p, 0), Match(ctl.a, Pat(ctl.p).sub[1]))
           \/ Call(stack, Fr("Caret", Null, <<>>, ctl.p, 0), Eval0(ctl.a))
    BY <1>2 DEF MatchAlge, MatchAs, MatchOr, MatchCaret, Matching, Push
  <2>2. \A a, p, i : \A k \in MatchKinds : Fr(k, a, <<>>, p, i).k \in NoEffectKinds
    BY FrKind DEF NoEffectKinds
  <2>3. {"AlgeHead", "As", "Or", "Caret"} \subseteq MatchKinds
    BY DEF MatchKinds
  <2>. QED  BY <2>1, <2>2, <2>3, ShiftsCall
<1>3. CASE MatchAlgeHead
  <2>. DEFINE q == Pat(Top.p)
              f == Fr("AlgeArg", ctl.a, <<>>, Top.p, 1)
              c == Match(heap[ctl.a].kids[1], q.sub[1])
  <2>1. /\ ctl.m # "halt" /\ stack # <<>> /\ Top.k = "AlgeHead" /\ UNCHANGED world
        /\ stack' = Pop \/ Call(Pop, f, c)
    BY <1>3 DEF MatchAlgeHead, Returned, Go
  <2>2. f.k = "AlgeArg"
    BY FrKind
  <2>. HIDE DEF f, c
  <2>3. f.k \in NoEffectKinds /\ Top.k \in NoEffectKinds
    BY <2>1, <2>2 DEF NoEffectKinds, MatchKinds
  <2>. QED  BY <2>1, <2>3, ShiftsCall, ShiftsBy
<1>4. CASE MatchAlgeArg
  <2>. DEFINE n == Top.i + 1
              f == [Top EXCEPT !.i = n]
              c == Match(Kids(Top.a)[n], Pat(Top.p).sub[n])
  <2>1. /\ ctl.m # "halt" /\ stack # <<>> /\ Top.k = "AlgeArg" /\ UNCHANGED world
        /\ stack' = Pop \/ Call(Pop, f, c)
    BY <1>4 DEF MatchAlgeArg, MatchReturned, Go
  <2>2. f.k = "AlgeArg"
    BY <2>1, ResumeFits DEF Frame
  <2>. HIDE DEF f, c
  <2>3. f.k \in NoEffectKinds /\ Top.k \in NoEffectKinds
    BY <2>1, <2>2 DEF NoEffectKinds, MatchKinds
  <2>. QED  BY <2>1, <2>3, ShiftsCall, ShiftsBy
<1>5. CASE MatchAsReturn
  <2>1. /\ ctl.m # "halt" /\ stack # <<>> /\ Top.k = "As" /\ stack' = Pop /\ UNCHANGED world
    BY <1>5 DEF MatchAsReturn, MatchReturned, Step, Go
  <2>. QED  BY <2>1, ShiftsBy DEF NoEffectKinds, MatchKinds
<1>6. CASE MatchOrReturn
  <2>1. /\ ctl.m # "halt" /\ stack # <<>> /\ Top.k = "Or" /\ stack' = Pop /\ UNCHANGED world
    BY <1>6 DEF MatchOrReturn, MatchReturned, Go
  <2>. QED  BY <2>1, ShiftsBy DEF NoEffectKinds, MatchKinds
<1>7. CASE MatchCaretReturn
  <2>1. /\ ctl.m # "halt" /\ stack # <<>> /\ Top.k = "Caret" /\ stack' = Pop /\ UNCHANGED world
    BY <1>7 DEF MatchCaretReturn, Returned, Go
  <2>. QED  BY <2>1, ShiftsBy DEF NoEffectKinds, MatchKinds
<1>. QED  BY <1>1, <1>2, <1>3, <1>4, <1>5, <1>6, <1>7 DEF MatchStep

-----------------------------------------------------------------------------
(* The depth of effects is the number of pending effects *)

EffectFrames(s) == {i \in 1..Len(s) : s[i].k = "Effect"}

\* Print is called, with strict effects, only under an effect.
Covered(s) ==
    \A i \in 1..Len(s) : s[i].k = "Print" => \E j \in 1..i : s[j].k = "Effect"

EffectInv ==
    /\ ~Aborted => depth = IF prog.strict THEN Cardinality(EffectFrames(stack)) ELSE 0
    /\ prog.strict => Covered(stack)

\* The innermost activation ends.
LEMMA EffectsPop ==
    ASSUME NEW S, NEW s \in Seq(S), s # <<>>
    PROVE  LET front == SubSeq(s, 1, Len(s) - 1)
           IN  /\ EffectFrames(front) = EffectFrames(s) \ {Len(s)}
               /\ Len(s) \in EffectFrames(s) <=> s[Len(s)].k = "Effect"
               /\ Covered(s) => Covered(front)
<1>. DEFINE n == Len(s)
            front == SubSeq(s, 1, Len(s) - 1)
<1>1. n \in Nat \ {0} /\ Len(front) = n - 1 /\ \A i \in 1..(n - 1) : front[i] = s[i]
  BY FrontProperties, EmptySeq, LenProperties
<1>2. \A i : i \in 1..(n - 1) <=> i \in 1..n /\ i # n
  BY <1>1
<1>3. n \in 1..n
  BY <1>1
<1>. HIDE DEF n, front
<1>4. EffectFrames(front) = EffectFrames(s) \ {n}
  BY <1>1, <1>2 DEF EffectFrames, n
<1>5. n \in EffectFrames(s) <=> s[n].k = "Effect"
  BY <1>3 DEF EffectFrames, n
<1>6. ASSUME Covered(s)
      PROVE  Covered(front)
  <2>1. \A i \in 1..(n - 1) : i \in 1..n /\ \A j \in 1..i : j \in 1..(n - 1)
    BY <1>1
  <2>. QED  BY <1>1, <1>6, <2>1 DEF Covered, n
<1>. QED  BY <1>4, <1>5, <1>6 DEF n, front

\* A new one begins.
LEMMA EffectsAppend ==
    ASSUME NEW S, NEW s \in Seq(S), NEW f
    PROVE  LET more == Append(s, f)
           IN  /\ EffectFrames(more) = IF f.k = "Effect" THEN EffectFrames(s) \cup {Len(s) + 1}
                                       ELSE EffectFrames(s)
               /\ Len(s) + 1 \notin EffectFrames(s)
               /\ Covered(s) /\ (f.k = "Print" => EffectFrames(s) # {}) => Covered(more)
<1>. DEFINE n == Len(s)
            more == Append(s, f)
<1>1. /\ n \in Nat
      /\ Len(more) = n + 1
      /\ \A i \in 1..(n + 1) : more[i] = IF i <= n THEN s[i] ELSE f
  <2>1. s \in Seq(S \cup {f}) /\ f \in S \cup {f}
    BY SeqDef
  <2>. QED  BY <2>1, AppendProperties, LenProperties
<1>2. \A i : i \in 1..(n + 1) <=> i \in 1..n \/ i = n + 1
  BY <1>1
<1>3. n + 1 \notin 1..n /\ \A i \in 1..n : i <= n
  BY <1>1
<1>4. \A i \in 1..n : more[i] = s[i]
  BY <1>1
<1>5. more[n + 1] = f
  BY <1>1
<1>. HIDE DEF n, more
<1>6. EffectFrames(more) = IF f.k = "Effect" THEN EffectFrames(s) \cup {n + 1} ELSE EffectFrames(s)
  BY <1>1, <1>2, <1>3, <1>4, <1>5 DEF EffectFrames, n
<1>7. n + 1 \notin EffectFrames(s)
  BY <1>3 DEF EffectFrames, n
<1>8. ASSUME Covered(s), f.k = "Print" => EffectFrames(s) # {}
      PROVE  Covered(more)
  <2>1. ASSUME NEW i \in 1..n, s[i].k = "Print"
        PROVE  \E j \in 1..i : more[j].k = "Effect"
    <3>1. PICK j \in 1..i : s[j].k = "Effect"
      BY <1>8, <2>1 DEF Covered, n
    <3>2. j \in 1..n
      BY <1>1
    <3>. QED  BY <1>4, <3>1, <3>2
  <2>2. ASSUME f.k = "Print"
        PROVE  \E j \in 1..(n + 1) : more[j].k = "Effect"
    BY <1>2, <1>4, <1>8, <2>2 DEF EffectFrames, n
  <2>3. ASSUME NEW i \in 1..(n + 1), more[i].k = "Print"
        PROVE  \E j \in 1..i : more[j].k = "Effect"
    <3>1. CASE i \in 1..n
      BY <1>4, <2>1, <2>3, <3>1
    <3>2. CASE i = n + 1
      BY <1>5, <2>2, <2>3, <3>2
    <3>. QED  BY <1>2, <3>1, <3>2
  <2>. QED  BY <1>1, <2>3 DEF Covered
<1>. QED  BY <1>6, <1>7, <1>8 DEF n, more

\* The pending effects are finitely many.
LEMMA EffectsFinite ==
    ASSUME NEW S, NEW s \in Seq(S)
    PROVE  /\ IsFiniteSet(EffectFrames(s))
           /\ Cardinality(EffectFrames(s)) \in Nat
<1>1. Len(s) \in Nat /\ EffectFrames(s) \subseteq 1..Len(s)
  BY LenProperties DEF EffectFrames
<1>2. IsFiniteSet(1..Len(s))
  BY <1>1, FS_Interval
<1>. QED  BY <1>1, <1>2, FS_Subset, FS_CardinalityType

\* The stack of a typed state, when its innermost activation may end.
LEMMA PendingEffects ==
    ASSUME IInv
    PROVE  /\ stack \in Seq(Frame)
           /\ Cardinality(EffectFrames(stack)) \in Nat
           /\ stack # <<>> =>
                 /\ Pop \in Seq(Frame)
                 /\ IsFiniteSet(EffectFrames(Pop))
                 /\ Cardinality(EffectFrames(Pop)) \in Nat
                 /\ Covered(stack) => Covered(Pop)
                 /\ Top.k # "Effect" => EffectFrames(Pop) = EffectFrames(stack)
                 /\ Top.k = "Effect" =>
                       Cardinality(EffectFrames(stack)) = Cardinality(EffectFrames(Pop)) + 1
<1>1. stack \in Seq(Frame)
  BY DEF IInv, Inv, Stack
<1>2. ASSUME stack # <<>>
      PROVE  /\ Pop \in Seq(Frame)
             /\ Covered(stack) => Covered(Pop)
             /\ EffectFrames(Pop) = EffectFrames(stack) \ {Len(stack)}
             /\ Len(stack) \in EffectFrames(stack) <=> Top.k = "Effect"
  BY <1>1, <1>2, EffectsPop, FrontProperties DEF Pop, Top
<1>3. ASSUME stack # <<>>, Top.k = "Effect"
      PROVE  Cardinality(EffectFrames(stack)) = Cardinality(EffectFrames(Pop)) + 1
  <2>1. Cardinality(EffectFrames(Pop)) = Cardinality(EffectFrames(stack)) - 1
    BY <1>1, <1>2, <1>3, EffectsFinite, FS_RemoveElement
  <2>. QED  BY <1>1, <2>1, EffectsFinite
<1>4. stack # <<>> /\ Top.k # "Effect" => EffectFrames(Pop) = EffectFrames(stack)
  BY <1>2
<1>. QED  BY <1>1, <1>2, <1>3, <1>4, EffectsFinite

\* A step that begins and ends no effect.
LEMMA EffectsShift ==
    ASSUME IInv, EffectInv, Shifts(NoEffectKinds), UNCHANGED <<prog, depth>>
    PROVE  EffectInv'
<1>1. ~Aborted
  BY DEF Shifts, Aborted
<1>2. "Effect" \notin NoEffectKinds /\ "Print" \notin NoEffectKinds
  BY DEF NoEffectKinds, CalmKinds, LambdaKinds, MatchKinds
<1>3. PICK s : /\ s = stack \/ (stack # <<>> /\ Top.k \in NoEffectKinds /\ s = Pop)
               /\ stack' = s \/ \E f : f.k \in NoEffectKinds /\ stack' = Append(s, f)
  BY DEF Shifts
<1>4. s \in Seq(Frame) /\ EffectFrames(s) = EffectFrames(stack) /\ (Covered(stack) => Covered(s))
  BY <1>2, <1>3, PendingEffects
<1>5. EffectFrames(stack') = EffectFrames(s) /\ (Covered(s) => Covered(stack'))
  <2>1. CASE stack' = s
    BY <2>1
  <2>2. ASSUME NEW f, f.k \in NoEffectKinds, stack' = Append(s, f)
        PROVE  EffectFrames(stack') = EffectFrames(s) /\ (Covered(s) => Covered(stack'))
    BY <1>2, <1>4, <2>2, EffectsAppend
  <2>. QED  BY <1>3, <2>1, <2>2
<1>. QED  BY <1>1, <1>4, <1>5 DEF EffectInv

\* An effect begins: the depth and the pending effects are one more.
LEMMA EffectBegins ==
    ASSUME IInv, EffectInv, CallEffect
    PROVE  EffectInv'
<1>. DEFINE f == Fr("Effect", ctl.a, ctl.args, 0, 0)
            c == Eval0(ctl.args[1])
<1>1. ctl.m = "apply" /\ EffectsBegin /\ Call(stack, f, c) /\ prog' = prog
  BY DEF CallEffect, Calling, Applying
<1>2. f.k = "Effect"
  BY FrKind
<1>. HIDE DEF f, c
<1>3. \/ ctl' = Halt("bound") /\ stack' = stack
      \/ stack' = Append(stack, f)
  BY <1>1 DEF Call, Go
<1>4. Covered(stack) => Covered(stack')
  BY <1>2, <1>3, PendingEffects, EffectsAppend
<1>5. CASE ctl' = Halt("bound")
  <2>1. Aborted'
    BY <1>5 DEF Halt, C, Aborted
  <2>. QED  BY <1>1, <1>4, <2>1 DEF EffectInv
<1>6. CASE stack' = Append(stack, f)
  <2>1. EffectFrames(stack') = EffectFrames(stack) \cup {Len(stack) + 1}
        /\ Len(stack) + 1 \notin EffectFrames(stack)
    BY <1>2, <1>6, PendingEffects, EffectsAppend
  <2>2. Cardinality(EffectFrames(stack')) = Cardinality(EffectFrames(stack)) + 1
    BY <2>1, PendingEffects, EffectsFinite, FS_AddElement
  <2>3. ~Aborted
    BY <1>1 DEF Aborted
  <2>4. depth' = IF prog'.strict THEN Cardinality(EffectFrames(stack')) ELSE 0
    BY <1>1, <2>2, <2>3 DEF EffectInv, EffectsBegin
  <2>. QED  BY <1>1, <1>4, <2>4 DEF EffectInv
<1>. QED  BY <1>3, <1>5, <1>6

\* An effect ends: the guard of ls_effects_end finds the depth positive.
LEMMA EffectEnds ==
    ASSUME IInv, EffectInv, Returned("Effect"), EffectsEnd, prog' = prog,
           stack' = Pop \/ stack' = Append(Pop, ResultFrame)
    PROVE  EffectInv'
<1>1. /\ ctl.m = "ret" /\ stack # <<>> /\ Top.k = "Effect"
  BY DEF Returned
<1>2. /\ ResultFrame.k = "Result"
  BY FrKind DEF ResultFrame
<1>3. EffectFrames(stack') = EffectFrames(Pop) /\ (Covered(Pop) => Covered(stack'))
  BY <1>1, <1>2, PendingEffects, EffectsAppend
<1>4. ~Aborted
  BY <1>1 DEF Aborted
<1>5. depth' = IF prog.strict THEN Cardinality(EffectFrames(Pop)) ELSE 0
  BY <1>1, <1>4, PendingEffects DEF EffectInv, EffectsEnd
<1>. QED  BY <1>1, <1>3, <1>5, PendingEffects DEF EffectInv

\* The steps that end one.
LEMMA EffectEndSteps ==
    ASSUME IInv, EffectInv,
           EffectFails \/ SeqReturn \/ SeqcReturn \/ ChainReturn \/ BindReturn
    PROVE  EffectInv'
<1>1. CASE EffectFails
  <2>1. stack' = Pop /\ Returned("Effect") /\ EffectsEnd /\ prog' = prog
    BY <1>1, ReturnsTo DEF EffectFails, Go
  <2>. QED  BY <2>1, EffectEnds
<1>2. CASE SeqReturn
  <2>1. stack' = Pop /\ Returned("Effect") /\ EffectsEnd /\ prog' = prog
    BY <1>2, ReturnsTo DEF SeqReturn, EffectDone
  <2>. QED  BY <2>1, EffectEnds
<1>3. CASE SeqcReturn
  <2>1. stack' = Pop /\ Returned("Effect") /\ EffectsEnd /\ prog' = prog
    BY <1>3 DEF SeqcReturn, EffectDone, Go
  <2>. QED  BY <2>1, EffectEnds
<1>4. CASE ChainReturn
  <2>1. /\ stack' = Append(Pop, ResultFrame) /\ Returned("Effect") /\ EffectsEnd
        /\ prog' = prog
    BY <1>4, ReturnsTo DEF ChainReturn, EffectDone
  <2>. QED  BY <2>1, EffectEnds
<1>5. CASE BindReturn
  <2>1. /\ stack' = Append(Pop, ResultFrame) /\ Returned("Effect") /\ EffectsEnd
        /\ prog' = prog
    BY <1>5 DEF BindReturn, EffectDone, Go
  <2>. QED  BY <2>1, EffectEnds
<1>. QED  BY <1>1, <1>2, <1>3, <1>4, <1>5

\* Print is called where effects are allowed, and leaves them as they are.
LEMMA PrintSteps ==
    ASSUME IInv, EffectInv, CallPrint \/ PrintReturn
    PROVE  EffectInv'
<1>1. CASE CallPrint
  <2>. DEFINE f == Fr("Print", ctl.a, ctl.args, 0, 0)
  <2>1. ctl.m = "apply" /\ UNCHANGED <<prog, depth>>
    BY <1>1 DEF CallPrint, Calling, Applying, world
  <2>2. CASE stack' = stack
    BY <2>1, <2>2, EffectsShift DEF Shifts
  <2>3. CASE EffectsAllowed /\ stack' = Append(stack, f)
    <3>1. f.k = "Print"
      BY FrKind
    <3>2. ~Aborted
      BY <2>1 DEF Aborted
    <3>3. EffectFrames(stack') = EffectFrames(stack)
      BY <2>3, <3>1, PendingEffects, EffectsAppend
    <3>4. ASSUME prog.strict
          PROVE  EffectFrames(stack) # {}
      <4>1. Cardinality(EffectFrames(stack)) # 0
        BY <2>3, <3>2, <3>4 DEF EffectInv, EffectsAllowed
      <4>. QED  BY <4>1, FS_EmptySet
    <3>5. prog.strict => Covered(stack')
      BY <2>3, <3>4, PendingEffects, EffectsAppend DEF EffectInv
    <3>. QED  BY <2>1, <3>2, <3>3, <3>5 DEF EffectInv
  <2>4. \/ stack' = stack
        \/ EffectsAllowed /\ stack' = Append(stack, f)
    BY <1>1, ReturnsTo, CallsFrom DEF CallPrint
  <2>. QED  BY <2>2, <2>3, <2>4
<1>2. CASE PrintReturn
  <2>1. /\ ctl.m = "ret" /\ stack # <<>> /\ Top.k = "Print" /\ stack' = Pop
        /\ UNCHANGED <<prog, depth>>
    BY <1>2, ReturnsTo DEF PrintReturn, Returned, Go
  <2>2. ~Aborted
    BY <2>1 DEF Aborted
  <2>3. EffectFrames(Pop) = EffectFrames(stack) /\ (Covered(stack) => Covered(Pop))
    BY <2>1, PendingEffects
  <2>. QED  BY <2>1, <2>2, <2>3 DEF EffectInv
<1>. QED  BY <1>1, <1>2

\* The steps that neither begin nor end an effect, by what they shift.
LEMMA NoEffectSteps ==
    ASSUME IInv, [Next]_vars,
           ~(CallEffect \/ EffectFails \/ SeqReturn \/ SeqcReturn \/ ChainReturn \/ BindReturn
             \/ CallPrint \/ PrintReturn)
    PROVE  UNCHANGED vars \/ (Shifts(NoEffectKinds) /\ UNCHANGED world)
<1>1. CalmKinds \subseteq NoEffectKinds
  BY DEF NoEffectKinds
<1>2. CASE EvalStep
  BY <1>1, <1>2, CalmEvalSteps, LambdaShifts, ShiftsMore DEF EvalStep
<1>3. CASE RefStep
  BY <1>1, <1>3, CalmRefSteps, LambdaShifts, ShiftsMore DEF RefStep
<1>4. CASE ChoiceStep
  BY <1>1, <1>4, CalmChoiceSteps, ShiftsMore
<1>5. CASE MatchStep
  BY <1>5, MatchShifts
<1>6. CASE BuiltinStep
  BY <1>1, <1>6, CalmBuiltinSteps, ShiftsMore DEF BuiltinStep
<1>7. CASE Finish
  BY <1>1, <1>7, CalmFinish, ShiftsMore
<1>8. CASE Stopped \/ UNCHANGED vars
  BY <1>8 DEF Stopped
<1>. QED  BY <1>2, <1>3, <1>4, <1>5, <1>6, <1>7, <1>8 DEF Next

LEMMA EffectsNext ==
    ASSUME IInv, EffectInv, [Next]_vars
    PROVE  EffectInv'
<1>1. CASE UNCHANGED vars
  BY <1>1 DEF EffectInv, EffectFrames, Covered, Aborted, vars
<1>2. CASE Shifts(NoEffectKinds) /\ UNCHANGED world
  BY <1>2, EffectsShift DEF world
<1>. QED  BY <1>1, <1>2, NoEffectSteps, EffectBegins, EffectEndSteps, PrintSteps

LEMMA EffectsHold == Spec => []EffectInv
<1>1. Init => EffectInv
  <2>1. Len(<<>>) = 0 /\ EffectFrames(<<>>) = {} /\ Covered(<<>>)
    BY DEF EffectFrames, Covered
  <2>. QED  BY <2>1, FS_EmptySet DEF Init, EffectInv
<1>2. IInv /\ EffectInv /\ [Next]_vars => EffectInv'
  BY EffectsNext
<1>. QED  BY <1>1, <1>2, InvHolds, PTL DEF Spec

\* ls_effects_begin and ls_effects_end pair up on every path of every program:
\* the depth is the number of first arguments of seq, seqc, chain and bind
\* that are being evaluated.
THEOREM EffectsArePaired == Spec => []EffectsBalanced
<1>1. EffectInv => EffectsBalanced
  BY DEF EffectInv, EffectFrames, EffectsBalanced
<1>. QED  BY <1>1, EffectsHold, PTL

\* With --strict-effects no program prints but under one of them.
THEOREM PrintsAreAllowed == Spec => PrintsAllowed
<1>1. ASSUME IInv, EffectInv, [Next]_vars
      PROVE  [out' # out /\ prog.strict => \E i \in 1..Len(stack) : stack[i].k = "Effect"]_vars
  <2>1. CASE PrintReturn
    <3>1. stack # <<>> /\ stack[Len(stack)].k = "Print"
      BY <2>1 DEF PrintReturn, Returned, Top
    <3>2. Len(stack) \in 1..Len(stack)
      BY <3>1, PendingEffects, LenProperties, EmptySeq
    <3>. QED  BY <1>1, <3>1, <3>2 DEF EffectInv, Covered
  <2>2. CASE CallEffect \/ EffectFails \/ SeqReturn \/ SeqcReturn \/ ChainReturn \/ BindReturn
    BY <2>2 DEF CallEffect, EffectFails, SeqReturn, SeqcReturn, ChainReturn, BindReturn, EffectDone
  <2>3. CASE CallPrint
    BY <2>3 DEF CallPrint, world
  <2>4. CASE UNCHANGED vars \/ UNCHANGED world
    BY <2>4 DEF vars, world
  <2>. QED  BY <1>1, <2>1, <2>2, <2>3, <2>4, NoEffectSteps
<1>2. IInv /\ EffectInv /\ [Next]_vars
      => [out' # out /\ prog.strict => \E i \in 1..Len(stack) : stack[i].k = "Effect"]_vars
  BY <1>1
<1>. QED  BY <1>2, InvHolds, EffectsHold, PTL DEF Spec, PrintsAllowed

-----------------------------------------------------------------------------
(* Parameters are bound only inside applications of their lambdas *)

\* The references that activation f may bind, and those below pattern p that
\* belong to a parameter.
Opens(pats, h, f) == IF f.k \in LambdaKinds THEN pats[h[f.a].num].refs ELSE {}
Params(pats, p) == {q \in pats[p].refs : pats[q].org = "LAMBDA"}

\* What the first n activations of s may bind.
Scope(pats, h, s, n) == UNION {Opens(pats, h, s[j]) : j \in 1..n}

\* A pattern whose match is pending belongs to a lambda that was applied first.
Nested(pats, h, s) ==
    \A i \in 1..Len(s) :
        s[i].k \in MatchKinds => Params(pats, s[i].p) \subseteq Scope(pats, h, s, i)

Open == Scope(prog.pats, heap, stack, Len(stack))
OpenBelow == Scope(prog.pats, heap, Pop, Len(Pop))
BoundParams == {q \in PatId : Pat(q).org = "LAMBDA" /\ bound[q] # Null}

BindInv ==
    ~Aborted =>
        /\ BoundParams \subseteq Open
        /\ ctl.m = "match" => Params(prog.pats, ctl.p) \subseteq Open
        /\ Nested(prog.pats, heap, stack)

\* The innermost activation ends.
LEMMA ScopePop ==
    ASSUME NEW pats, NEW h, NEW S, NEW s \in Seq(S), s # <<>>
    PROVE  LET front == SubSeq(s, 1, Len(s) - 1)
           IN  /\ Scope(pats, h, s, Len(s))
                      = Scope(pats, h, front, Len(front)) \cup Opens(pats, h, s[Len(s)])
               /\ Nested(pats, h, s) => Nested(pats, h, front)
<1>. DEFINE n == Len(s)
            front == SubSeq(s, 1, Len(s) - 1)
<1>1. n \in Nat \ {0} /\ Len(front) = n - 1 /\ \A i \in 1..(n - 1) : front[i] = s[i]
  BY FrontProperties, EmptySeq, LenProperties
<1>2. \A i : i \in 1..n <=> i \in 1..(n - 1) \/ i = n
  BY <1>1
<1>3. \A i \in 1..(n - 1) : \A j \in 1..i : j \in 1..(n - 1)
  BY <1>1
<1>. HIDE DEF n, front
<1>4. Scope(pats, h, s, n) = Scope(pats, h, front, n - 1) \cup Opens(pats, h, s[n])
  BY <1>1, <1>2 DEF Scope
<1>5. \A i \in 1..(n - 1) : Scope(pats, h, front, i) = Scope(pats, h, s, i)
  BY <1>1, <1>3 DEF Scope
<1>6. ASSUME Nested(pats, h, s)
      PROVE  Nested(pats, h, front)
  BY <1>1, <1>2, <1>5, <1>6 DEF Nested, n
<1>. QED  BY <1>1, <1>4, <1>6 DEF n, front

\* A new one begins.
LEMMA ScopeAppend ==
    ASSUME NEW pats, NEW h, NEW S, NEW s \in Seq(S), NEW f
    PROVE  LET more == Append(s, f)
           IN  /\ Scope(pats, h, more, Len(more))
                      = Scope(pats, h, s, Len(s)) \cup Opens(pats, h, f)
               /\ Nested(pats, h, s)
                  /\ (f.k \in MatchKinds =>
                         Params(pats, f.p) \subseteq Scope(pats, h, s, Len(s)))
                  => Nested(pats, h, more)
<1>. DEFINE n == Len(s)
            more == Append(s, f)
<1>1. /\ n \in Nat
      /\ Len(more) = n + 1
      /\ \A i \in 1..(n + 1) : more[i] = IF i <= n THEN s[i] ELSE f
  <2>1. s \in Seq(S \cup {f}) /\ f \in S \cup {f}
    BY SeqDef
  <2>. QED  BY <2>1, AppendProperties, LenProperties
<1>2. \A i : i \in 1..(n + 1) <=> i \in 1..n \/ i = n + 1
  BY <1>1
<1>3. \A i \in 1..n : \A j \in 1..i : j \in 1..n
  BY <1>1
<1>4. (\A i \in 1..n : more[i] = s[i]) /\ more[n + 1] = f
  BY <1>1
<1>. HIDE DEF n, more
<1>5. Scope(pats, h, more, n + 1) = Scope(pats, h, s, n) \cup Opens(pats, h, f)
  BY <1>2, <1>4 DEF Scope
<1>6. \A i \in 1..n : Scope(pats, h, more, i) = Scope(pats, h, s, i)
  BY <1>3, <1>4 DEF Scope
<1>7. ASSUME Nested(pats, h, s),
             f.k \in MatchKinds => Params(pats, f.p) \subseteq Scope(pats, h, s, n)
      PROVE  Nested(pats, h, more)
  <2>1. \A i \in 1..n : more[i].k \in MatchKinds =>
            Params(pats, more[i].p) \subseteq Scope(pats, h, more, i)
    BY <1>4, <1>6, <1>7 DEF Nested, n
  <2>2. more[n + 1].k \in MatchKinds =>
            Params(pats, more[n + 1].p) \subseteq Scope(pats, h, more, n + 1)
    BY <1>4, <1>5, <1>7
  <2>. QED  BY <1>1, <1>2, <2>1, <2>2 DEF Nested
<1>. QED  BY <1>1, <1>5, <1>7 DEF n, more

\* New thunks change nothing: the lambdas that are applied stay what they are.
LEMMA ScopeGrows ==
    ASSUME NEW pats, NEW h, NEW h2, Grows(h, h2), NEW s, Stack(pats, h, s)
    PROVE  /\ \A n \in 0..Len(s) : Scope(pats, h2, s, n) = Scope(pats, h, s, n)
           /\ Nested(pats, h, s) => Nested(pats, h2, s)
<1>1. \A j \in 1..Len(s) : Opens(pats, h2, s[j]) = Opens(pats, h, s[j])
  BY DEF Stack, FrameFits, Grows, Opens, LambdaKinds
<1>2. Len(s) \in Nat
  BY LenProperties DEF Stack
<1>3. \A n \in 0..Len(s) : \A j \in 1..n : j \in 1..Len(s)
  BY <1>2
<1>4. \A n \in 0..Len(s) : Scope(pats, h2, s, n) = Scope(pats, h, s, n)
  BY <1>1, <1>3 DEF Scope
<1>5. \A n \in 1..Len(s) : n \in 0..Len(s)
  BY <1>2
<1>. QED  BY <1>4, <1>5 DEF Nested

\* What a step does to the graph and the program.
LEMMA StepsGrow ==
    ASSUME IInv, [Next]_vars
    PROVE  Grows(heap, heap') /\ prog' = prog
<1>1. ASSUME StepFits, OthersFit
      PROVE  Grows(heap, heap') /\ prog' = prog
  BY <1>1 DEF StepFits, OthersFit
<1>2. CASE EvalStep
  BY <1>1, <1>2, Eval0Steps, ApplyStepsFit, LambdaStepsFit DEF EvalStep
<1>3. CASE RefStep
  BY <1>1, <1>3, RefStepsFit
<1>4. CASE ChoiceStep
  BY <1>1, <1>4, ChoiceCallsFit, ChoiceReturnsFit DEF ChoiceStep
<1>5. CASE MatchStep
  BY <1>1, <1>5, MatchCallsFit, MatchReturnsFit DEF MatchStep
<1>6. CASE BuiltinStep
  BY <1>1, <1>6, BuiltinCallsFit, BuiltinReturnsFit DEF BuiltinStep
<1>7. CASE Finish \/ Stopped \/ UNCHANGED vars
  BY <1>7 DEF Finish, Step, Stopped, vars, graph, world, Grows
<1>. QED  BY <1>2, <1>3, <1>4, <1>5, <1>6, <1>7 DEF Next

\* What is open after a step that leaves, pushes, pops or replaces the
\* innermost activation.
LEMMA OpenAfter ==
    ASSUME IInv, [Next]_vars, Nested(prog.pats, heap, stack)
    PROVE  /\ stack' = stack => Open' = Open /\ Nested(prog.pats, heap, stack)'
           /\ stack # <<>> =>
                 /\ Open = OpenBelow \cup Opens(prog.pats, heap, Top)
                 /\ stack' = Pop => Open' = OpenBelow /\ Nested(prog.pats, heap, stack)'
           /\ \A f : (f.k \in MatchKinds => Params(prog.pats, f.p) \subseteq Open)
              => (stack' = Append(stack, f)
                     => /\ Open' = Open \cup Opens(prog.pats, heap', f)
                        /\ Nested(prog.pats, heap, stack)')
           /\ \A f : (f.k \in MatchKinds => Params(prog.pats, f.p) \subseteq OpenBelow)
              => (stack # <<>> /\ stack' = Append(Pop, f)
                     => /\ Open' = OpenBelow \cup Opens(prog.pats, heap', f)
                        /\ Nested(prog.pats, heap, stack)')
<1>. DEFINE pats == prog.pats
<1>1. Grows(heap, heap') /\ prog' = prog
  BY StepsGrow
<1>2. Stack(pats, heap, stack) /\ stack \in Seq(Frame)
  BY DEF IInv, Inv, Stack
<1>3. ASSUME NEW s, Stack(pats, heap, s), Nested(pats, heap, s)
      PROVE  /\ s \in Seq(Frame)
             /\ Scope(pats, heap', s, Len(s)) = Scope(pats, heap, s, Len(s))
             /\ Nested(pats, heap', s)
  <2>1. s \in Seq(Frame) /\ Len(s) \in 0..Len(s)
    BY <1>3, LenProperties DEF Stack
  <2>. QED  BY <1>1, <1>3, <2>1, ScopeGrows
<1>4. ASSUME NEW s, Stack(pats, heap, s), Nested(pats, heap, s),
             NEW f, f.k \in MatchKinds =>
                        Params(pats, f.p) \subseteq Scope(pats, heap, s, Len(s))
      PROVE  LET more == Append(s, f)
             IN  /\ Scope(pats, heap', more, Len(more))
                        = Scope(pats, heap, s, Len(s)) \cup Opens(pats, heap', f)
                 /\ Nested(pats, heap', more)
  BY <1>3, <1>4, ScopeAppend
<1>5. ASSUME stack # <<>>
      PROVE  /\ Open = OpenBelow \cup Opens(pats, heap, Top)
             /\ Stack(pats, heap, Pop) /\ Nested(pats, heap, Pop)
  <2>1. Stack(pats, heap, Pop)
    BY <1>2, <1>5, PopFits
  <2>. QED  BY <1>2, <1>5, <2>1, ScopePop DEF Open, OpenBelow, Pop, Top
<1>6. Open' = Scope(pats, heap', stack', Len(stack'))
      /\ (Nested(prog.pats, heap, stack)' <=> Nested(pats, heap', stack'))
  BY <1>1 DEF Open
<1>7. stack' = stack => Open' = Open /\ Nested(pats, heap', stack')
  BY <1>2, <1>3, <1>6 DEF Open
<1>8. stack # <<>> /\ stack' = Pop => Open' = OpenBelow /\ Nested(pats, heap', stack')
  BY <1>3, <1>5, <1>6 DEF OpenBelow
<1>9. \A f : (f.k \in MatchKinds => Params(pats, f.p) \subseteq Open)
             /\ stack' = Append(stack, f)
             => /\ Open' = Open \cup Opens(pats, heap', f)
                /\ Nested(pats, heap', stack')
  BY <1>2, <1>4, <1>6 DEF Open
<1>10. \A f : (f.k \in MatchKinds => Params(pats, f.p) \subseteq OpenBelow)
              /\ stack # <<>> /\ stack' = Append(Pop, f)
              => /\ Open' = OpenBelow \cup Opens(pats, heap', f)
                 /\ Nested(pats, heap', stack')
  BY <1>4, <1>5, <1>6 DEF OpenBelow
<1>. QED  BY <1>5, <1>6, <1>7, <1>8, <1>9, <1>10

\* Bindings that only go, or stay, are no more than were open.
LEMMA FewerBound ==
    ASSUME IInv, prog' = prog,
           bound' = bound \/ \E p \in PatId : ClearBinds(p)
    PROVE  BoundParams' \subseteq BoundParams
<1>1. CASE bound' = bound
  BY <1>1 DEF BoundParams, Pat
<1>2. ASSUME NEW p \in PatId, ClearBinds(p)
      PROVE  BoundParams' \subseteq BoundParams
  BY <1>2 DEF BoundParams, Pat, ClearBinds
<1>. QED  BY <1>1, <1>2

OtherKinds == CalmKinds \cup EffectKinds

\* Activations of other kinds neither open anything nor match.
LEMMA OthersOpenNothing ==
    ASSUME NEW f, f.k \in OtherKinds
    PROVE  f.k \notin MatchKinds /\ \A pats, h : Opens(pats, h, f) = {}
<1>1. f.k \notin MatchKinds /\ f.k \notin LambdaKinds
  BY DEF OtherKinds, CalmKinds, EffectKinds, MatchKinds, LambdaKinds
<1>. QED  BY <1>1 DEF Opens

\* A step that neither matches nor applies a lambda.
LEMMA BindShift ==
    ASSUME IInv, BindInv, [Next]_vars, Shifts(OtherKinds), Unbinding
    PROVE  BindInv'
<1>1. ~Aborted /\ prog' = prog
  BY StepsGrow DEF Shifts, Aborted
<1>2. BoundParams \subseteq Open /\ Nested(prog.pats, heap, stack)
  BY <1>1 DEF BindInv
<1>3. BoundParams' \subseteq BoundParams /\ ctl'.m # "match"
  BY <1>1, FewerBound DEF Unbinding
<1>4. ASSUME stack # <<>>, Top.k \in OtherKinds
      PROVE  Open = OpenBelow
  BY <1>2, <1>4, OpenAfter, OthersOpenNothing
<1>5. Open' = Open /\ Nested(prog.pats, heap, stack)'
  <2>1. CASE stack' = stack
    BY <1>2, <2>1, OpenAfter
  <2>2. CASE stack # <<>> /\ Top.k \in OtherKinds /\ stack' = Pop
    BY <1>2, <1>4, <2>2, OpenAfter
  <2>3. ASSUME NEW f, f.k \in OtherKinds, stack' = Append(stack, f)
        PROVE  Open' = Open /\ Nested(prog.pats, heap, stack)'
    BY <1>2, <2>3, OpenAfter, OthersOpenNothing
  <2>4. ASSUME NEW f, f.k \in OtherKinds,
               stack # <<>>, Top.k \in OtherKinds, stack' = Append(Pop, f)
        PROVE  Open' = Open /\ Nested(prog.pats, heap, stack)'
    BY <1>2, <1>4, <2>4, OpenAfter, OthersOpenNothing
  <2>. QED  BY <2>1, <2>2, <2>3, <2>4 DEF Shifts
<1>. QED  BY <1>2, <1>3, <1>5 DEF BindInv

\* Effects and print are such steps.
LEMMA EffectStepsShift ==
    ASSUME IInv,
           \/ CallEffect \/ EffectFails \/ SeqReturn \/ SeqcReturn \/ ChainReturn \/ BindReturn
           \/ CallPrint \/ PrintReturn
    PROVE  Shifts(OtherKinds) /\ Unbinding
<1>. USE DEF Unbinding
<1>1. {"Effect", "Print", "Result"} \subseteq OtherKinds
  BY DEF OtherKinds, EffectKinds, CalmKinds
<1>2. ASSUME ctl.m = "ret", stack # <<>>, Top.k \in {"Effect", "Print"},
             \/ stack' = Pop
             \/ stack' = Append(Pop, ResultFrame)
      PROVE  Shifts(OtherKinds)
  <2>1. ResultFrame.k \in OtherKinds
    BY <1>1, FrKind DEF ResultFrame
  <2>. QED  BY <1>1, <1>2, <2>1, ShiftsBy
<1>3. CASE CallEffect
  <2>. DEFINE f == Fr("Effect", ctl.a, ctl.args, 0, 0)
              c == Eval0(ctl.args[1])
  <2>1. ctl.m = "apply" /\ Call(stack, f, c) /\ bound' = bound
    BY <1>3 DEF CallEffect, Calling, Applying
  <2>2. f.k \in OtherKinds /\ c.m # "match"
    BY <1>1, FrKind, CallModes
  <2>. HIDE DEF f, c
  <2>. QED  BY <2>1, <2>2, CallsFrom, ShiftsCall
<1>4. CASE EffectFails
  <2>1. stack' = Pop /\ Returned("Effect") /\ ctl'.m # "match" /\ bound' = bound
    BY <1>4, ReturnsTo, CallModes DEF EffectFails, Go
  <2>. QED  BY <1>2, <2>1 DEF Returned
<1>5. CASE SeqReturn
  <2>1. stack' = Pop /\ Returned("Effect") /\ ctl'.m # "match" /\ bound' = bound
    BY <1>5, ReturnsTo DEF SeqReturn, EffectDone
  <2>. QED  BY <1>2, <2>1 DEF Returned
<1>6. CASE SeqcReturn
  <2>1. /\ stack' = Pop /\ Returned("Effect") /\ bound' = bound
        /\ \E c : ctl' = c /\ c.m # "match"
    <3>1. /\ Ret(top + 2).m # "match" /\ Halt("bound").m # "match"
          /\ \A args : Apply(top + 2, args).m # "match"
      BY CallModes
    <3>2. /\ Returned("Effect") /\ bound' = bound
          /\ LET rest == Rest(Top.a, Top.args)
             IN  Go(Pop, IF rest = <<>> THEN Ret(top + 2) ELSE Apply(top + 2, rest))
                 \/ Go(Pop, Halt("bound"))
      BY <1>6 DEF SeqcReturn, EffectDone
    <3>. QED  BY <3>1, <3>2 DEF Go
  <2>. QED  BY <1>2, <2>1 DEF Returned
<1>7. CASE ChainReturn
  <2>1. /\ stack' = Append(Pop, ResultFrame) /\ Returned("Effect")
        /\ ctl'.m # "match" /\ bound' = bound
    BY <1>7, ReturnsTo DEF ChainReturn, EffectDone
  <2>. QED  BY <1>2, <2>1 DEF Returned
<1>8. CASE BindReturn
  <2>1. /\ stack' = Append(Pop, ResultFrame) /\ Returned("Effect")
        /\ ctl'.m # "match" /\ bound' = bound
    BY <1>8, CallModes DEF BindReturn, EffectDone, Go
  <2>. QED  BY <1>2, <2>1 DEF Returned
<1>9. CASE CallPrint
  <2>. DEFINE f == Fr("Print", ctl.a, ctl.args, 0, 0)
              c == Eval0(ctl.args[1])
  <2>1. /\ ctl.m = "apply" /\ bound' = bound
        /\ FinishBuiltin(stack, Null, Rest(ctl.a, ctl.args)) \/ Call(stack, f, c)
    BY <1>9 DEF CallPrint, Calling, Applying
  <2>2. f.k \in OtherKinds /\ c.m # "match"
    BY <1>1, FrKind, CallModes
  <2>. HIDE DEF f, c
  <2>3. CASE Call(stack, f, c)
    BY <2>1, <2>2, <2>3, CallsFrom, ShiftsCall
  <2>4. CASE FinishBuiltin(stack, Null, Rest(ctl.a, ctl.args))
    BY <2>1, <2>4, ReturnsTo, ShiftsBy
  <2>. QED  BY <2>1, <2>3, <2>4
<1>10. CASE PrintReturn
  <2>1. stack' = Pop /\ Returned("Print") /\ ctl'.m # "match" /\ bound' = bound
    BY <1>10, ReturnsTo, CallModes DEF PrintReturn, Go
  <2>. QED  BY <1>2, <2>1 DEF Returned
<1>. QED  BY <1>3, <1>4, <1>5, <1>6, <1>7, <1>8, <1>9, <1>10

-----------------------------------------------------------------------------
(* Applications and matches *)

\* The parameters below a sub-pattern are below the pattern, and the match of a
\* pending pattern is inside the application of its lambda.
LEMMA SubParams ==
    ASSUME IInv, NEW p \in PatId, NEW i \in 1..Len(Pat(p).sub)
    PROVE  /\ Pat(p).sub[i] \in PatId
           /\ Params(prog.pats, Pat(p).sub[i]) \subseteq Params(prog.pats, p)
<1>1. Pat(p) \in Pattern /\ PatternFits(prog, p)
  BY Invariants DEF Pat
<1>2. Pat(p).sub[i] \in PatId
  BY <1>1, ElementOfSeq DEF Pattern
<1>. QED  BY <1>1, <1>2 DEF PatternFits, Params, Pat

\* How many sub-patterns there are.
LEMMA SubCount ==
    ASSUME IInv, NEW p \in PatId
    PROVE  /\ Pat(p).type \in {"AS", "OR"}
              => 1 \in 1..Len(Pat(p).sub) /\ 2 \in 1..Len(Pat(p).sub)
           /\ Pat(p).type = "CARET" => 1 \in 1..Len(Pat(p).sub)
<1>1. PatternFits(prog, p) /\ prog.pats[p] = Pat(p)
  BY Invariants DEF Pat
<1>2. Pat(p).type \in {"AS", "OR"} => Len(Pat(p).sub) = 2
  BY <1>1 DEF PatternFits
<1>3. Pat(p).type = "CARET" => Len(Pat(p).sub) = 1
  BY <1>1 DEF PatternFits
<1>. QED  BY <1>2, <1>3

LEMMA TopParams ==
    ASSUME IInv, BindInv, ~Aborted, stack # <<>>, Top.k \in MatchKinds
    PROVE  Top.p \in PatId /\ Params(prog.pats, Top.p) \subseteq Open
<1>1. Len(stack) \in 1..Len(stack)
  BY PendingEffects, LenProperties, EmptySeq
<1>2. Top.p \in PatId
  BY ResumeFits DEF FrameFits, MatchKinds
<1>. QED  BY <1>1, <1>2 DEF BindInv, Nested, Open, Top

\* A name that is bound is one of its own parameters.
LEMMA Rebound ==
    ASSUME IInv, prog' = prog, NEW p \in PatId, Pat(p).type = "REF",
           NEW v, bound' = [bound EXCEPT ![p] = v]
    PROVE  BoundParams' \subseteq BoundParams \cup Params(prog.pats, p)
<1>1. p \in Pat(p).refs
  BY Invariants DEF PatternFits, Pat
<1>2. \A q \in PatId : q # p => bound'[q] = bound[q]
  BY Invariants
<1>. QED  BY <1>1, <1>2 DEF BoundParams, Params, Pat

\* A return, with what is bound and matched next still open.
LEMMA BindReturns ==
    ASSUME IInv, BindInv, [Next]_vars, ~Aborted,
           stack' = stack \/ (stack # <<>> /\ Top.k \notin LambdaKinds /\ stack' = Pop),
           BoundParams' \subseteq Open,
           ctl'.m = "match" => Params(prog.pats, ctl'.p) \subseteq Open
    PROVE  BindInv'
<1>1. Nested(prog.pats, heap, stack) /\ prog' = prog
  BY StepsGrow DEF BindInv
<1>2. Open' = Open /\ Nested(prog.pats, heap, stack)'
  BY <1>1, OpenAfter DEF Opens
<1>3. ctl'.m = "match" => Params(prog'.pats, ctl'.p) \subseteq Open'
  BY <1>1, <1>2
<1>. QED  BY <1>2, <1>3 DEF BindInv

\* A call, with what is matched next open once the caller is pending.
LEMMA BindCalls ==
    ASSUME IInv, BindInv, [Next]_vars, ~Aborted, UNCHANGED bound,
           NEW s, s = stack \/ (stack # <<>> /\ Top.k \notin LambdaKinds /\ s = Pop),
           NEW f, NEW c, Call(s, f, c),
           f.k \in MatchKinds => Params(prog.pats, f.p) \subseteq Open,
           c.m = "match" =>
               Params(prog.pats, c.p) \subseteq Open \cup Opens(prog.pats, heap', f)
    PROVE  BindInv'
<1>1. Nested(prog.pats, heap, stack) /\ prog' = prog /\ BoundParams \subseteq Open
  BY StepsGrow DEF BindInv
<1>2. BoundParams' \subseteq Open
  BY <1>1, FewerBound
<1>3. CASE ctl' = Halt("bound")
  <2>1. Aborted'
    BY <1>3 DEF Halt, C, Aborted
  <2>. QED  BY <2>1 DEF BindInv
<1>4. CASE ctl' = c /\ stack' = Append(s, f)
  <2>1. Open' = Open \cup Opens(prog.pats, heap', f) /\ Nested(prog.pats, heap, stack)'
    <3>1. CASE s = stack
      BY <1>1, <1>4, <3>1, OpenAfter
    <3>2. CASE stack # <<>> /\ Top.k \notin LambdaKinds /\ s = Pop
      <4>1. Open = OpenBelow
        BY <1>1, <3>2, OpenAfter DEF Opens
      <4>. QED  BY <1>1, <1>4, <3>2, <4>1, OpenAfter
    <3>. QED  BY <3>1, <3>2
  <2>2. ctl'.m = "match" => Params(prog'.pats, ctl'.p) \subseteq Open'
    BY <1>1, <1>4, <2>1
  <2>. QED  BY <1>2, <2>1, <2>2 DEF BindInv
<1>. QED  BY <1>3, <1>4, CallsFrom

\* Applications: what lambda ctl.a may bind is open until its body returns,
\* and is cleared then.
LEMMA BindLambda ==
    ASSUME IInv, BindInv, [Next]_vars, EvalLambda \/ LambdaMismatch \/ LambdaBody \/ LambdaReturn
    PROVE  BindInv'
<1>1. ~Aborted /\ prog' = prog
  BY StepsGrow
     DEF Aborted, EvalLambda, Applying, LambdaMismatch, LambdaBody, MatchReturned,
         LambdaReturn, Returned
<1>2. BoundParams \subseteq Open /\ Nested(prog.pats, heap, stack)
  BY <1>1 DEF BindInv
<1>3. CASE EvalLambda
  <2>. DEFINE f == Fr("Match", ctl.a, ctl.args, 0, 0)
              c == Match(ctl.args[1], Param(ctl.a))
  <2>1. Call(stack, f, c) /\ bound' = bound /\ heap' = heap
    BY <1>3 DEF EvalLambda, Push, graph
  <2>2. f.k = "Match" /\ f.a = ctl.a /\ c.p = Param(ctl.a)
    BY FrKind, CallModes
  <2>. HIDE DEF f, c
  <2>3. f.k \notin MatchKinds
    BY <2>2 DEF MatchKinds
  <2>4. Params(prog.pats, c.p) \subseteq Opens(prog.pats, heap', f)
    BY <2>1, <2>2 DEF Params, Opens, LambdaKinds, Param
  <2>. QED  BY <1>1, <2>1, <2>3, <2>4, BindCalls
<1>4. CASE LambdaMismatch \/ LambdaReturn
  <2>1. /\ stack # <<>> /\ Top.k \in LambdaKinds /\ stack' = Pop
        /\ ctl'.m # "match" /\ ClearBinds(Param(Top.a))
    BY <1>4, ReturnsTo, CallModes
       DEF LambdaMismatch, MatchReturned, LambdaReturn, Returned, LambdaKinds, Go
  <2>2. Opens(prog.pats, heap, Top) = Pat(Param(Top.a)).refs
    BY <2>1 DEF Opens, Param, Pat
  <2>3. BoundParams' \subseteq BoundParams \ Pat(Param(Top.a)).refs
    BY <1>1, <2>1 DEF ClearBinds, BoundParams, Pat
  <2>4. Open = OpenBelow \cup Opens(prog.pats, heap, Top)
        /\ Open' = OpenBelow /\ Nested(prog.pats, heap, stack)'
    BY <1>2, <2>1, OpenAfter
  <2>5. BoundParams' \subseteq Open'
    BY <1>2, <2>2, <2>3, <2>4
  <2>. QED  BY <2>1, <2>4, <2>5 DEF BindInv
<1>5. CASE LambdaBody
  <2>. DEFINE f == [Top EXCEPT !.k = "Body"]
              c == Eval(Body(Top.a), Drop(Top.args, 1))
  <2>1. /\ stack # <<>> /\ Top.k = "Match" /\ Call(Pop, f, c)
        /\ bound' = bound /\ heap' = heap
    BY <1>5 DEF LambdaBody, MatchReturned, Push, graph
  <2>2. f.k = "Body" /\ f.a = Top.a /\ c.m # "match"
    BY <2>1, ResumeFits, CallModes DEF Frame
  <2>. HIDE DEF f, c
  <2>3. CASE ctl' = Halt("bound")
    <3>1. Aborted'
      BY <2>3 DEF Halt, C, Aborted
    <3>. QED  BY <3>1 DEF BindInv
  <2>4. CASE ctl' = c /\ stack' = Append(Pop, f)
    <3>1. f.k \notin MatchKinds
          /\ Opens(prog.pats, heap', f) = Opens(prog.pats, heap, Top)
      BY <2>1, <2>2 DEF MatchKinds, Opens, LambdaKinds
    <3>2. Open' = Open /\ Nested(prog.pats, heap, stack)'
      BY <1>2, <2>1, <2>4, <3>1, OpenAfter
    <3>3. BoundParams' \subseteq Open'
      BY <1>1, <1>2, <2>1, <3>2, FewerBound
    <3>. QED  BY <2>2, <2>4, <3>2, <3>3 DEF BindInv
  <2>. QED  BY <2>1, <2>3, <2>4, CallsFrom
<1>. QED  BY <1>3, <1>4, <1>5

\* A let binding is matched on its own: none of its names is a parameter.
LEMMA BindLet ==
    ASSUME IInv, BindInv, [Next]_vars, RefBind
    PROVE  BindInv'
<1>. DEFINE q == Pat(heap[ctl.a].num)
            f == Fr("BindMatch", Null, ctl.args, heap[ctl.a].num, 0)
            c == Match(q.rhs, q.root)
<1>1. /\ ctl.m = "apply" /\ heap[ctl.a].type = "REF" /\ heap[ctl.a].num # 0
      /\ q.org = "BIND" /\ Call(stack, f, c) /\ bound' = bound
  BY DEF RefBind, RefUnbound, Applying
<1>2. f.k = "BindMatch" /\ c.p = q.root
  BY FrKind, CallModes
<1>3. ctl.a \in Addr
  BY <1>1, Invariants DEF ControlFits
<1>4. heap[ctl.a].num \in PatId
  BY <1>1, <1>3, Invariants, BoundsAssumption DEF ThunkFits, PatId
<1>5. Params(prog.pats, q.root) = {}
  BY <1>1, <1>4, Invariants DEF PatternFits, Params, Pat
<1>. HIDE DEF f, c
<1>6. f.k \notin MatchKinds /\ ~Aborted
  BY <1>1, <1>2 DEF MatchKinds, Aborted
<1>. QED  BY <1>1, <1>2, <1>5, <1>6, BindCalls

\* Matching binds only parameters of the pattern it was called with.
LEMMA BindMatchCalls ==
    ASSUME IInv, BindInv, [Next]_vars,
           \/ MatchRef \/ MatchWildcard \/ MatchLiteral
           \/ MatchAlge \/ MatchAs \/ MatchOr \/ MatchCaret
    PROVE  BindInv'
<1>1. /\ ctl.m = "match" /\ ctl.p \in PatId /\ ~Aborted /\ prog' = prog
  <2>1. ctl.m = "match"
    BY DEF MatchRef, MatchWildcard, MatchLiteral, MatchAlge, MatchAs, MatchOr, MatchCaret, Matching
  <2>. QED  BY <2>1, Invariants, StepsGrow DEF ControlFits, Aborted
<1>2. Params(prog.pats, ctl.p) \subseteq Open /\ BoundParams \subseteq Open
  BY <1>1 DEF BindInv
<1>3. CASE MatchRef
  <2>1. /\ stack' = stack /\ ctl'.m # "match" /\ Pat(ctl.p).type = "REF"
        /\ bound' = bound \/ bound' = [bound EXCEPT ![ctl.p] = ctl.a]
    BY <1>3, CallModes DEF MatchRef, Matching, Go
  <2>2. BoundParams' \subseteq Open
    BY <1>1, <1>2, <2>1, Rebound, FewerBound
  <2>. QED  BY <1>1, <2>1, <2>2, BindReturns
<1>4. CASE MatchWildcard \/ MatchLiteral
  <2>1. stack' = stack /\ ctl'.m # "match" /\ bound' = bound
    BY <1>4, CallModes DEF MatchWildcard, MatchLiteral, Matching, Step, Go
  <2>. QED  BY <1>1, <1>2, <2>1, FewerBound, BindReturns
<1>5. CASE MatchAlge \/ MatchCaret
  <2>1. PICK k \in MatchKinds : Call(stack, Fr(k, Null, <<>>, ctl.p, 0), Eval0(ctl.a))
    BY <1>5 DEF MatchAlge, MatchCaret, Matching, Push, MatchKinds
  <2>2. bound' = bound
    BY <1>5 DEF MatchAlge, MatchCaret, Push
  <2>. DEFINE f == Fr(k, Null, <<>>, ctl.p, 0)
              c == Eval0(ctl.a)
  <2>3. f.p = ctl.p /\ c.m # "match"
    BY FrKind, CallModes
  <2>4. Call(stack, f, c)
    BY <2>1
  <2>. HIDE DEF f, c
  <2>. QED  BY <1>1, <1>2, <2>2, <2>3, <2>4, BindCalls
<1>6. CASE MatchAs \/ MatchOr
  <2>1. PICK k \in MatchKinds, i \in {1, 2} :
            Call(stack, Fr(k, ctl.a, <<>>, ctl.p, 0), Match(ctl.a, Pat(ctl.p).sub[i]))
    BY <1>6 DEF MatchAs, MatchOr, Matching, Push, MatchKinds
  <2>2. bound' = bound /\ Pat(ctl.p).type \in {"AS", "OR"}
    BY <1>6 DEF MatchAs, MatchOr, Matching, Push
  <2>. DEFINE f == Fr(k, ctl.a, <<>>, ctl.p, 0)
              c == Match(ctl.a, Pat(ctl.p).sub[i])
  <2>3. f.p = ctl.p /\ c.p = Pat(ctl.p).sub[i]
    BY FrKind, CallModes
  <2>4. Call(stack, f, c)
    BY <2>1
  <2>5. i \in 1..Len(Pat(ctl.p).sub)
    BY <1>1, <2>2, SubCount
  <2>. HIDE DEF f, c
  <2>6. Params(prog.pats, c.p) \subseteq Open
    BY <1>1, <1>2, <2>3, <2>5, SubParams
  <2>. QED  BY <1>1, <1>2, <2>2, <2>3, <2>4, <2>6, BindCalls
<1>. QED  BY <1>3, <1>4, <1>5, <1>6

LEMMA BindMatchReturns ==
    ASSUME IInv, BindInv, [Next]_vars,
           \/ MatchAlgeHead \/ MatchAlgeArg \/ MatchAsReturn \/ MatchOrReturn \/ MatchCaretReturn
    PROVE  BindInv'
<1>1. /\ ctl.m # "halt" /\ stack # <<>> /\ Top.k \in MatchKinds
  BY DEF MatchAlgeHead, MatchAlgeArg, MatchAsReturn, MatchOrReturn, MatchCaretReturn,
         Returned, MatchReturned, MatchKinds
<1>2. /\ ~Aborted /\ prog' = prog /\ Top.k \notin LambdaKinds
      /\ Top.p \in PatId /\ Params(prog.pats, Top.p) \subseteq Open
      /\ BoundParams \subseteq Open
  <2>1. ~Aborted /\ prog' = prog /\ Top.k \notin LambdaKinds
    BY <1>1, StepsGrow DEF Aborted, MatchKinds, LambdaKinds
  <2>. QED  BY <1>1, <2>1, TopParams DEF BindInv
<1>. DEFINE q == Pat(Top.p)
<1>3. \A i \in 1..Len(q.sub) : Params(prog.pats, q.sub[i]) \subseteq Open
  BY <1>2, SubParams
<1>4. Top \in Frame /\ FrameFits(prog.pats, heap, Top)
  BY <1>1, ResumeFits
<1>5. CASE MatchAlgeHead
  <2>. DEFINE f == Fr("AlgeArg", ctl.a, <<>>, Top.p, 1)
              c == Match(heap[ctl.a].kids[1], q.sub[1])
  <2>1. /\ bound' = bound
        /\ \/ stack' = Pop /\ ctl'.m # "match"
           \/ q.sub # <<>> /\ Call(Pop, f, c)
    BY <1>5, CallModes DEF MatchAlgeHead, Go
  <2>2. CASE stack' = Pop /\ ctl'.m # "match"
    BY <1>1, <1>2, <2>1, <2>2, FewerBound, BindReturns
  <2>3. CASE q.sub # <<>> /\ Call(Pop, f, c)
    <3>1. f.p = Top.p /\ c.p = q.sub[1]
      BY FrKind, CallModes
    <3>2. 1 \in 1..Len(q.sub)
      <4>1. q.sub \in Seq(PatId)
        BY <1>2, Invariants DEF Pat, Pattern
      <4>. QED  BY <2>3, <4>1, LenProperties, EmptySeq
    <3>3. Call(Pop, f, c)
      BY <2>3
    <3>. HIDE DEF f, c
    <3>4. Params(prog.pats, c.p) \subseteq Open
      BY <1>3, <3>1, <3>2
    <3>. QED  BY <1>1, <1>2, <2>1, <3>1, <3>3, <3>4, BindCalls
  <2>. QED  BY <2>1, <2>2, <2>3
<1>6. CASE MatchAlgeArg
  <2>. DEFINE n == Top.i + 1
              f == [Top EXCEPT !.i = n]
              c == Match(Kids(Top.a)[n], q.sub[n])
  <2>1. /\ bound' = bound
        /\ \/ stack' = Pop /\ ctl'.m # "match"
           \/ n <= Len(q.sub) /\ Call(Pop, f, c)
    BY <1>6, CallModes DEF MatchAlgeArg, Go
  <2>2. CASE stack' = Pop /\ ctl'.m # "match"
    BY <1>1, <1>2, <2>1, <2>2, FewerBound, BindReturns
  <2>3. CASE n <= Len(q.sub) /\ Call(Pop, f, c)
    <3>1. f.p = Top.p /\ c.p = q.sub[n]
      BY <1>4, CallModes DEF Frame
    <3>2. n \in 1..Len(q.sub)
      <4>1. q.sub \in Seq(PatId)
        BY <1>2, Invariants DEF Pat, Pattern
      <4>. QED  BY <1>4, <2>3, <4>1, LenProperties DEF Frame
    <3>3. Call(Pop, f, c)
      BY <2>3
    <3>. HIDE DEF f, c
    <3>4. Params(prog.pats, c.p) \subseteq Open
      BY <1>3, <3>1, <3>2
    <3>. QED  BY <1>1, <1>2, <2>1, <3>1, <3>3, <3>4, BindCalls
  <2>. QED  BY <2>1, <2>2, <2>3
<1>7. CASE MatchAsReturn \/ MatchOrReturn
  <2>1. q.type \in {"AS", "OR"}
    BY <1>4, <1>7 DEF MatchAsReturn, MatchOrReturn, MatchReturned, FrameFits, Pat
  <2>2. 1 \in 1..Len(q.sub) /\ 2 \in 1..Len(q.sub)
    BY <1>2, <2>1, SubCount
  <2>3. /\ Matched(FALSE).m # "match" /\ Matched(TRUE).m # "match"
        /\ Match(Top.a, q.sub[1]).p = q.sub[1] /\ Match(Top.a, q.sub[2]).p = q.sub[2]
    BY CallModes
  <2>4. /\ stack' = Pop
        /\ \/ ctl'.m # "match"
           \/ ctl'.p \in {q.sub[1], q.sub[2]}
        /\ bound' = bound \/ ClearBinds(q.sub[1])
    <3>1. CASE MatchAsReturn
      <4>1. Step(Pop, Matched(FALSE)) \/ Step(Pop, Match(Top.a, q.sub[1]))
        BY <3>1 DEF MatchAsReturn
      <4>2. /\ stack' = Pop /\ bound' = bound
            /\ ctl' = Matched(FALSE) \/ ctl' = Match(Top.a, q.sub[1])
        BY <4>1 DEF Step, Go
      <4>. QED  BY <4>2, <2>3
    <3>2. CASE MatchOrReturn
      <4>1. \/ Go(Pop, Matched(TRUE)) /\ bound' = bound
            \/ ClearBinds(q.sub[1]) /\ Go(Pop, Match(Top.a, q.sub[2]))
        BY <3>2 DEF MatchOrReturn
      <4>2. /\ stack' = Pop
            /\ bound' = bound \/ ClearBinds(q.sub[1])
            /\ ctl' = Matched(TRUE) \/ ctl' = Match(Top.a, q.sub[2])
        BY <4>1 DEF Go
      <4>. QED  BY <4>2, <2>3
    <3>. QED  BY <1>7, <3>1, <3>2
  <2>5. BoundParams' \subseteq Open
    BY <1>2, <2>2, <2>4, SubParams, FewerBound
  <2>6. ctl'.m = "match" => Params(prog.pats, ctl'.p) \subseteq Open
    BY <1>3, <2>2, <2>4
  <2>. QED  BY <1>1, <1>2, <2>4, <2>5, <2>6, BindReturns
<1>8. CASE MatchCaretReturn
  <2>1. 1 \in 1..Len(q.sub)
    <3>1. q.type = "CARET"
      BY <1>4, <1>8 DEF MatchCaretReturn, Returned, FrameFits, Pat
    <3>. QED  BY <1>2, <3>1, SubCount
  <2>2. /\ stack' = Pop /\ ctl'.m # "match"
        /\ \/ bound' = bound
           \/ Pat(q.sub[1]).type = "REF"
              /\ \E v : bound' = [bound EXCEPT ![q.sub[1]] = v]
    BY <1>8, CallModes DEF MatchCaretReturn, Go
  <2>3. q.sub[1] \in PatId /\ Params(prog.pats, q.sub[1]) \subseteq Open
    BY <1>2, <1>3, <2>1, SubParams
  <2>4. BoundParams' \subseteq Open
    BY <1>2, <2>2, <2>3, Rebound, FewerBound
  <2>. QED  BY <1>1, <1>2, <2>2, <2>4, BindReturns
<1>. QED  BY <1>5, <1>6, <1>7, <1>8

LEMMA BindNext ==
    ASSUME IInv, BindInv, [Next]_vars
    PROVE  BindInv'
<1>. DEFINE Calm == Shifts(CalmKinds) /\ Unbinding
            Halts == UNCHANGED vars
<1>1. Calm => BindInv'
  <2>1. CalmKinds \subseteq OtherKinds
    BY DEF OtherKinds
  <2>. QED  BY <2>1, ShiftsMore, BindShift
<1>2. Halts => BindInv'
  BY DEF vars, BindInv, Aborted, BoundParams, Open, Nested, Scope, Opens, Params, Pat
<1>. HIDE DEF Calm
<1>3. CASE EvalStep
  <2>1. Calm \/ EvalLambda \/ LambdaMismatch \/ LambdaBody \/ LambdaReturn
    BY <1>3, CalmEvalSteps DEF EvalStep, Calm
  <2>. QED  BY <1>1, <2>1, BindLambda
<1>4. CASE RefStep
  <2>1. Calm \/ RefBind
    BY <1>4, CalmRefSteps DEF RefStep, Calm
  <2>. QED  BY <1>1, <2>1, BindLet
<1>5. CASE ChoiceStep
  BY <1>1, <1>5, CalmChoiceSteps DEF Calm
<1>6. CASE MatchStep
  BY <1>6, BindMatchCalls, BindMatchReturns DEF MatchStep
<1>7. CASE BuiltinStep
  <2>1. Calm \/ (Shifts(OtherKinds) /\ Unbinding)
    BY <1>7, CalmBuiltinSteps, EffectStepsShift DEF BuiltinStep, Calm
  <2>. QED  BY <1>1, <2>1, BindShift
<1>8. CASE Finish
  BY <1>1, <1>8, CalmFinish DEF Calm
<1>9. CASE Stopped \/ UNCHANGED vars
  BY <1>2, <1>9 DEF Stopped
<1>. QED  BY <1>3, <1>4, <1>5, <1>6, <1>7, <1>8, <1>9 DEF Next

\* A parameter is bound only while its lambda is applied, in every program:
\* no way out of an application leaves the shared binding behind.
THEOREM BindingsAreScoped == Spec => []BindsScoped
<1>1. Init => BindInv
  <2>1. ASSUME Init
        PROVE  BoundParams = {} /\ ctl.m # "match" /\ Len(stack) = 0
    BY <2>1, CallModes DEF Init, BoundParams
  <2>. QED  BY <2>1 DEF BindInv, Nested
<1>2. IInv /\ BindInv /\ [Next]_vars => BindInv'
  BY BindNext
<1>3. ASSUME BindInv
      PROVE  BindsScoped
  <2>1. ASSUME NEW q \in PatId, Pat(q).org = "LAMBDA", bound[q] # Null, ~Aborted
        PROVE  \E i \in 1..Len(stack) :
                   stack[i].k \in LambdaKinds /\ q \in Pat(Param(stack[i].a)).refs
    <3>1. q \in Open
      BY <1>3, <2>1 DEF BindInv, BoundParams
    <3>. QED  BY <3>1 DEF Open, Scope, Opens, Pat, Param
  <2>. QED  BY <2>1 DEF BindsScoped, LambdaKinds
<1>. QED  BY <1>1, <1>2, <1>3, InvHolds, PTL DEF Spec
=============================================================================
