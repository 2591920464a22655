------------------------ MODULE PreludePluginProofs ------------------------
(***************************************************************************)
(* What is proved about PreludePlugin for all sessions, disks and          *)
(* programs: a library is initialised once, effects happen in their        *)
(* places, nothing that is bound is bound anew, nothing refers to a thunk  *)
(* that is not there, and the environment is what the imports made it.     *)
(***************************************************************************)
EXTENDS PreludePlugin, SharedLemmas, TLAPS, SequenceTheorems, FiniteSetTheorems

\* A sequence of anything.
IsSeq(s) == \E S : s \in Seq(S)

LEMMA SeqOf ==
    ASSUME NEW s, IsSeq(s)
    PROVE  Len(s) \in Nat /\ DOMAIN s = 1..Len(s)
<1>1. PICK S : s \in Seq(S)
  BY DEF IsSeq
<1>. QED  BY <1>1, LenProperties

LEMMA SeqAppend ==
    ASSUME NEW s, IsSeq(s), NEW e
    PROVE  /\ IsSeq(Append(s, e))
           /\ Len(Append(s, e)) = Len(s) + 1
           /\ \A i \in 1..Len(s) : Append(s, e)[i] = s[i]
           /\ Append(s, e)[Len(s) + 1] = e
<1>1. PICK S : s \in Seq(S)
  BY DEF IsSeq
<1>2. s \in Seq(S \cup {e}) /\ e \in S \cup {e}
  BY <1>1
<1>3. Append(s, e) \in Seq(S \cup {e})
  BY <1>2, AppendProperties
<1>. QED  BY <1>2, <1>3, AppendProperties DEF IsSeq

LEMMA SeqFront ==
    ASSUME NEW s, IsSeq(s), s # <<>>
    PROVE  /\ Len(s) \in Nat /\ Len(s) > 0
           /\ IsSeq(SubSeq(s, 1, Len(s) - 1))
           /\ Len(SubSeq(s, 1, Len(s) - 1)) = Len(s) - 1
           /\ \A i \in 1..(Len(s) - 1) : SubSeq(s, 1, Len(s) - 1)[i] = s[i]
<1>1. PICK S : s \in Seq(S)
  BY DEF IsSeq
<1>2. Len(s) \in Nat /\ Len(s) > 0
  BY <1>1, EmptySeq, LenProperties
<1>3. PICK n \in Nat : Len(s) = n + 1
  BY <1>2
<1>4. \A i \in 1..n : s[i] \in S
  BY <1>1, <1>3, ElementOfSeq
<1>5. /\ SubSeq(s, 1, n) \in Seq(S)
      /\ Len(SubSeq(s, 1, n)) = IF 1 <= n THEN n - 1 + 1 ELSE 0
      /\ \A i \in 1..(n - 1 + 1) : SubSeq(s, 1, n)[i] = s[1 + i - 1]
  BY <1>4, SubSeqProperties
<1>6. \A p : Len(p) = (IF 1 <= n THEN n - 1 + 1 ELSE 0)
                /\ (\A i \in 1..(n - 1 + 1) : p[i] = s[1 + i - 1])
            => Len(p) = n /\ \A i \in 1..n : p[i] = s[i]
  OBVIOUS
<1>7. Len(s) - 1 = n
  BY <1>3
<1>. QED  BY <1>2, <1>5, <1>6, <1>7 DEF IsSeq

LEMMA SeqConcat ==
    ASSUME NEW s, IsSeq(s), NEW r, IsSeq(r)
    PROVE  /\ IsSeq(s \o r)
           /\ Len(s \o r) = Len(s) + Len(r)
           /\ \A i \in 1..Len(s) : (s \o r)[i] = s[i]
<1>1. PICK S : s \in Seq(S)
  BY DEF IsSeq
<1>2. PICK R : r \in Seq(R)
  BY DEF IsSeq
<1>3. s \in Seq(S \cup R) /\ r \in Seq(S \cup R)
  BY <1>1, <1>2
<1>4. s \o r \in Seq(S \cup R)
  BY <1>3, ConcatProperties
<1>5. Len(s) \in Nat /\ Len(r) \in Nat
  BY <1>1, <1>2, LenProperties
<1>. QED  BY <1>3, <1>4, <1>5, ConcatProperties DEF IsSeq

-----------------------------------------------------------------------------
(* A library is initialised once *)

\* What is kept is in the cache, and what is in the cache is not initialised
\* again.
LoadInv ==
    /\ IsSeq(inits)
    /\ \A i \in DOMAIN inits : inits[i].kept => inits[i].name \in DOMAIN cache
    /\ LoadedOnce

LEMMA LoadInvInit == Init => LoadInv
<1>1. <<>> \in Seq({}) /\ DOMAIN <<>> = {}
  OBVIOUS
<1>. QED  BY <1>1 DEF Init, LoadInv, LoadedOnce, IsSeq

\* An init function runs, of a library the cache does not have.
LEMMA InitRuns ==
    ASSUME LoadInv, NEW e, inits' = Append(inits, e), e.name = ctl.name, ~Cached,
           DOMAIN cache \subseteq DOMAIN cache', e.kept => e.name \in DOMAIN cache'
    PROVE  LoadInv'
<1>. DEFINE n == Len(inits)
<1>1. n \in Nat /\ DOMAIN inits = 1..n
  BY SeqOf DEF LoadInv
<1>2. /\ IsSeq(inits') /\ Len(inits') = n + 1
      /\ \A i \in 1..n : inits'[i] = inits[i]
      /\ inits'[n + 1] = e
  BY SeqAppend DEF LoadInv
<1>3. DOMAIN inits' = 1..(n + 1)
  BY <1>2, SeqOf
<1>4. \A i \in 1..n : inits[i].kept => inits[i].name \in DOMAIN cache
  BY <1>1 DEF LoadInv
<1>5. \A i \in DOMAIN inits' : inits'[i].kept => inits'[i].name \in DOMAIN cache'
  BY <1>1, <1>2, <1>3, <1>4
<1>6. ASSUME NEW i \in DOMAIN inits', NEW j \in DOMAIN inits', i < j, inits'[i].kept
      PROVE  inits'[j].name # inits'[i].name
  <2>1. i \in 1..n /\ inits'[i] = inits[i]
    BY <1>1, <1>2, <1>3, <1>6
  <2>2. CASE j \in 1..n
    BY <1>1, <1>2, <1>6, <2>1, <2>2 DEF LoadInv, LoadedOnce
  <2>3. CASE j = n + 1
    <3>1. inits[i].name \in DOMAIN cache
      BY <1>4, <1>6, <2>1
    <3>2. inits'[j].name = ctl.name
      BY <1>2, <2>3
    <3>. QED  BY <2>1, <3>1, <3>2 DEF Cached
  <2>. QED  BY <1>1, <1>3, <2>2, <2>3
<1>7. LoadedOnce'
  BY <1>6 DEF LoadedOnce
<1>. QED  BY <1>2, <1>5, <1>7 DEF LoadInv

LEMMA LoadInvNext == LoadInv /\ [Next]_vars => LoadInv'
<1>. SUFFICES ASSUME LoadInv, [Next]_vars PROVE LoadInv'
  OBVIOUS
<1>1. CASE UNCHANGED library
  BY <1>1 DEF LoadInv, LoadedOnce, library
<1>2. CASE LoadRejected
  <2>1. ~Cached /\ UNCHANGED cache
    BY <1>2 DEF LoadRejected, Found
  <2>2. inits' = Append(inits, [name |-> ctl.name, kept |-> FALSE])
    BY <1>2 DEF LoadRejected
  <2>. QED  BY <2>1, <2>2, InitRuns
<1>3. CASE LoadKept
  <2>1. ~Cached
    BY <1>3 DEF LoadKept, Found
  <2>2. inits' = Append(inits, [name |-> ctl.name, kept |-> TRUE])
    BY <1>3 DEF LoadKept
  <2>3. DOMAIN cache' = DOMAIN cache \cup {ctl.name}
    BY <1>3 DEF LoadKept, Remember
  <2>. QED  BY <2>1, <2>2, <2>3, InitRuns
<1>4. ASSUME Evaluate PROVE UNCHANGED library
  BY <1>4 DEF Evaluate, EvalKnown, EvalValue, EvalConstructor, EvalApplication, EvalLambda,
     EvalReference, EvalMember, EvalDenied, EvalPartial, EvalAtOnce, EvalHandler, quiet
<1>5. ASSUME Return PROVE UNCHANGED library
  BY <1>5 DEF Return, ReturnMemo, ReturnConv, ReturnThen, ReturnPick, ReturnTop, quiet
<1>6. ASSUME Handle PROVE UNCHANGED library
  BY <1>6 DEF Handle, Refuse, Dispatch, DispatchEnv, Lookup, Members, Literal, Continue,
     PrintLine, Exit, Compare, Import, ImportNothing, CallLoader, quiet
<1>7. ASSUME LoadCached \/ LoadDenied \/ LoadFails PROVE UNCHANGED library
  BY <1>7 DEF LoadCached, LoadDenied, LoadFails, quiet
<1>8. ASSUME Start \/ ChangeDisk \/ UNCHANGED vars PROVE UNCHANGED library
  BY <1>8 DEF Start, ChangeDisk, vars, library
<1>. QED  BY <1>1, <1>2, <1>3, <1>4, <1>5, <1>6, <1>7, <1>8 DEF Next, Step, LoadLibrary

\* No init function of a library runs again once its namespace was kept,
\* whatever programs run and whatever the directories come to hold.
THEOREM InitialisedOnce == Spec => []LoadedOnce
<1>1. LoadInv => LoadedOnce
  BY DEF LoadInv
<1>. QED  BY <1>1, LoadInvInit, LoadInvNext, PTL DEF Spec

-----------------------------------------------------------------------------
(* The stack and the depth of effects *)

Placed(st) == {i \in DOMAIN st : Enables(st[i])}

\* Whoever has passed the guard stands above a frame that enables effects.
Guarded(st) ==
    \A i \in DOMAIN st : st[i].f = "act" => \E j \in DOMAIN st : j < i /\ Enables(st[j])

\* A stack st and a depth d that fit, when b says whether effects are strict.
Sound(b, st, d) ==
    /\ IsSeq(st)
    /\ \A i \in DOMAIN st : IsSeq(st[i].vals)
    /\ b => d = Cardinality(Placed(st)) /\ Guarded(st)

LEMMA PlacedFinite ==
    ASSUME NEW st, IsSeq(st)
    PROVE  IsFiniteSet(Placed(st)) /\ Cardinality(Placed(st)) \in Nat
<1>1. IsFiniteSet(1..Len(st))
  BY SeqOf, FS_Interval
<1>2. Placed(st) \in SUBSET (1..Len(st))
  BY SeqOf DEF Placed
<1>3. IsFiniteSet(Placed(st))
  BY <1>1, <1>2, FS_Subset
<1>. QED  BY <1>3, FS_CardinalityType

\* Effects are allowed when some frame enables them.
LEMMA AllowedBelow ==
    ASSUME NEW st, NEW d, Sound(TRUE, st, d), d > 0
    PROVE  \E i \in DOMAIN st : Enables(st[i])
<1>1. d = Cardinality(Placed(st))
  BY DEF Sound
<1>2. Placed(st) # {}
  BY <1>1, FS_EmptySet
<1>. QED  BY <1>2 DEF Placed

\* A frame is pushed.
LEMMA Entered ==
    ASSUME NEW b \in BOOLEAN, NEW st, NEW d, Sound(b, st, d), NEW fr, IsSeq(fr.vals),
           b /\ fr.f = "act" => d > 0
    PROVE  Sound(b, Append(st, fr), IF b /\ Enables(fr) THEN d + 1 ELSE d)
<1>. DEFINE n == Len(st)
            s2 == Append(st, fr)
<1>1. n \in Nat /\ DOMAIN st = 1..n
  BY SeqOf DEF Sound
<1>2. /\ IsSeq(s2) /\ DOMAIN s2 = 1..(n + 1)
      /\ \A i \in 1..n : s2[i] = st[i]
      /\ s2[n + 1] = fr
  BY SeqAppend, SeqOf DEF Sound
<1>3. \A i \in DOMAIN s2 : IsSeq(s2[i].vals)
  BY <1>1, <1>2 DEF Sound
<1>4. ASSUME b
      PROVE  (IF b /\ Enables(fr) THEN d + 1 ELSE d) = Cardinality(Placed(s2)) /\ Guarded(s2)
  <2>1. d = Cardinality(Placed(st)) /\ Guarded(st)
    BY <1>4 DEF Sound
  <2>2. IsFiniteSet(Placed(st)) /\ n + 1 \notin Placed(st)
    BY <1>1, PlacedFinite DEF Placed, Sound
  <2>3. CASE Enables(fr)
    <3>1. Placed(s2) = Placed(st) \cup {n + 1}
      BY <1>1, <1>2, <2>3 DEF Placed
    <3>2. Cardinality(Placed(st) \cup {n + 1}) = d + 1
      BY <2>1, <2>2, FS_AddElement
    <3>3. fr.f # "act"
      BY <2>3 DEF Enables
    <3>4. Guarded(s2)
      BY <1>1, <1>2, <2>1, <3>3 DEF Guarded
    <3>. QED  BY <1>4, <2>3, <3>1, <3>2, <3>4
  <2>4. CASE ~Enables(fr)
    <3>1. Placed(s2) = Placed(st)
      BY <1>1, <1>2, <2>4 DEF Placed
    <3>2. fr.f = "act" => \E j \in 1..n : Enables(st[j])
      <4>1. Sound(TRUE, st, d)
        BY <1>4 DEF Sound
      <4>. QED  BY <1>1, <1>4, <4>1, AllowedBelow
    <3>3. Guarded(s2)
      BY <1>1, <1>2, <2>1, <3>2 DEF Guarded
    <3>. QED  BY <2>1, <2>4, <3>1, <3>3
  <2>. QED  BY <2>3, <2>4
<1>. QED  BY <1>2, <1>3, <1>4 DEF Sound

\* The frame on top is popped.
LEMMA Left ==
    ASSUME NEW b \in BOOLEAN, NEW st, NEW d, Sound(b, st, d), st # <<>>
    PROVE  /\ Sound(b, SubSeq(st, 1, Len(st) - 1),
                    IF b /\ Enables(st[Len(st)]) THEN d - 1 ELSE d)
           /\ b /\ Enables(st[Len(st)]) => d \in Nat /\ d > 0
<1>. DEFINE n == Len(st)
            s2 == SubSeq(st, 1, n - 1)
<1>1. n \in Nat /\ n > 0 /\ DOMAIN st = 1..n
  BY SeqOf, SeqFront DEF Sound
<1>2. /\ IsSeq(s2) /\ Len(s2) = n - 1
      /\ \A i \in 1..(n - 1) : s2[i] = st[i]
  BY SeqFront DEF Sound
<1>3. DOMAIN s2 = 1..(n - 1)
  BY <1>2, SeqOf
<1>4. \A i \in DOMAIN s2 : IsSeq(s2[i].vals)
  BY <1>1, <1>2, <1>3 DEF Sound
<1>5. ASSUME b
      PROVE  /\ (IF b /\ Enables(st[n]) THEN d - 1 ELSE d) = Cardinality(Placed(s2))
             /\ Guarded(s2)
             /\ Enables(st[n]) => d \in Nat /\ d > 0
  <2>1. d = Cardinality(Placed(st)) /\ Guarded(st)
    BY <1>5 DEF Sound
  <2>2. Guarded(s2)
    <3>1. ASSUME NEW i \in 1..(n - 1), s2[i].f = "act"
          PROVE  \E j \in 1..(n - 1) : j < i /\ Enables(s2[j])
      <4>1. PICK j \in 1..n : j < i /\ Enables(st[j])
        BY <1>1, <1>2, <2>1, <3>1 DEF Guarded
      <4>. QED  BY <1>1, <1>2, <3>1, <4>1
    <3>. QED  BY <1>3, <3>1 DEF Guarded
  <2>3. IsFiniteSet(Placed(s2)) /\ Cardinality(Placed(s2)) \in Nat /\ n \notin Placed(s2)
    <3>1. n \notin Placed(s2)
      BY <1>1, <1>3 DEF Placed
    <3>. QED  BY <1>2, <3>1, PlacedFinite
  <2>4. CASE Enables(st[n])
    <3>1. Placed(st) = Placed(s2) \cup {n}
      BY <1>1, <1>2, <1>3, <2>4 DEF Placed
    <3>2. Cardinality(Placed(s2) \cup {n}) = Cardinality(Placed(s2)) + 1
      BY <2>3, FS_AddElement
    <3>. QED  BY <1>5, <2>1, <2>2, <2>3, <2>4, <3>1, <3>2
  <2>5. CASE ~Enables(st[n])
    <3>1. Placed(st) = Placed(s2)
      BY <1>1, <1>2, <1>3, <2>5 DEF Placed
    <3>. QED  BY <2>1, <2>2, <2>5, <3>1
  <2>. QED  BY <2>4, <2>5
<1>. QED  BY <1>2, <1>4, <1>5 DEF Sound

\* The frame on top is replaced: it is popped, and another one pushed.
LEMMA Replaced ==
    ASSUME NEW st, IsSeq(st), st # <<>>, NEW fr
    PROVE  [st EXCEPT ![Len(st)] = fr] = Append(SubSeq(st, 1, Len(st) - 1), fr)
<1>. DEFINE n == Len(st)
            s1 == [st EXCEPT ![n] = fr]
            s2 == Append(SubSeq(st, 1, n - 1), fr)
<1>1. PICK S : st \in Seq(S)
  BY DEF IsSeq
<1>2. n \in Nat /\ n > 0
  BY SeqFront
<1>3. st \in Seq(S \cup {fr}) /\ n \in 1..n
  BY <1>1, <1>2
<1>4. s1 \in Seq(S \cup {fr}) /\ Len(s1) = n /\ \A j \in 1..n : s1[j] = IF j = n THEN fr ELSE st[j]
  BY <1>3, ExceptSeq
<1>5. /\ IsSeq(s2) /\ Len(s2) = n
      /\ \A j \in 1..(n - 1) : s2[j] = st[j]
      /\ s2[n] = fr
  BY <1>2, SeqFront, SeqAppend
<1>6. DOMAIN s2 = 1..n
  BY <1>5, SeqOf
<1>7. PICK R : s2 \in Seq(R)
  BY <1>5 DEF IsSeq
<1>8. s1 \in Seq(S \cup {fr} \cup R) /\ s2 \in Seq(S \cup {fr} \cup R)
  BY <1>4, <1>7
<1>9. \A j \in 1..n : s1[j] = s2[j]
  BY <1>2, <1>4, <1>5
<1>. QED  BY <1>4, <1>5, <1>8, <1>9, SeqEqual

\* One frame and two frames after another.
LEMMA ConcatFrames ==
    ASSUME NEW st, IsSeq(st)
    PROVE  /\ st \o <<>> = st
           /\ \A a : st \o <<a>> = Append(st, a)
           /\ \A a, c : st \o <<a, c>> = Append(Append(st, a), c)
<1>1. PICK S : st \in Seq(S)
  BY DEF IsSeq
<1>. QED  BY <1>1

-----------------------------------------------------------------------------
(* The steps *)

\* The stack, the depth and who is strict fit each other.
StackInv == session.strict \in BOOLEAN /\ Sound(session.strict, stack, depth)

\* Frames that only wait.
Plain(fr) == fr.f \in {"memo", "conv", "then", "pick", "arg"} /\ IsSeq(fr.vals)

LEMMA EnteredPlain ==
    ASSUME NEW b \in BOOLEAN, NEW st, NEW d, Sound(b, st, d), NEW fr, Plain(fr)
    PROVE  Sound(b, Append(st, fr), d)
<1>1. ~Enables(fr) /\ fr.f # "act" /\ IsSeq(fr.vals)
  BY DEF Enables, Plain
<1>. QED  BY <1>1, Entered

LEMMA LeftQuiet ==
    ASSUME NEW b \in BOOLEAN, NEW st, NEW d, Sound(b, st, d), st # <<>>,
           ~Enables(st[Len(st)])
    PROVE  Sound(b, SubSeq(st, 1, Len(st) - 1), d)
BY Left

LEMMA NoVals == \A f, t, args : IsSeq(Fr(f, t, args, <<>>).vals)
<1>1. <<>> \in Seq({})
  OBVIOUS
<1>. QED  BY <1>1 DEF Fr, IsSeq

LEMMA MemoPushed ==
    ASSUME StackInv, NEW t, NEW args, stack' = stack \o Memo(t, args),
           UNCHANGED <<session, depth>>
    PROVE  StackInv'
<1>1. IsSeq(stack) /\ session.strict \in BOOLEAN /\ Sound(session.strict, stack, depth)
  BY DEF StackInv, Sound
<1>2. CASE args = <<>>
  <2>1. stack' = Append(stack, Fr("memo", t, <<>>, <<>>))
    BY <1>1, <1>2, ConcatFrames DEF Memo
  <2>2. Plain(Fr("memo", t, <<>>, <<>>))
    BY NoVals DEF Plain, Fr
  <2>3. Sound(session.strict, stack', depth)
    BY <1>1, <2>1, <2>2, EnteredPlain
  <2>. QED  BY <1>1, <2>3 DEF StackInv
<1>3. CASE args # <<>>
  <2>1. stack' = stack
    BY <1>1, <1>3, ConcatFrames DEF Memo
  <2>. QED  BY <1>1, <2>1 DEF StackInv
<1>. QED  BY <1>2, <1>3

LEMMA Unmoved == StackInv /\ UNCHANGED <<session, stack, depth>> => StackInv'
BY DEF StackInv, Sound, Placed, Guarded

LEMMA EvaluateStack == ASSUME StackInv, Evaluate PROVE StackInv'
<1>. UNCHANGED session
  BY DEF Evaluate, EvalKnown, EvalValue, EvalConstructor, EvalApplication, EvalLambda,
     EvalReference, EvalMember, EvalDenied, EvalPartial, EvalAtOnce, EvalHandler, quiet, fixed
<1>0. IsSeq(stack) /\ session.strict \in BOOLEAN /\ Sound(session.strict, stack, depth)
  BY DEF StackInv, Sound
<1>1. CASE EvalKnown \/ EvalValue \/ EvalConstructor \/ EvalLambda \/ EvalDenied
           \/ EvalPartial \/ EvalAtOnce
  BY <1>1, Unmoved DEF EvalKnown, EvalValue, EvalConstructor, EvalLambda, EvalDenied,
     EvalPartial, EvalAtOnce
<1>2. CASE EvalApplication
  BY <1>2, MemoPushed DEF EvalApplication
<1>3. CASE EvalReference
  BY <1>3, MemoPushed DEF EvalReference
<1>4. CASE EvalMember
  <2>1. CASE ctl.args = <<>>
    <3>. DEFINE a == Fr("memo", ctl.t, <<>>, <<>>)
                c == Fr("conv", 0, <<>>, <<>>)
    <3>1. stack' = stack \o <<a, c>> /\ UNCHANGED depth
      BY <1>4, <2>1 DEF EvalMember
    <3>2. stack' = Append(Append(stack, a), c)
      BY <1>0, <3>1, ConcatFrames
    <3>3. Plain(a) /\ Plain(c)
      BY NoVals DEF Plain, Fr
    <3>4. Sound(session.strict, Append(stack, a), depth)
      BY <1>0, <3>3, EnteredPlain
    <3>5. Sound(session.strict, stack', depth)
      BY <1>0, <3>2, <3>3, <3>4, EnteredPlain
    <3>. QED  BY <1>0, <3>1, <3>5 DEF StackInv
  <2>2. CASE ctl.args # <<>>
    <3>. DEFINE a == Fr("then", 0, ctl.args, <<>>)
    <3>1. stack' = stack \o <<a>> /\ UNCHANGED depth
      BY <1>4, <2>2 DEF EvalMember
    <3>2. stack' = Append(stack, a)
      BY <1>0, <3>1, ConcatFrames
    <3>3. Plain(a)
      BY NoVals DEF Plain, Fr
    <3>4. Sound(session.strict, stack', depth)
      BY <1>0, <3>2, <3>3, EnteredPlain
    <3>. QED  BY <1>0, <3>1, <3>4 DEF StackInv
  <2>. QED  BY <2>1, <2>2
<1>5. CASE EvalHandler
  <2>. DEFINE op == heap[ctl.t].op
              fr == Fr(Waits(op), ctl.t, ctl.args, <<>>)
  <2>1. stack' = Append(stack, fr)
    BY <1>5 DEF EvalHandler, Push
  <2>2. IsSeq(fr.vals) /\ fr.f = Waits(op)
    BY NoVals DEF Fr
  <2>3. Enables(fr) <=> Waits(op) = "begun"
    BY DEF Enables, Fr, Waits
  <2>4. depth' = IF session.strict /\ Waits(op) = "begun" THEN depth + 1 ELSE depth
    BY <1>5 DEF EvalHandler, Begin
  <2>5. session.strict /\ fr.f = "act" => depth > 0
    BY <1>5, <2>2 DEF EvalHandler, Waits, Allowed
  <2>6. Sound(session.strict, stack', depth')
    BY <1>0, <2>1, <2>2, <2>3, <2>4, <2>5, Entered
  <2>. QED  BY <1>0, <2>6 DEF StackInv
<1>. QED  BY <1>1, <1>2, <1>3, <1>4, <1>5 DEF Evaluate

\* The frame on top is left, and another one that waits may take its place.
LEMMA LeftFrame ==
    ASSUME StackInv, stack # <<>>, NEW d,
           d = IF session.strict /\ Enables(Top) THEN depth - 1 ELSE depth
    PROVE  /\ Sound(session.strict, SubSeq(stack, 1, Len(stack) - 1), d)
           /\ \A fr : Plain(fr) =>
                 Sound(session.strict, [stack EXCEPT ![Len(stack)] = fr], d)
<1>1. IsSeq(stack) /\ session.strict \in BOOLEAN /\ Sound(session.strict, stack, depth)
  BY DEF StackInv, Sound
<1>2. Sound(session.strict, SubSeq(stack, 1, Len(stack) - 1), d)
  BY <1>1, Left DEF Top
<1>3. ASSUME NEW fr, Plain(fr)
      PROVE  Sound(session.strict, [stack EXCEPT ![Len(stack)] = fr], d)
  <2>1. [stack EXCEPT ![Len(stack)] = fr] = Append(SubSeq(stack, 1, Len(stack) - 1), fr)
    BY <1>1, Replaced
  <2>2. Sound(session.strict, Append(SubSeq(stack, 1, Len(stack) - 1), fr), d)
    BY <1>1, <1>2, <1>3, EnteredPlain
  <2>. QED  BY <2>1, <2>2
<1>. QED  BY <1>2, <1>3

\* End takes one off, below a frame that enables effects.
LEMMA EndBelow ==
    ASSUME StackInv, stack # <<>>, Enables(Top), End
    PROVE  depth' = IF session.strict /\ Enables(Top) THEN depth - 1 ELSE depth
<1>1. session.strict => depth > 0
  BY Left DEF StackInv, Top
<1>. QED  BY <1>1 DEF End

LEMMA ReturnStack == ASSUME StackInv, Return PROVE StackInv'
<1>1. UNCHANGED session
  BY DEF Return, ReturnMemo, ReturnConv, ReturnThen, ReturnPick, ReturnTop, quiet, fixed
<1>2. stack # <<>> /\ stack' = SubSeq(stack, 1, Len(stack) - 1)
  BY DEF Return, ReturnMemo, ReturnConv, ReturnThen, ReturnPick, ReturnTop, Returned, Pop
<1>3. depth' = IF session.strict /\ Enables(Top) THEN depth - 1 ELSE depth
  <2>1. CASE ReturnMemo \/ ReturnConv \/ ReturnThen \/ ReturnPick
    BY <2>1 DEF ReturnMemo, ReturnConv, ReturnThen, ReturnPick, Returned, Enables
  <2>2. CASE ReturnTop
    <3>1. Top.f = "top" /\ (Enables(Top) <=> Top.t = 1)
      BY <2>2 DEF ReturnTop, Returned, Enables
    <3>2. CASE Top.t = 1
      BY <1>2, <2>2, <3>1, <3>2, EndBelow DEF ReturnTop
    <3>3. CASE Top.t # 1
      BY <2>2, <3>1, <3>3 DEF ReturnTop
    <3>. QED  BY <3>2, <3>3
  <2>. QED  BY <2>1, <2>2 DEF Return
<1>4. Sound(session.strict, stack', depth')
  BY <1>2, <1>3, LeftFrame
<1>. QED  BY <1>1, <1>4 DEF StackInv

\* What a builtin does when its argument is there: its frame goes, and effects
\* end if it had enabled them.
LEMMA HandleStack == ASSUME StackInv, Handle PROVE StackInv'
<1>0. UNCHANGED session
  BY DEF Handle, Refuse, Dispatch, DispatchEnv, Lookup, Members, Literal, Continue,
     PrintLine, Exit, Compare, Import, ImportNothing, CallLoader, quiet, fixed
<1>1. CASE Exit
  BY <1>1, Unmoved, <1>0 DEF Exit
<1>2. ASSUME NEW op, Handler(op), op \notin {"chain", "bind"}
      PROVE  stack # <<>> /\ ~Enables(Top)
  BY <1>2 DEF Handler, Returned, Waits, Enables
<1>3. ASSUME NEW op, Handler(op), op \in {"chain", "bind"}
      PROVE  stack # <<>> /\ Enables(Top)
  BY <1>3 DEF Handler, Returned, Waits, Enables
<1>4. ASSUME stack # <<>>,
             depth' = IF session.strict /\ Enables(Top) THEN depth - 1 ELSE depth,
             \/ stack' = SubSeq(stack, 1, Len(stack) - 1)
             \/ \E fr : Plain(fr) /\ stack' = [stack EXCEPT ![Len(stack)] = fr]
      PROVE  StackInv'
  BY <1>0, <1>4, LeftFrame DEF StackInv
<1>5. \A t : Answer(t) => stack' = SubSeq(stack, 1, Len(stack) - 1)
  BY DEF Answer, Pop
<1>6. \A control : AnswerOf(control) =>
         \E fr : Plain(fr) /\ stack' = [stack EXCEPT ![Len(stack)] = fr]
  <2>1. Plain(Fr("then", 0, Rest, <<>>))
    BY NoVals DEF Plain, Fr
  <2>. QED  BY <2>1 DEF AnswerOf, Switch
<1>7. CASE Refuse
  <2>1. stack # <<>> /\ stack' = SubSeq(stack, 1, Len(stack) - 1)
    BY <1>7 DEF Refuse, Refused, Returned, Pop
  <2>2. depth' = IF session.strict /\ Enables(Top) THEN depth - 1 ELSE depth
    <3>1. CASE Top.f = "begun"
      <4>1. Enables(Top) /\ End
        BY <1>7, <3>1 DEF Refuse, Enables
      <4>. QED  BY <2>1, <4>1, EndBelow
    <3>2. CASE Top.f # "begun"
      <4>1. ~Enables(Top) /\ UNCHANGED depth
        BY <1>7, <3>2 DEF Refuse, Refused, Returned, Enables
      <4>. QED  BY <4>1
    <3>. QED  BY <3>1, <3>2
  <2>. QED  BY <1>4, <2>1, <2>2
<1>8. CASE Continue
  <2>1. stack # <<>> /\ Enables(Top) /\ End
    BY <1>3, <1>8 DEF Continue, Given
  <2>2. depth' = IF session.strict /\ Enables(Top) THEN depth - 1 ELSE depth
    BY <2>1, EndBelow
  <2>3. \E control : AnswerOf(control)
    BY <1>8 DEF Continue
  <2>. QED  BY <1>4, <1>6, <2>1, <2>2, <2>3
<1>9. CASE DispatchEnv \/ Lookup \/ Members \/ PrintLine \/ ImportNothing \/ CallLoader
  <2>1. \E op : Handler(op) /\ op \notin {"chain", "bind"}
    BY <1>9 DEF DispatchEnv, Lookup, Members, PrintLine, ImportNothing, CallLoader, Given
  <2>2. UNCHANGED depth
    BY <1>9 DEF DispatchEnv, Lookup, Members, PrintLine, ImportNothing, CallLoader
  <2>3. (\E t : Answer(t)) \/ (\E control : AnswerOf(control))
    BY <1>9 DEF DispatchEnv, Lookup, Members, PrintLine, ImportNothing, CallLoader
  <2>. QED  BY <1>2, <1>4, <1>5, <1>6, <2>1, <2>2, <2>3
<1>10. CASE Import
  <2>1. \E op : Handler(op) /\ op \notin {"chain", "bind"}
    BY <1>10 DEF Import, Importing, Given
  <2>2. UNCHANGED depth
    BY <1>10 DEF Import
  <2>3. (\E t : Answer(t)) \/ (\E control : AnswerOf(control))
    <3>1. CASE This.op = "import"
      <4>1. Answer(Unit)
        BY <1>10, <3>1 DEF Import
      <4>. QED  BY <4>1
    <3>2. CASE This.op = "importOpt"
      <4>1. Answer(True)
        BY <1>10, <3>2 DEF Import
      <4>. QED  BY <4>1
    <3>3. CASE This.op \notin {"import", "importOpt"}
      <4>1. AnswerOf(Eval(Top.args[2], <<Unit>>))
        BY <1>10, <3>3 DEF Import
      <4>. QED  BY <4>1
    <3>. QED  BY <3>1, <3>2, <3>3
  <2>. QED  BY <1>2, <1>4, <1>5, <1>6, <2>1, <2>2, <2>3
<1>11. CASE Literal
  <2>. DEFINE keys == Append(Top.vals, Value.op)
              fr == Fr("arg", Top.t, Top.args, keys)
  <2>1. stack # <<>> /\ ~Enables(Top)
    BY <1>2, <1>11 DEF Literal, Given
  <2>2. Plain(fr)
    <3>1. Len(stack) \in DOMAIN stack
      BY <2>1, SeqOf, SeqFront DEF StackInv, Sound
    <3>2. IsSeq(Top.vals)
      BY <3>1 DEF StackInv, Sound, Top
    <3>3. IsSeq(keys)
      BY <3>2, SeqAppend
    <3>. QED  BY <3>3 DEF Plain, Fr
  <2>3. stack' = [stack EXCEPT ![Len(stack)] = fr] \/ \E t : Answer(t)
    BY <1>11 DEF Literal, Switch
  <2>4. UNCHANGED depth
    BY <1>11 DEF Literal
  <2>. QED  BY <1>4, <1>5, <2>1, <2>2, <2>3, <2>4
<1>12. CASE Compare
  <2>. DEFINE fr == Fr("arg", Top.t, Top.args, <<ctl.t>>)
  <2>1. stack # <<>> /\ ~Enables(Top)
    BY <1>2, <1>12 DEF Compare, Given
  <2>2. Plain(fr)
    <3>1. <<ctl.t>> \in Seq({ctl.t})
      OBVIOUS
    <3>. QED  BY <3>1 DEF Plain, Fr, IsSeq
  <2>3. stack' = [stack EXCEPT ![Len(stack)] = fr] \/ \E t : Answer(t)
    BY <1>12 DEF Compare, Switch
  <2>4. UNCHANGED depth
    BY <1>12 DEF Compare
  <2>. QED  BY <1>4, <1>5, <2>1, <2>2, <2>3, <2>4
<1>13. CASE Dispatch
  <2>. DEFINE front == SubSeq(stack, 1, Len(stack) - 1)
              a == Fr("then", 0, Rest, <<>>)
              c == Fr("pick", 0, <<>>, <<>>)
  <2>1. stack # <<>> /\ ~Enables(Top) /\ UNCHANGED depth
    BY <1>2, <1>13 DEF Dispatch, Given
  <2>2. CASE stack' = front \o <<a, c>>
    <3>1. Sound(session.strict, front, depth) /\ session.strict \in BOOLEAN
      BY <2>1, LeftFrame DEF StackInv
    <3>2. stack' = Append(Append(front, a), c)
      BY <2>2, <3>1, ConcatFrames DEF Sound
    <3>3. Plain(a) /\ Plain(c)
      BY NoVals DEF Plain, Fr
    <3>4. Sound(session.strict, Append(front, a), depth)
      BY <3>1, <3>3, EnteredPlain
    <3>5. Sound(session.strict, stack', depth)
      BY <3>1, <3>2, <3>3, <3>4, EnteredPlain
    <3>. QED  BY <1>0, <2>1, <3>1, <3>5 DEF StackInv
  <2>3. CASE \E t : Answer(t)
    BY <1>4, <1>5, <2>1, <2>3
  <2>. QED  BY <1>13, <2>2, <2>3 DEF Dispatch
<1>. QED  BY <1>1, <1>7, <1>8, <1>9, <1>10, <1>11, <1>12, <1>13 DEF Handle

LEMMA StartStack == ASSUME StackInv, Start PROVE StackInv'
<1>. DEFINE wrapped == Head(pending).wrapped
            fr == Fr("top", IF wrapped THEN 1 ELSE 0, <<>>, <<>>)
<1>1. /\ UNCHANGED session /\ stack' = Append(stack, fr)
      /\ depth' = IF session.strict /\ wrapped THEN depth + 1 ELSE depth
  BY DEF Start, Push, Begin, fixed
<1>2. IsSeq(fr.vals) /\ fr.f = "top" /\ (Enables(fr) <=> wrapped)
  BY NoVals DEF Fr, Enables
<1>3. Sound(session.strict, stack', depth')
  BY <1>1, <1>2, Entered DEF StackInv
<1>. QED  BY <1>1, <1>3 DEF StackInv

LEMMA LoadStack == ASSUME StackInv, LoadLibrary PROVE StackInv'
<1>1. UNCHANGED <<session, stack, depth>>
  BY DEF LoadLibrary, LoadCached, LoadDenied, LoadFails, LoadRejected, LoadKept, quiet, fixed
<1>. QED  BY <1>1, Unmoved

LEMMA StackInvInit == Init => StackInv
<1>. SUFFICES ASSUME Init PROVE StackInv
  OBVIOUS
<1>1. stack = <<>> /\ depth = 0 /\ session.strict \in BOOLEAN
  BY DEF Init
<1>2. <<>> \in Seq({}) /\ DOMAIN <<>> = {}
  OBVIOUS
<1>3. Placed(<<>>) = {} /\ Guarded(<<>>) /\ Cardinality({}) = 0
  BY <1>2, FS_EmptySet DEF Placed, Guarded
<1>. QED  BY <1>1, <1>2, <1>3 DEF StackInv, Sound, IsSeq

LEMMA StackInvNext == StackInv /\ [Next]_vars => StackInv'
<1>. SUFFICES ASSUME StackInv, [Next]_vars PROVE StackInv'
  OBVIOUS
<1>1. CASE Step
  BY <1>1, StartStack, EvaluateStack, ReturnStack, HandleStack, LoadStack DEF Step
<1>2. CASE ChangeDisk \/ UNCHANGED vars
  BY <1>2, Unmoved DEF ChangeDisk, vars
<1>. QED  BY <1>1, <1>2 DEF Next

-----------------------------------------------------------------------------
(* Effects happen in their places *)

\* An effect of a step happens in its place.
LEMMA ActsInPlace ==
    ASSUME StackInv, EffectsInPlace, NEW what, Act(what), UNCHANGED session,
           session.strict => InPlace
    PROVE  EffectsInPlace'
<1>1. acts' = acts \cup {[what |-> what, inPlace |-> InPlace]}
  BY DEF Act
<1>2. session.strict => \A act \in acts : act.inPlace
  BY DEF EffectsInPlace
<1>3. session.strict => [what |-> what, inPlace |-> InPlace].inPlace
  OBVIOUS
<1>. QED  BY <1>1, <1>2, <1>3 DEF EffectsInPlace

LEMMA EffectsNext == StackInv /\ EffectsInPlace /\ [Next]_vars => EffectsInPlace'
<1>. SUFFICES ASSUME StackInv, EffectsInPlace, [Next]_vars PROVE EffectsInPlace'
  OBVIOUS
<1>1. CASE UNCHANGED <<session, acts>>
  BY <1>1 DEF EffectsInPlace
<1>2. ASSUME session.strict, depth > 0 PROVE InPlace
  BY <1>2, AllowedBelow DEF StackInv, InPlace
<1>3. ASSUME session.strict, stack # <<>>, Top.f = "act" PROVE InPlace
  <2>1. Len(stack) \in DOMAIN stack
    BY <1>3, SeqOf, SeqFront DEF StackInv, Sound
  <2>. QED  BY <1>3, <2>1 DEF StackInv, Sound, Guarded, Top, InPlace
<1>4. CASE PrintLine \/ Exit \/ Import
  <2>1. stack # <<>> /\ Top.f = "act"
    BY <1>4 DEF PrintLine, Exit, Import, Importing, Given, Handler, Returned, Waits, Effectful
  <2>2. UNCHANGED session /\ \E what : Act(what)
    BY <1>4 DEF PrintLine, Exit, Import, fixed
  <2>. QED  BY <1>3, <2>1, <2>2, ActsInPlace
<1>5. CASE LoadRejected \/ LoadKept
  <2>1. session.strict => depth > 0
    BY <1>5 DEF LoadRejected, LoadKept, Found, Allowed
  <2>2. UNCHANGED session /\ Act("load")
    BY <1>5 DEF LoadRejected, LoadKept, fixed
  <2>. QED  BY <1>2, <2>1, <2>2, ActsInPlace
<1>6. ASSUME Evaluate PROVE UNCHANGED <<session, acts>>
  BY <1>6 DEF Evaluate, EvalKnown, EvalValue, EvalConstructor, EvalApplication, EvalLambda,
     EvalReference, EvalMember, EvalDenied, EvalPartial, EvalAtOnce, EvalHandler, quiet, fixed
<1>7. ASSUME Return PROVE UNCHANGED <<session, acts>>
  BY <1>7 DEF Return, ReturnMemo, ReturnConv, ReturnThen, ReturnPick, ReturnTop, quiet, fixed
<1>8. ASSUME Refuse \/ Dispatch \/ DispatchEnv \/ Lookup \/ Members \/ Literal \/ Continue
             \/ Compare \/ ImportNothing \/ CallLoader
      PROVE UNCHANGED <<session, acts>>
  BY <1>8 DEF Refuse, Dispatch, DispatchEnv, Lookup, Members, Literal, Continue,
     Compare, ImportNothing, CallLoader, quiet, fixed
<1>9. ASSUME LoadCached \/ LoadDenied \/ LoadFails PROVE UNCHANGED <<session, acts>>
  BY <1>9 DEF LoadCached, LoadDenied, LoadFails, quiet, fixed
<1>10. ASSUME Start \/ ChangeDisk \/ UNCHANGED vars PROVE UNCHANGED <<session, acts>>
  BY <1>10 DEF Start, ChangeDisk, vars, fixed
<1>. QED  BY <1>1, <1>4, <1>5, <1>6, <1>7, <1>8, <1>9, <1>10
          DEF Next, Step, Handle, LoadLibrary

\* With --strict-effects every effect happens below an argument of chain or
\* bind, or in a wrapped program.
THEOREM EffectsGuarded == Spec => []EffectsInPlace
<1>1. Init => EffectsInPlace
  BY DEF Init, EffectsInPlace
<1>. QED  BY <1>1, StackInvInit, StackInvNext, EffectsNext, PTL DEF Spec

-----------------------------------------------------------------------------
(* What is bound stays bound *)

\* Thunks and namespaces are only added behind those there are.
GraphInv == IsSeq(heap) /\ IsSeq(spaces)

\* What NothingRebound says of a step.
Kept ==
    /\ \A s \in DOMAIN spaces : spaces'[s] = spaces[s]
    /\ \A name \in DOMAIN cache : name \in DOMAIN cache' /\ cache'[name] = cache[name]
    /\ \A t \in DOMAIN heap : heap[t].k = "ref" /\ heap[t].d # 0 => heap'[t].d = heap[t].d

\* The old part of a sequence is as it was.
Extends(new, old) ==
    IsSeq(new) /\ Len(new) >= Len(old) /\ \A i \in 1..Len(old) : new[i] = old[i]

LEMMA ExtendedKeeps ==
    ASSUME GraphInv, Extends(heap', heap), Extends(spaces', spaces),
           \A name \in DOMAIN cache : name \in DOMAIN cache' /\ cache'[name] = cache[name]
    PROVE  GraphInv' /\ Kept
<1>1. DOMAIN heap = 1..Len(heap) /\ DOMAIN spaces = 1..Len(spaces)
  BY SeqOf DEF GraphInv
<1>. QED  BY <1>1 DEF GraphInv, Kept, Extends

LEMMA SameExtends == \A s : IsSeq(s) => Extends(s, s)
<1>. SUFFICES ASSUME NEW s, IsSeq(s) PROVE Extends(s, s)
  OBVIOUS
<1>. QED  BY SeqOf DEF Extends

LEMMA AppendExtends == \A s, e : IsSeq(s) => Extends(Append(s, e), s)
<1>. SUFFICES ASSUME NEW s, NEW e, IsSeq(s) PROVE Extends(Append(s, e), s)
  OBVIOUS
<1>. QED  BY SeqOf, SeqAppend DEF Extends

LEMMA ConcatExtends == \A s, r : IsSeq(s) /\ IsSeq(r) => Extends(s \o r, s)
<1>. SUFFICES ASSUME NEW s, NEW r, IsSeq(s), IsSeq(r) PROVE Extends(s \o r, s)
  OBVIOUS
<1>1. Len(s) \in Nat /\ Len(r) \in Nat
  BY SeqOf
<1>. QED  BY <1>1, SeqConcat DEF Extends

\* A function on 1..n is a sequence.
LEMMA FunctionIsSeq ==
    ASSUME NEW n \in Nat, NEW f, f = [i \in 1..n |-> f[i]]
    PROVE  IsSeq(f) /\ Len(f) = n
<1>1. f \in [1..n -> {f[i] : i \in 1..n}]
  OBVIOUS
<1>2. f \in Seq({f[i] : i \in 1..n})
  BY <1>1, SeqDef
<1>3. Len(f) \in Nat /\ 1..Len(f) = 1..n
  BY <1>1, <1>2, LenProperties
<1>. QED  BY <1>2, <1>3 DEF IsSeq

LEMMA UpdateExtends ==
    ASSUME NEW s, IsSeq(s), NEW t, NEW e
    PROVE  /\ IsSeq([s EXCEPT ![t] = e]) /\ Len([s EXCEPT ![t] = e]) = Len(s)
           /\ DOMAIN [s EXCEPT ![t] = e] = DOMAIN s
           /\ \A i \in DOMAIN s : i # t => [s EXCEPT ![t] = e][i] = s[i]
<1>. DEFINE f == [s EXCEPT ![t] = e]
<1>1. Len(s) \in Nat /\ DOMAIN s = 1..Len(s)
  BY SeqOf
<1>2. DOMAIN f = DOMAIN s /\ f = [i \in DOMAIN s |-> f[i]]
  OBVIOUS
<1>3. IsSeq(f) /\ Len(f) = Len(s)
  BY <1>1, <1>2, FunctionIsSeq
<1>. QED  BY <1>2, <1>3

\* The heap or the namespaces grow, the cache stays.
LEMMA NoNewLibrary ==
    ASSUME UNCHANGED cache
    PROVE  \A name \in DOMAIN cache : name \in DOMAIN cache' /\ cache'[name] = cache[name]
OBVIOUS

LEMMA Grown ==
    ASSUME GraphInv, UNCHANGED cache,
           heap' = heap \/ \E e : heap' = Append(heap, e),
           UNCHANGED spaces
    PROVE  GraphInv' /\ Kept
<1>1. IsSeq(heap) /\ IsSeq(spaces)
  BY DEF GraphInv
<1>2. Extends(heap', heap) /\ Extends(spaces', spaces)
  BY <1>1, SameExtends, AppendExtends
<1>. QED  BY <1>2, NoNewLibrary, ExtendedKeeps

\* A namespace and the wrappers of its members are added.
LEMMA SpaceMade ==
    ASSUME GraphInv, NEW pairs, NEW n \in Nat, DOMAIN pairs = 1..n, MakeSpace(pairs)
    PROVE  Extends(heap', heap) /\ Extends(spaces', spaces)
<1>. DEFINE wrappers == [i \in DOMAIN pairs |-> Member(pairs[i][2])]
            last == Namespace(Len(spaces) + 1)
<1>1. IsSeq(heap) /\ IsSeq(spaces)
  BY DEF GraphInv
<1>2. IsSeq(wrappers)
  <2>1. wrappers = [i \in 1..n |-> wrappers[i]]
    OBVIOUS
  <2>. HIDE DEF wrappers
  <2>. QED  BY <2>1, FunctionIsSeq
<1>3. IsSeq(<<last>>)
  <2>1. <<last>> \in Seq({last})
    OBVIOUS
  <2>. QED  BY <2>1 DEF IsSeq
<1>4. heap' = heap \o wrappers \o <<last>> /\ \E e : spaces' = Append(spaces, e)
  BY DEF MakeSpace
<1>5. Extends(spaces', spaces)
  BY <1>1, <1>4, AppendExtends
<1>6. Extends(heap \o wrappers, heap) /\ IsSeq(heap \o wrappers)
  BY <1>1, <1>2, ConcatExtends DEF Extends
<1>7. Extends((heap \o wrappers) \o <<last>>, heap \o wrappers)
  BY <1>3, <1>6, ConcatExtends
<1>8. \A p, q, r : /\ Len(p) \in Nat /\ Len(q) \in Nat /\ Len(r) \in Nat
                   /\ Extends(r, q) /\ Extends(q, p) => Extends(r, p)
  BY DEF Extends
<1>9. Extends((heap \o wrappers) \o <<last>>, heap)
  <2>1. IsSeq((heap \o wrappers) \o <<last>>)
    BY <1>7 DEF Extends
  <2>. QED  BY <1>1, <1>6, <1>7, <1>8, <2>1, SeqOf
<1>. QED  BY <1>4, <1>5, <1>9

\* References find their targets, other thunks stay as they are.
LEMMA TargetsFound ==
    ASSUME GraphInv, UNCHANGED <<cache, spaces>>, DOMAIN heap' = DOMAIN heap,
           heap' = [t \in DOMAIN heap |-> heap'[t]],
           \A t \in DOMAIN heap : heap[t].k = "ref" /\ heap[t].d # 0 => heap'[t] = heap[t]
    PROVE  GraphInv' /\ Kept
<1>1. Len(heap) \in Nat /\ DOMAIN heap = 1..Len(heap)
  BY SeqOf DEF GraphInv
<1>2. IsSeq(heap')
  BY <1>1, FunctionIsSeq
<1>3. \A s \in DOMAIN spaces : spaces'[s] = spaces[s]
  OBVIOUS
<1>4. \A name \in DOMAIN cache : name \in DOMAIN cache' /\ cache'[name] = cache[name]
  OBVIOUS
<1>5. \A t \in DOMAIN heap : heap[t].k = "ref" /\ heap[t].d # 0 => heap'[t].d = heap[t].d
  OBVIOUS
<1>. QED  BY <1>2, <1>3, <1>4, <1>5 DEF GraphInv, Kept

LEMMA EvaluateKeeps == ASSUME GraphInv, Evaluate PROVE GraphInv' /\ Kept
<1>1. UNCHANGED <<cache, spaces>>
  BY DEF Evaluate, EvalKnown, EvalValue, EvalConstructor, EvalApplication, EvalLambda,
     EvalReference, EvalMember, EvalDenied, EvalPartial, EvalAtOnce, EvalHandler, quiet, library
<1>2. CASE EvalReference
  <2>. DEFINE t == ctl.t
              n == <<"plain", heap[t].op>>
              th == [heap[t] EXCEPT !.d = env[n]]
  <2>1. CASE UNCHANGED heap
    BY <1>1, <2>1, Grown
  <2>2. CASE heap[t].d = 0 /\ heap' = [heap EXCEPT ![t] = th]
    <3>. HIDE DEF t, th
    <3>1. /\ DOMAIN heap' = DOMAIN heap
          /\ \A i \in DOMAIN heap : i # t => heap'[i] = heap[i]
      BY <2>2, UpdateExtends DEF GraphInv
    <3>2. heap' = [i \in DOMAIN heap |-> heap'[i]]
      BY <2>2
    <3>. QED  BY <1>1, <2>2, <3>1, <3>2, TargetsFound
  <2>. QED  BY <1>2, <2>1, <2>2 DEF EvalReference
<1>3. ASSUME ~EvalReference PROVE heap' = heap \/ \E e : heap' = Append(heap, e)
  BY <1>3 DEF Evaluate, EvalKnown, EvalValue, EvalConstructor, EvalApplication, EvalLambda,
     EvalMember, EvalDenied, EvalPartial, EvalAtOnce, EvalHandler, graph
<1>. QED  BY <1>1, <1>2, <1>3, Grown

LEMMA ReturnKeeps == ASSUME GraphInv, Return PROVE GraphInv' /\ Kept
<1>1. UNCHANGED <<heap, cache, spaces>>
  BY DEF Return, ReturnMemo, ReturnConv, ReturnThen, ReturnPick, ReturnTop, quiet, library, graph
<1>. QED  BY <1>1, Grown

LEMMA HandleKeeps == ASSUME GraphInv, StackInv, Handle PROVE GraphInv' /\ Kept
<1>1. CASE Literal
  <2>. DEFINE keys == Append(Top.vals, Value.op)
              n == Len(keys)
              pairs == [i \in 1..n |-> <<keys[i], Top.args[2 * i]>>]
  <2>1. n \in Nat
    <3>1. stack # <<>>
      BY <1>1 DEF Literal, Given, Handler, Returned
    <3>2. Len(stack) \in DOMAIN stack
      BY <3>1, SeqOf, SeqFront DEF StackInv, Sound
    <3>3. IsSeq(Top.vals)
      BY <3>2 DEF StackInv, Sound, Top
    <3>4. IsSeq(keys)
      BY <3>3, SeqAppend
    <3>. QED  BY <3>4, SeqOf
  <2>2. UNCHANGED cache
    BY <1>1 DEF Literal, library
  <2>3. CASE UNCHANGED <<graph, spaces>>
    BY <2>2, <2>3, Grown DEF graph
  <2>4. CASE MakeSpace(pairs)
    <3>1. DOMAIN pairs = 1..n
      OBVIOUS
    <3>. HIDE DEF n, pairs
    <3>. QED  BY <2>1, <2>2, <2>4, <3>1, SpaceMade, ExtendedKeeps, NoNewLibrary
  <2>. QED  BY <1>1, <2>3, <2>4 DEF Literal
<1>2. CASE ~Literal
  <2>1. UNCHANGED <<cache, spaces>>
    BY <1>2 DEF Handle, Refuse, Dispatch, DispatchEnv, Lookup, Members, Continue,
       PrintLine, Exit, Compare, Import, ImportNothing, CallLoader, quiet, library
  <2>2. heap' = heap \/ \E e : heap' = Append(heap, e)
    BY <1>2 DEF Handle, Refuse, Dispatch, DispatchEnv, Lookup, Members, Continue,
       PrintLine, Exit, Compare, Import, ImportNothing, CallLoader, graph
  <2>. QED  BY <2>1, <2>2, Grown
<1>. QED  BY <1>1, <1>2

LEMMA StartKeeps == ASSUME GraphInv, Start PROVE GraphInv' /\ Kept
<1>. DEFINE run == Head(pending)
<1>1. UNCHANGED <<cache, spaces>>
  BY DEF Start, library
<1>2. heap' = [t \in DOMAIN heap |-> Resolved(run, env', t)]
  BY DEF Start
<1>3. DOMAIN heap' = DOMAIN heap /\ heap' = [t \in DOMAIN heap |-> heap'[t]]
  BY <1>2
<1>4. \A t \in DOMAIN heap : heap[t].d # 0 => Resolved(run, env', t) = heap[t]
  BY DEF Resolved
<1>. QED  BY <1>1, <1>2, <1>3, <1>4, TargetsFound

LEMMA LoadKeeps == ASSUME GraphInv, LoadLibrary PROVE GraphInv' /\ Kept
<1>1. CASE LoadKept
  <2>. DEFINE pairs == [i \in DOMAIN Entries |-> <<Entries[i].key, Entries[i].value>>]
  <2>1. DOMAIN pairs = 1..2
    BY DEF Entries
  <2>2. MakeSpace(pairs)
    BY <1>1 DEF LoadKept
  <2>3. Extends(heap', heap) /\ Extends(spaces', spaces)
    BY <2>1, <2>2, SpaceMade
  <2>4. \A name \in DOMAIN cache : name \in DOMAIN cache' /\ cache'[name] = cache[name]
    BY <1>1 DEF LoadKept, Found, Cached, Remember
  <2>. QED  BY <2>3, <2>4, ExtendedKeeps
<1>2. CASE ~LoadKept
  <2>1. UNCHANGED <<heap, cache, spaces>>
    BY <1>2 DEF LoadLibrary, LoadCached, LoadDenied, LoadFails, LoadRejected, quiet, library, graph
  <2>. QED  BY <2>1, Grown
<1>. QED  BY <1>1, <1>2

LEMMA GraphInvInit == Init => GraphInv
<1>. SUFFICES ASSUME Init PROVE GraphInv
  OBVIOUS
<1>1. IsSeq(<<>>)
  <2>1. <<>> \in Seq({})
    OBVIOUS
  <2>. QED  BY <2>1 DEF IsSeq
<1>2. IsSeq(Static)
  <2>1. DOMAIN Static = 1..23 /\ Static = [i \in 1..23 |-> Static[i]]
    BY DEF Static
  <2>. QED  BY <2>1, FunctionIsSeq
<1>3. PICK s \in Sessions : heap = Static \o s.heap /\ spaces = <<>>
  BY DEF Init
<1>4. IsSeq(s.heap)
  BY SessionsAssumption, FunctionIsSeq
<1>5. IsSeq(heap)
  BY <1>2, <1>3, <1>4, SeqConcat
<1>. QED  BY <1>1, <1>3, <1>5 DEF GraphInv

LEMMA GraphInvNext == GraphInv /\ StackInv /\ [Next]_vars => GraphInv' /\ Kept
<1>. SUFFICES ASSUME GraphInv, StackInv, [Next]_vars PROVE GraphInv' /\ Kept
  OBVIOUS
<1>1. CASE Step
  BY <1>1, StartKeeps, EvaluateKeeps, ReturnKeeps, HandleKeeps, LoadKeeps DEF Step
<1>2. CASE ChangeDisk \/ UNCHANGED vars
  BY <1>2, Grown DEF ChangeDisk, vars, graph, library
<1>. QED  BY <1>1, <1>2 DEF Next

\* Neither an import nor a library loaded later changes a namespace, a library
\* that is there or a reference that has found its target.
THEOREM BindingsStay == Spec => NothingRebound
<1>1. GraphInv /\ StackInv /\ [Next]_vars =>
        [ /\ \A s \in DOMAIN spaces : spaces'[s] = spaces[s]
          /\ \A name \in DOMAIN cache : name \in DOMAIN cache' /\ cache'[name] = cache[name]
          /\ \A t \in DOMAIN heap :
                heap[t].k = "ref" /\ heap[t].d # 0 => heap'[t].d = heap[t].d ]_vars
  BY GraphInvNext DEF Kept
<1>2. GraphInv /\ StackInv /\ [Next]_vars => (GraphInv /\ StackInv)'
  BY GraphInvNext, StackInvNext
<1>. QED  BY <1>1, <1>2, GraphInvInit, StackInvInit, PTL DEF Spec, NothingRebound


-----------------------------------------------------------------------------
(* Every thunk anything points to is there *)

Fields == {"k", "op", "a", "d", "n", "eff"}

\* A builtin takes as many arguments as its handler reads.
Arity(th) ==
    /\ th.n \in Nat
    /\ th.op = "nslit" => th.n \in {2, 4}
    /\ th.op \in {"chain", "bind", "withImport", "lt"} => th.n = 2

\* A thunk among thunks H and namespaces K.
ThunkIn(th, H, K) ==
    /\ DOMAIN th = Fields
    /\ th.a \in Seq(H)
    /\ th.k \in {"appl", "lam"} => th.a # <<>>
    /\ th.k = "ref" => th.d \in H \cup {0}
    /\ th.k = "builtin" =>
          /\ Arity(th)
          /\ th.op = "member" => th.d \in H
          /\ th.op = "namespace" => th.d \in K

HeapIn(h, K) == \A t \in DOMAIN h : ThunkIn(h[t], DOMAIN h, K)
WhnfIn(w, h) == DOMAIN w = DOMAIN h /\ \A t \in DOMAIN h : w[t] \in DOMAIN h \cup {0}
EnvIn(e, H) == \A n \in DOMAIN e : e[n] \in H
SpacesIn(sp, H) == \A s \in DOMAIN sp : \A key \in DOMAIN sp[s] : sp[s][key] \in H
ImportsIn(im, K) == IsSeq(im) /\ \A i \in DOMAIN im : im[i] \in K
Runs(H) == [root : H, nodes : SUBSET H, wrapped : BOOLEAN, fresh : BOOLEAN]
CtlIn(c, H) ==
    /\ c.args \in Seq(H)
    /\ c.m = "eval" => c.t \in H
    /\ c.m = "ret" => c.t \in H \cup {0}

\* A frame of a builtin holds its arguments; that of a literal has keys left.
FrameIn(fr, h) ==
    /\ fr.args \in Seq(DOMAIN h)
    /\ fr.f = "memo" => fr.t \in DOMAIN h
    /\ fr.f \in {"arg", "act", "begun"} =>
          /\ fr.t \in DOMAIN h
          /\ h[fr.t].k = "builtin"
          /\ Len(fr.args) >= h[fr.t].n
          /\ fr.args # <<>>
          /\ h[fr.t].op = "nslit" => 2 * (Len(fr.vals) + 1) <= h[fr.t].n
StackIn(st, h) == \A i \in DOMAIN st : FrameIn(st[i], h)

GraphIn ==
    /\ GraphInv
    /\ IsSeq(whnf)
    /\ 1..23 \subseteq DOMAIN heap
    /\ HeapIn(heap, DOMAIN spaces)
    /\ WhnfIn(whnf, heap)
NamesIn ==
    /\ EnvIn(env, DOMAIN heap)
    /\ SpacesIn(spaces, DOMAIN heap)
    /\ EnvIn(cache, DOMAIN heap)
    /\ ImportsIn(imports, DOMAIN spaces)
ControlIn ==
    /\ pending \in Seq(Runs(DOMAIN heap))
    /\ CtlIn(ctl, DOMAIN heap)
    /\ StackIn(stack, heap)
Typed == GraphIn /\ NamesIn /\ ControlIn

\* The heap h2 has the thunks of h, and its builtins as they are.
Wider(h2, h) ==
    /\ DOMAIN h \subseteq DOMAIN h2
    /\ \A t \in DOMAIN h : h[t].k = "builtin" => h2[t] = h[t]

LEMMA SeqWider == ASSUME NEW S, NEW T, S \subseteq T, NEW s \in Seq(S) PROVE s \in Seq(T)
OBVIOUS

LEMMA WiderSame == \A h : Wider(h, h)
BY DEF Wider

LEMMA ThunkWider ==
    ASSUME NEW th, NEW H, NEW H2, NEW K, NEW K2, ThunkIn(th, H, K), H \subseteq H2, K \subseteq K2
    PROVE  ThunkIn(th, H2, K2)
<1>1. th.a \in Seq(H2)
  BY SeqWider DEF ThunkIn
<1>. QED  BY <1>1 DEF ThunkIn

LEMMA StackWider ==
    ASSUME NEW st, NEW h, NEW h2, StackIn(st, h), Wider(h2, h)
    PROVE  StackIn(st, h2)
<1>. SUFFICES ASSUME NEW i \in DOMAIN st PROVE FrameIn(st[i], h2)
  BY DEF StackIn
<1>1. FrameIn(st[i], h)
  BY DEF StackIn
<1>2. st[i].args \in Seq(DOMAIN h2)
  BY <1>1, SeqWider DEF FrameIn, Wider
<1>. QED  BY <1>1, <1>2 DEF FrameIn, Wider

LEMMA StackPushed ==
    ASSUME NEW st, IsSeq(st), NEW h, StackIn(st, h), NEW fr, FrameIn(fr, h)
    PROVE  StackIn(Append(st, fr), h)
<1>. DEFINE n == Len(st)
            s2 == Append(st, fr)
<1>1. n \in Nat /\ DOMAIN st = 1..n
  BY SeqOf
<1>2. /\ DOMAIN s2 = 1..(n + 1)
      /\ \A i \in 1..n : s2[i] = st[i]
      /\ s2[n + 1] = fr
  BY SeqAppend, SeqOf
<1>. QED  BY <1>1, <1>2 DEF StackIn

LEMMA StackPopped ==
    ASSUME NEW st, IsSeq(st), st # <<>>, NEW h, StackIn(st, h)
    PROVE  /\ FrameIn(st[Len(st)], h)
           /\ IsSeq(SubSeq(st, 1, Len(st) - 1))
           /\ StackIn(SubSeq(st, 1, Len(st) - 1), h)
<1>. DEFINE n == Len(st)
            s2 == SubSeq(st, 1, n - 1)
<1>1. n \in Nat /\ n > 0 /\ DOMAIN st = 1..n
  BY SeqOf, SeqFront
<1>2. /\ IsSeq(s2) /\ DOMAIN s2 = 1..(n - 1)
      /\ \A i \in 1..(n - 1) : s2[i] = st[i]
  BY SeqFront, SeqOf
<1>. QED  BY <1>1, <1>2 DEF StackIn

LEMMA StackSwitched ==
    ASSUME NEW st, IsSeq(st), st # <<>>, NEW h, StackIn(st, h), NEW fr, FrameIn(fr, h)
    PROVE  StackIn([st EXCEPT ![Len(st)] = fr], h)
<1>. DEFINE front == SubSeq(st, 1, Len(st) - 1)
<1>1. IsSeq(front) /\ StackIn(front, h)
  BY StackPopped
<1>2. StackIn(Append(front, fr), h)
  BY <1>1, StackPushed
<1>. QED  BY <1>2, Replaced

-----------------------------------------------------------------------------
(* The graph *)

\* What a step does to the graph: it is in order, and wider.
GraphStep == GraphIn' /\ Wider(heap', heap) /\ DOMAIN spaces \subseteq DOMAIN spaces'

LEMMA GraphSame == ASSUME GraphIn, UNCHANGED <<graph, spaces>> PROVE GraphStep
BY WiderSame DEF GraphStep, GraphIn, graph, GraphInv

\* A thunk is added.
LEMMA OneMore ==
    ASSUME GraphIn, NEW e, heap' = Append(heap, e), UNCHANGED spaces,
           ThunkIn(e, 1..(Len(heap) + 1), DOMAIN spaces),
           whnf' = Append(whnf, Len(heap) + 1)
    PROVE  GraphStep /\ Len(heap) + 1 \in DOMAIN heap'
<1>. DEFINE n == Len(heap)
<1>1. n \in Nat /\ DOMAIN heap = 1..n /\ DOMAIN whnf = 1..n /\ Len(whnf) = n
  <2>1. /\ n \in Nat /\ DOMAIN heap = 1..n
        /\ Len(whnf) \in Nat /\ DOMAIN whnf = 1..Len(whnf)
    BY SeqOf DEF GraphIn, GraphInv
  <2>2. 1..Len(whnf) = 1..n
    BY <2>1 DEF GraphIn, WhnfIn
  <2>3. \A m, k \in Nat : 1..m = 1..k => m = k
    OBVIOUS
  <2>. QED  BY <2>1, <2>2, <2>3
<1>2. /\ IsSeq(heap') /\ DOMAIN heap' = 1..(n + 1)
      /\ \A i \in 1..n : heap'[i] = heap[i]
      /\ heap'[n + 1] = e
  BY SeqAppend, SeqOf DEF GraphIn, GraphInv
<1>3. /\ IsSeq(whnf') /\ DOMAIN whnf' = 1..(n + 1)
      /\ \A i \in 1..n : whnf'[i] = whnf[i]
      /\ whnf'[n + 1] = n + 1
  BY <1>1, SeqAppend, SeqOf DEF GraphIn
<1>. HIDE DEF n
<1>4. HeapIn(heap', DOMAIN spaces')
  <2>. SUFFICES ASSUME NEW t \in 1..(n + 1) PROVE ThunkIn(heap'[t], 1..(n + 1), DOMAIN spaces)
    BY <1>2 DEF HeapIn
  <2>1. CASE t = n + 1
    BY <1>2, <2>1 DEF n
  <2>2. CASE t \in 1..n
    <3>1. ThunkIn(heap[t], 1..n, DOMAIN spaces)
      BY <1>1, <2>2 DEF GraphIn, HeapIn
    <3>2. 1..n \subseteq 1..(n + 1)
      BY <1>1
    <3>. QED  BY <1>2, <2>2, <3>1, <3>2, ThunkWider
  <2>. QED  BY <1>1, <2>1, <2>2
<1>5. WhnfIn(whnf', heap')
  BY <1>1, <1>2, <1>3 DEF GraphIn, WhnfIn
<1>6. Wider(heap', heap)
  BY <1>1, <1>2 DEF Wider
<1>7. 1..23 \subseteq DOMAIN heap'
  BY <1>6 DEF GraphIn, Wider
<1>. QED  BY <1>1, <1>2, <1>3, <1>4, <1>5, <1>6, <1>7 DEF GraphStep, GraphIn, GraphInv, n

\* References find their targets.
LEMMA SomeResolved ==
    ASSUME GraphIn, UNCHANGED <<whnf, spaces>>,
           heap' = [t \in DOMAIN heap |-> heap'[t]],
           \A t \in DOMAIN heap :
              \/ heap'[t] = heap[t]
              \/ /\ heap[t].k = "ref"
                 /\ \E d \in DOMAIN heap : heap'[t] = [heap[t] EXCEPT !.d = d]
    PROVE  GraphStep
<1>1. Len(heap) \in Nat /\ DOMAIN heap = 1..Len(heap) /\ DOMAIN heap' = DOMAIN heap
  BY SeqOf DEF GraphIn, GraphInv
<1>2. IsSeq(heap')
  BY <1>1, FunctionIsSeq
<1>3. \A t \in DOMAIN heap : ThunkIn(heap'[t], DOMAIN heap, DOMAIN spaces)
  <2>. TAKE t \in DOMAIN heap
  <2>1. ThunkIn(heap[t], DOMAIN heap, DOMAIN spaces)
    BY DEF GraphIn, HeapIn
  <2>2. ASSUME NEW d \in DOMAIN heap, heap[t].k = "ref", heap'[t] = [heap[t] EXCEPT !.d = d]
        PROVE  ThunkIn(heap'[t], DOMAIN heap, DOMAIN spaces)
    BY <2>1, <2>2 DEF ThunkIn, Fields
  <2>. QED  BY <2>1, <2>2
<1>4. \A t \in DOMAIN heap : heap[t].k = "builtin" => heap'[t] = heap[t]
  OBVIOUS
<1>. QED  BY <1>1, <1>2, <1>3, <1>4 DEF GraphStep, GraphIn, GraphInv, HeapIn, WhnfIn, Wider

LEMMA ConcatSecond ==
    ASSUME NEW s, IsSeq(s), NEW r, IsSeq(r)
    PROVE  \A i \in 1..Len(r) : (s \o r)[Len(s) + i] = r[i]
<1>1. PICK S : s \in Seq(S)
  BY DEF IsSeq
<1>2. PICK R : r \in Seq(R)
  BY DEF IsSeq
<1>3. s \in Seq(S \cup R) /\ r \in Seq(S \cup R)
  BY <1>1, <1>2
<1>4. Len(s) \in Nat /\ Len(r) \in Nat
  BY <1>1, <1>2, LenProperties
<1>5. \A i \in 1..(Len(s) + Len(r)) :
         (s \o r)[i] = IF i <= Len(s) THEN s[i] ELSE r[i - Len(s)]
  BY <1>3, ConcatProperties
<1>6. \A m, k \in Nat : \A i \in 1..k : m + i \in 1..(m + k) /\ ~(m + i <= m) /\ m + i - m = i
  OBVIOUS
<1>. QED  BY <1>4, <1>5, <1>6

\* A namespace, its wrappers and itself.
LEMMA SpaceAdded ==
    ASSUME GraphIn, NEW pairs, NEW n \in Nat, pairs = [i \in 1..n |-> pairs[i]],
           MakeSpace(pairs),
           \A i \in 1..n : pairs[i][2] \in DOMAIN heap
    PROVE  /\ GraphStep
           /\ Len(heap') \in DOMAIN heap'
           /\ SpacesIn(spaces, DOMAIN heap) => SpacesIn(spaces', DOMAIN heap')
<1>. DEFINE b == Len(heap)
            p == Len(spaces)
            wrappers == [i \in DOMAIN pairs |-> Member(pairs[i][2])]
            last == Namespace(p + 1)
            grown == [i \in 1..(n + 1) |-> 0]
<1>1. /\ b \in Nat /\ DOMAIN heap = 1..b /\ IsSeq(heap)
      /\ p \in Nat /\ DOMAIN spaces = 1..p /\ IsSeq(spaces)
      /\ Len(whnf) \in Nat /\ DOMAIN whnf = 1..Len(whnf) /\ IsSeq(whnf)
  BY SeqOf DEF GraphIn, GraphInv
<1>2. Len(whnf) = b
  <2>1. 1..Len(whnf) = 1..b
    BY <1>1 DEF GraphIn, WhnfIn
  <2>2. \A m, k \in Nat : 1..m = 1..k => m = k
    OBVIOUS
  <2>. QED  BY <1>1, <2>1, <2>2
<1>3. IsSeq(wrappers) /\ Len(wrappers) = n /\ \A i \in 1..n : wrappers[i] = Member(pairs[i][2])
  <2>1. wrappers = [i \in 1..n |-> wrappers[i]] /\ \A i \in 1..n : wrappers[i] = Member(pairs[i][2])
    OBVIOUS
  <2>. HIDE DEF wrappers
  <2>. QED  BY <2>1, FunctionIsSeq
<1>4. IsSeq(grown) /\ Len(grown) = n + 1 /\ \A i \in 1..(n + 1) : grown[i] = 0
  <2>1. grown = [i \in 1..(n + 1) |-> grown[i]] /\ \A i \in 1..(n + 1) : grown[i] = 0
    OBVIOUS
  <2>2. n + 1 \in Nat
    OBVIOUS
  <2>. HIDE DEF grown
  <2>. QED  BY <2>1, <2>2, FunctionIsSeq
<1>5. IsSeq(heap \o wrappers) /\ Len(heap \o wrappers) = b + n
  BY <1>1, <1>3, SeqConcat
<1>6. heap' = Append(heap \o wrappers, last)
  BY <1>5, ConcatFrames DEF MakeSpace
<1>7. whnf' = whnf \o grown
  <2>1. Len(pairs) = n
    BY FunctionIsSeq
  <2>. QED  BY <2>1 DEF MakeSpace
<1>8. /\ IsSeq(heap') /\ Len(heap') = b + n + 1 /\ DOMAIN heap' = 1..(b + n + 1)
      /\ \A t \in 1..b : heap'[t] = heap[t]
      /\ \A i \in 1..n : heap'[b + i] = Member(pairs[i][2])
      /\ heap'[b + n + 1] = last
  <2>1. /\ \A t \in 1..b : (heap \o wrappers)[t] = heap[t]
        /\ \A i \in 1..n : (heap \o wrappers)[b + i] = Member(pairs[i][2])
    BY <1>1, <1>3, SeqConcat, ConcatSecond
  <2>2. /\ IsSeq(heap') /\ Len(heap') = b + n + 1
        /\ \A t \in 1..(b + n) : heap'[t] = (heap \o wrappers)[t]
        /\ heap'[b + n + 1] = last
    BY <1>5, <1>6, SeqAppend
  <2>3. \A i \in 1..n : b + i \in 1..(b + n)
    BY <1>1
  <2>4. \A t \in 1..b : t \in 1..(b + n)
    BY <1>1
  <2>5. DOMAIN heap' = 1..(b + n + 1)
    BY <2>2, SeqOf
  <2>. QED  BY <2>1, <2>2, <2>3, <2>4, <2>5
<1>9. /\ IsSeq(whnf') /\ DOMAIN whnf' = 1..(b + n + 1)
      /\ \A t \in 1..b : whnf'[t] = whnf[t]
      /\ \A i \in 1..(n + 1) : whnf'[b + i] = 0
  <2>1. IsSeq(whnf') /\ Len(whnf') = b + (n + 1)
    BY <1>1, <1>2, <1>4, <1>7, SeqConcat
  <2>2. b + (n + 1) = b + n + 1
    BY <1>1
  <2>3. DOMAIN whnf' = 1..(b + n + 1)
    BY <2>1, <2>2, SeqOf
  <2>. QED  BY <1>1, <1>2, <1>4, <1>7, <2>1, <2>3, SeqConcat, ConcatSecond
<1>10. /\ IsSeq(spaces') /\ DOMAIN spaces' = 1..(p + 1)
       /\ \A s \in 1..p : spaces'[s] = spaces[s]
  BY <1>1, SeqAppend, SeqOf DEF MakeSpace
<1>11. /\ \A t \in 1..(b + n + 1) : t \in 1..b \/ t = b + n + 1 \/ \E i \in 1..n : t = b + i
       /\ \A t \in 1..(b + n + 1) : t \in 1..b \/ \E i \in 1..(n + 1) : t = b + i
       /\ 1..b \subseteq 1..(b + n + 1) /\ 1..p \subseteq 1..(p + 1)
       /\ b + n + 1 \in 1..(b + n + 1) /\ p + 1 \in 1..(p + 1)
  <2>1. \A t \in 1..(b + n + 1) : t \notin 1..b => t - b \in 1..(n + 1) /\ t = b + (t - b)
    BY <1>1
  <2>2. \A t \in 1..(b + n + 1) : t \notin 1..b /\ t # b + n + 1 => t - b \in 1..n
    BY <1>1
  <2>. QED  BY <1>1, <2>1, <2>2
<1>12. HeapIn(heap', DOMAIN spaces')
  <2>. SUFFICES ASSUME NEW t \in 1..(b + n + 1)
                PROVE  ThunkIn(heap'[t], 1..(b + n + 1), 1..(p + 1))
    BY <1>8, <1>10 DEF HeapIn
  <2>1. CASE t \in 1..b
    <3>1. ThunkIn(heap[t], 1..b, 1..p)
      BY <1>1, <2>1 DEF GraphIn, HeapIn
    <3>. QED  BY <1>8, <1>11, <2>1, <3>1, ThunkWider
  <2>2. ASSUME NEW i \in 1..n PROVE ThunkIn(Member(pairs[i][2]), 1..(b + n + 1), 1..(p + 1))
    <3>1. pairs[i][2] \in 1..(b + n + 1)
      BY <1>1, <1>11
    <3>. QED  BY <3>1 DEF ThunkIn, Fields, Member, Th, Arity
  <2>3. ThunkIn(last, 1..(b + n + 1), 1..(p + 1))
    BY <1>11 DEF ThunkIn, Fields, Namespace, Th, Arity
  <2>. QED  BY <1>8, <1>11, <2>1, <2>2, <2>3
<1>13. WhnfIn(whnf', heap')
  <2>1. \A t \in 1..b : whnf'[t] \in 1..(b + n + 1) \cup {0}
    <3>1. \A t \in 1..b : whnf[t] \in 1..b \cup {0}
      BY <1>1 DEF GraphIn, WhnfIn
    <3>. QED  BY <1>9, <1>11, <3>1
  <2>2. \A t \in 1..(b + n + 1) : whnf'[t] \in 1..(b + n + 1) \cup {0}
    BY <1>9, <1>11, <2>1
  <2>. QED  BY <1>8, <1>9, <2>2 DEF WhnfIn
<1>14. Wider(heap', heap) /\ DOMAIN spaces \subseteq DOMAIN spaces'
  BY <1>1, <1>8, <1>10, <1>11 DEF Wider
<1>15. 1..23 \subseteq DOMAIN heap'
  BY <1>14 DEF GraphIn, Wider
<1>16. GraphStep
  BY <1>8, <1>9, <1>10, <1>12, <1>13, <1>14, <1>15 DEF GraphStep, GraphIn, GraphInv
<1>17. ASSUME SpacesIn(spaces, DOMAIN heap) PROVE SpacesIn(spaces', DOMAIN heap')
  <2>. DEFINE keys == {pairs[i][1] : i \in DOMAIN pairs}
              IsLast(i, key) == pairs[i][1] = key
                  /\ \A j \in DOMAIN pairs : pairs[j][1] = key => j <= i
              LastAt(key) == CHOOSE i \in DOMAIN pairs : IsLast(i, key)
  <2>1. spaces' = Append(spaces, [key \in keys |-> b + LastAt(key)])
    BY DEF MakeSpace
  <2>2. spaces'[p + 1] = [key \in keys |-> b + LastAt(key)]
    BY <1>1, <2>1, SeqAppend
  <2>3. ASSUME NEW key \in keys PROVE LastAt(key) \in 1..n
    <3>. DEFINE T == {i \in 1..n : pairs[i][1] = key}
    <3>1. T # {}
      BY <2>3
    <3>2. \E i \in T : \A j \in T : j <= i
      BY <3>1, GreatestNumber
    <3>3. \E i \in DOMAIN pairs : IsLast(i, key)
      BY <3>2
    <3>. QED  BY <3>3
  <2>4. \A i \in 1..n : b + i \in 1..(b + n + 1)
    BY <1>1
  <2>5. \A key \in keys : b + LastAt(key) \in 1..(b + n + 1)
    BY <2>3, <2>4
  <2>. HIDE DEF keys, LastAt
  <2>6. \A key \in DOMAIN spaces'[p + 1] : spaces'[p + 1][key] \in 1..(b + n + 1)
    BY <2>2, <2>5
  <2>7. \A s \in 1..(p + 1) : s \in 1..p \/ s = p + 1
    BY <1>1
  <2>. QED  BY <1>1, <1>8, <1>10, <1>11, <1>17, <2>6, <2>7 DEF SpacesIn
<1>. QED  BY <1>8, <1>11, <1>16, <1>17

-----------------------------------------------------------------------------
(* Names and control *)

LEMMA NamesKept ==
    ASSUME NamesIn, GraphStep, UNCHANGED <<env, spaces, cache, imports>>
    PROVE  NamesIn'
BY DEF NamesIn, GraphStep, Wider, EnvIn, SpacesIn, ImportsIn

LEMMA PendingKept ==
    ASSUME NEW H, NEW H2, H \subseteq H2, NEW p \in Seq(Runs(H))
    PROVE  p \in Seq(Runs(H2))
<1>1. Runs(H) \subseteq Runs(H2)
  BY DEF Runs
<1>. QED  BY <1>1, SeqWider

LEMMA ControlMoved ==
    ASSUME ControlIn, GraphStep, UNCHANGED pending,
           CtlIn(ctl', DOMAIN heap'), StackIn(stack', heap')
    PROVE  ControlIn'
BY PendingKept DEF ControlIn, GraphStep, Wider

\* The four things a step does to the stack.
LEMMA StackMoves ==
    ASSUME StackInv, ControlIn, GraphStep
    PROVE  /\ stack' = stack => StackIn(stack', heap')
           /\ stack # <<>> /\ Pop => StackIn(stack', heap')
           /\ \A fr : FrameIn(fr, heap') /\ Push(fr) => StackIn(stack', heap')
           /\ \A fr : FrameIn(fr, heap') /\ stack # <<>> /\ Switch(fr) => StackIn(stack', heap')
<1>1. IsSeq(stack) /\ StackIn(stack, heap')
  BY StackWider DEF StackInv, Sound, ControlIn, GraphStep
<1>. QED  BY <1>1, StackPopped, StackPushed, StackSwitched DEF Pop, Push, Switch

LEMMA EmptyIn == \A S : <<>> \in Seq(S)
OBVIOUS

LEMMA OneIn == \A S : \A e \in S : <<e>> \in Seq(S)
OBVIOUS

\* The first of some elements, and the others.
LEMMA SeqParts ==
    ASSUME NEW S, NEW s \in Seq(S), s # <<>>
    PROVE  s[1] \in S /\ Tail(s) \in Seq(S) /\ Len(s) \in Nat /\ Len(s) >= 1
<1>1. Len(s) \in Nat /\ Len(s) # 0
  BY EmptySeq, LenProperties
<1>. QED  BY <1>1, HeadTailProperties, ElementOfSeq

LEMMA SeqJoined == ASSUME NEW S, NEW s \in Seq(S), NEW r \in Seq(S) PROVE s \o r \in Seq(S)
OBVIOUS

\* A frame that waits, and one that writes a memo.
LEMMA WaitIn ==
    ASSUME NEW h, NEW f \in {"then", "pick", "conv", "top"}, NEW t, NEW args \in Seq(DOMAIN h), NEW vals
    PROVE  FrameIn(Fr(f, t, args, vals), h)
BY DEF FrameIn, Fr

LEMMA MemoIn ==
    ASSUME StackInv, ControlIn, GraphStep, NEW t \in DOMAIN heap, NEW args,
           stack' = stack \o Memo(t, args)
    PROVE  StackIn(stack', heap')
<1>1. IsSeq(stack)
  BY DEF StackInv, Sound
<1>2. CASE args = <<>>
  <2>1. Push(Fr("memo", t, <<>>, <<>>))
    BY <1>1, <1>2, ConcatFrames DEF Memo, Push
  <2>2. t \in DOMAIN heap'
    BY DEF GraphStep, Wider
  <2>3. FrameIn(Fr("memo", t, <<>>, <<>>), heap')
    BY <2>2, EmptyIn DEF FrameIn, Fr
  <2>. QED  BY <2>1, <2>3, StackMoves
<1>3. CASE args # <<>>
  <2>1. stack' = stack
    BY <1>1, <1>3, ConcatFrames DEF Memo
  <2>. QED  BY <2>1, StackMoves
<1>. QED  BY <1>2, <1>3

LEMMA CtlCalls ==
    ASSUME NEW H
    PROVE  /\ \A t \in H : \A args \in Seq(H) : CtlIn(Eval(t, args), H)
           /\ \A t \in H \cup {0} : CtlIn(Ret(t), H)
           /\ \A name : CtlIn(Load(name), H)
           /\ CtlIn(Idle, H) /\ CtlIn(Exited, H)
BY EmptyIn DEF CtlIn, Eval, Ret, Load, Idle, Exited, C

\* What is evaluated is a thunk of the heap.
LEMMA Evaluated ==
    ASSUME Typed, ctl.m = "eval"
    PROVE  /\ ctl.t \in DOMAIN heap
           /\ ctl.args \in Seq(DOMAIN heap)
           /\ ThunkIn(heap[ctl.t], DOMAIN heap, DOMAIN spaces)
           /\ whnf[ctl.t] \in DOMAIN heap \cup {0}
BY DEF Typed, ControlIn, CtlIn, GraphIn, HeapIn, WhnfIn

LEMMA StaticThere == ASSUME Typed PROVE 1..23 \subseteq DOMAIN heap
BY DEF Typed, GraphIn

LEMMA NextSegment == ASSUME NEW s, IsSeq(s) PROVE DOMAIN s \subseteq 1..(Len(s) + 1)
<1>1. \A m \in Nat : 1..m \subseteq 1..(m + 1)
  OBVIOUS
<1>. QED  BY <1>1, SeqOf

LEMMA EvaluateTyped == ASSUME Typed, StackInv, Evaluate PROVE Typed'
<1>. DEFINE H == DOMAIN heap
            th == heap[ctl.t]
<1>0. Typed /\ GraphIn /\ NamesIn /\ ControlIn /\ UNCHANGED <<pending, spaces, cache, imports>>
  BY DEF Evaluate, EvalKnown, EvalValue, EvalConstructor, EvalApplication, EvalLambda,
     EvalReference, EvalMember, EvalDenied, EvalPartial, EvalAtOnce, EvalHandler, quiet,
     library, Typed
<1>1. ctl.m = "eval" /\ UNCHANGED env
  BY DEF Evaluate, EvalKnown, EvalValue, EvalConstructor, EvalApplication, EvalLambda,
     EvalReference, EvalMember, EvalDenied, EvalPartial, EvalAtOnce, EvalHandler,
     Evaluating, Applied, Called
<1>2. /\ ctl.t \in H /\ ctl.args \in Seq(H) /\ ThunkIn(th, H, DOMAIN spaces)
      /\ whnf[ctl.t] \in H \cup {0} /\ Err \in H
  BY <1>0, <1>1, Evaluated, StaticThere DEF Err
<1>3. ASSUME GraphStep, CtlIn(ctl', DOMAIN heap'), StackIn(stack', heap') PROVE Typed'
  BY <1>0, <1>1, <1>3, NamesKept, ControlMoved DEF Typed, GraphStep
<1>4. ASSUME UNCHANGED graph, CtlIn(ctl', H), StackIn(stack', heap') PROVE Typed'
  BY <1>0, <1>3, <1>4, GraphSame DEF graph
<1>5. ASSUME UNCHANGED graph PROVE GraphStep /\ heap' = heap
  BY <1>0, <1>5, GraphSame DEF graph
<1>. HIDE DEF H, th
<1>6. CASE EvalKnown
  <2>1. CtlIn(ctl', H)
    BY <1>2, <1>6, CtlCalls DEF EvalKnown
  <2>. QED  BY <1>0, <1>4, <1>5, <1>6, <2>1, StackMoves DEF EvalKnown
<1>7. CASE EvalValue
  <2>1. \E t \in H \cup {0} : ctl' = Ret(t)
    BY <1>2, <1>7 DEF EvalValue
  <2>2. CtlIn(ctl', H)
    BY <2>1, CtlCalls
  <2>. QED  BY <1>0, <1>4, <1>5, <1>7, <2>2, StackMoves DEF EvalValue
<1>8. CASE EvalConstructor
  <2>. DEFINE e == [th EXCEPT !.a = @ \o ctl.args]
              n == Len(heap) + 1
  <2>1. H \subseteq 1..n
    BY <1>0, NextSegment DEF GraphIn, GraphInv, H
  <2>2. th.a \o ctl.args \in Seq(1..n)
    <3>1. th.a \o ctl.args \in Seq(H)
      BY <1>2, SeqJoined DEF ThunkIn
    <3>. HIDE DEF n
    <3>. QED  BY <2>1, <3>1, SeqWider
  <2>3. th.k = "con" /\ DOMAIN th = Fields
    BY <1>2, <1>8 DEF EvalConstructor, Evaluating, ThunkIn, th
  <2>4. e.a = th.a \o ctl.args /\ e.k = "con" /\ DOMAIN e = Fields
    BY <2>3 DEF Fields
  <2>5. ThunkIn(e, 1..n, DOMAIN spaces)
    BY <2>2, <2>4 DEF ThunkIn
  <2>6. heap' = Append(heap, e) /\ whnf' = Append(whnf, n) /\ ctl' = Ret(n)
    BY <1>8 DEF EvalConstructor, th
  <2>7. GraphStep /\ n \in DOMAIN heap'
    BY <1>0, <2>5, <2>6, OneMore
  <2>8. CtlIn(ctl', DOMAIN heap')
    BY <2>6, <2>7, CtlCalls
  <2>. QED  BY <1>0, <1>3, <1>8, <2>7, <2>8, StackMoves DEF EvalConstructor
<1>9. CASE EvalApplication
  <2>1. th.a \in Seq(H) /\ th.a # <<>>
    BY <1>2, <1>9 DEF EvalApplication, Evaluating, ThunkIn, th
  <2>2. th.a[1] \in H /\ Tail(th.a) \o ctl.args \in Seq(H)
    BY <1>2, <2>1, SeqParts, SeqJoined
  <2>3. CtlIn(ctl', H)
    BY <1>9, <2>2, CtlCalls DEF EvalApplication, th
  <2>. QED  BY <1>0, <1>2, <1>4, <1>5, <1>9, <2>3, MemoIn DEF EvalApplication, H
<1>10. CASE EvalLambda
  <2>1. th.a \in Seq(H) /\ th.a # <<>> /\ ctl.args # <<>>
    BY <1>2, <1>10 DEF EvalLambda, Evaluating, ThunkIn, th
  <2>2. th.a[1] \in H /\ Tail(ctl.args) \in Seq(H)
    BY <1>2, <2>1, SeqParts
  <2>3. CtlIn(ctl', H)
    BY <1>10, <2>2, CtlCalls DEF EvalLambda, th
  <2>. QED  BY <1>0, <1>4, <1>5, <1>10, <2>3, StackMoves DEF EvalLambda
<1>11. CASE EvalReference
  <2>. DEFINE n == <<"plain", th.op>>
  <2>1. th.k = "ref" /\ th.d \in H \cup {0} /\ (n \in DOMAIN env => env[n] \in H)
    BY <1>0, <1>2, <1>11 DEF EvalReference, Evaluating, ThunkIn, NamesIn, EnvIn, H, th
  <2>2. /\ UNCHANGED whnf
        /\ \/ heap' = heap
           \/ \E d \in H : heap' = [heap EXCEPT ![ctl.t] = [th EXCEPT !.d = d]]
        /\ \/ \E t \in H : ctl' = Eval(t, ctl.args)
           \/ ctl' = Ret(Err)
        /\ stack' = stack \o Memo(ctl.t, ctl.args)
    BY <1>2, <1>11, <2>1 DEF EvalReference, th
  <2>3. GraphStep /\ DOMAIN heap' = H
    <3>1. CASE heap' = heap
      BY <1>0, <2>2, <3>1, GraphSame DEF graph, H
    <3>2. ASSUME NEW d \in H, heap' = [heap EXCEPT ![ctl.t] = [th EXCEPT !.d = d]]
          PROVE  GraphStep /\ DOMAIN heap' = H
      <4>1. heap' = [t \in DOMAIN heap |-> heap'[t]] /\ DOMAIN heap' = H
        BY <3>2 DEF H
      <4>2. \A t \in DOMAIN heap : heap'[t] = heap[t] \/ (t = ctl.t /\ heap'[t] = [th EXCEPT !.d = d])
        BY <3>2
      <4>3. \A t \in DOMAIN heap :
               \/ heap'[t] = heap[t]
               \/ /\ heap[t].k = "ref"
                  /\ \E f \in DOMAIN heap : heap'[t] = [heap[t] EXCEPT !.d = f]
        BY <2>1, <4>2 DEF th, H
      <4>. QED  BY <1>0, <2>2, <4>1, <4>3, SomeResolved
    <3>. QED  BY <2>2, <3>1, <3>2
  <2>4. CtlIn(ctl', DOMAIN heap')
    BY <1>2, <2>2, <2>3, CtlCalls
  <2>5. StackIn(stack', heap')
    BY <1>0, <1>2, <2>2, <2>3, MemoIn DEF H
  <2>. QED  BY <1>3, <2>3, <2>4, <2>5
<1>12. CASE EvalMember
  <2>1. UNCHANGED graph /\ GraphStep /\ heap' = heap
    BY <1>5, <1>12 DEF EvalMember
  <2>2. CtlIn(ctl', H)
    <3>1. th.d \in H
      BY <1>2, <1>12 DEF EvalMember, Evaluating, ThunkIn, th
    <3>. QED  BY <1>12, <3>1, CtlCalls, EmptyIn DEF EvalMember, th
  <2>3. IsSeq(stack) /\ StackIn(stack, heap')
    BY <1>0, <2>1 DEF StackInv, Sound, ControlIn
  <2>4. CASE ctl.args = <<>>
    <3>. DEFINE a == Fr("memo", ctl.t, <<>>, <<>>)
                c == Fr("conv", 0, <<>>, <<>>)
    <3>1. stack' = Append(Append(stack, a), c)
      BY <1>12, <2>3, <2>4, ConcatFrames DEF EvalMember
    <3>2. FrameIn(a, heap')
      BY <1>2, <2>1, EmptyIn DEF FrameIn, Fr, H
    <3>3. FrameIn(c, heap')
      BY EmptyIn, WaitIn
    <3>4. IsSeq(Append(stack, a)) /\ StackIn(Append(stack, a), heap')
      BY <2>3, <3>2, SeqAppend, StackPushed
    <3>5. StackIn(stack', heap')
      BY <3>1, <3>3, <3>4, StackPushed
    <3>. QED  BY <1>4, <2>1, <2>2, <3>5
  <2>5. CASE ctl.args # <<>>
    <3>1. stack' = Append(stack, Fr("then", 0, ctl.args, <<>>))
      BY <1>12, <2>3, <2>5, ConcatFrames DEF EvalMember
    <3>2. FrameIn(Fr("then", 0, ctl.args, <<>>), heap')
      BY <1>2, <2>1, WaitIn DEF H
    <3>3. StackIn(stack', heap')
      BY <2>3, <3>1, <3>2, StackPushed
    <3>. QED  BY <1>4, <2>1, <2>2, <3>3
  <2>. QED  BY <2>4, <2>5
<1>13. CASE EvalDenied
  <2>1. CtlIn(ctl', H)
    BY <1>13, CtlCalls DEF EvalDenied
  <2>. QED  BY <1>0, <1>4, <1>5, <1>13, <2>1, StackMoves DEF EvalDenied
<1>14. CASE EvalPartial
  <2>. DEFINE e == Th("appl", "", <<ctl.t>> \o ctl.args, 0, 0, FALSE)
              n == Len(heap) + 1
  <2>1. H \subseteq 1..n
    BY <1>0, NextSegment DEF GraphIn, GraphInv, H
  <2>2. <<ctl.t>> \o ctl.args \in Seq(H) /\ <<ctl.t>> \o ctl.args # <<>>
    BY <1>2, OneIn, SeqJoined
  <2>3. e.a \in Seq(1..n) /\ e.a # <<>>
    <3>1. <<ctl.t>> \o ctl.args \in Seq(1..n)
      <4>. HIDE DEF n
      <4>. QED  BY <2>1, <2>2, SeqWider
    <3>. QED  BY <2>2, <3>1 DEF Th
  <2>4. ThunkIn(e, 1..n, DOMAIN spaces)
    BY <2>3 DEF ThunkIn, Th, Fields
  <2>5. heap' = Append(heap, e) /\ whnf' = Append(whnf, n) /\ ctl' = Ret(n)
    BY <1>14 DEF EvalPartial
  <2>6. GraphStep /\ n \in DOMAIN heap'
    BY <1>0, <2>4, <2>5, OneMore
  <2>7. CtlIn(ctl', DOMAIN heap')
    BY <2>5, <2>6, CtlCalls
  <2>. QED  BY <1>0, <1>3, <1>14, <2>6, <2>7, StackMoves DEF EvalPartial
<1>15. CASE EvalAtOnce
  <2>1. ctl.args # <<>>
    BY <1>15 DEF EvalAtOnce, Called, Applied
  <2>2. ctl.args[1] \in H /\ Tail(ctl.args) \in Seq(H)
    BY <1>2, <2>1, SeqParts
  <2>3. ctl' = Eval(ctl.args[1], Tail(ctl.args)) \/ ctl' = Ret(Err)
    BY <1>15 DEF EvalAtOnce
  <2>4. CtlIn(ctl', H)
    BY <1>2, <2>2, <2>3, CtlCalls
  <2>. QED  BY <1>0, <1>4, <1>5, <1>15, <2>4, StackMoves DEF EvalAtOnce
<1>16. CASE EvalHandler
  <2>. DEFINE fr == Fr(Waits(th.op), ctl.t, ctl.args, <<>>)
  <2>1. ctl.args # <<>> /\ th.k = "builtin" /\ Len(ctl.args) >= th.n
    BY <1>16 DEF EvalHandler, Called, Applied, Evaluating, th
  <2>2. ctl.args[1] \in H
    BY <1>2, <2>1, SeqParts
  <2>3. CtlIn(ctl', H)
    BY <1>16, <2>2, CtlCalls, EmptyIn DEF EvalHandler
  <2>4. UNCHANGED graph /\ GraphStep /\ heap' = heap
    BY <1>5, <1>16 DEF EvalHandler
  <2>5. th.op = "nslit" => 2 * (Len(<<>>) + 1) <= th.n
    BY <1>2, <2>1 DEF ThunkIn, Arity
  <2>6. FrameIn(fr, heap')
    BY <1>2, <2>1, <2>4, <2>5 DEF FrameIn, Fr, th, H
  <2>7. Push(fr)
    BY <1>16 DEF EvalHandler, th
  <2>. QED  BY <1>0, <1>4, <2>3, <2>4, <2>6, <2>7, StackMoves
<1>. QED  BY <1>6, <1>7, <1>8, <1>9, <1>10, <1>11, <1>12, <1>13, <1>14, <1>15, <1>16 DEF Evaluate

\* The frame on top, which belongs to the handler op.
LEMMA TopIn == ASSUME Typed, StackInv, stack # <<>> PROVE FrameIn(Top, heap)
BY StackPopped DEF Typed, ControlIn, StackInv, Sound, Top

LEMMA HandlerIn ==
    ASSUME Typed, StackInv, stack # <<>>, Top.f \in {"arg", "act", "begun"}
    PROVE  /\ Top.t \in DOMAIN heap
           /\ This.k = "builtin" /\ ThunkIn(This, DOMAIN heap, DOMAIN spaces) /\ This.n \in Nat
           /\ Top.args \in Seq(DOMAIN heap) /\ Len(Top.args) >= This.n /\ Top.args # <<>>
           /\ Rest \in Seq(DOMAIN heap)
           /\ Len(Top.args) \in Nat
<1>1. /\ Top.t \in DOMAIN heap /\ This.k = "builtin"
      /\ Top.args \in Seq(DOMAIN heap) /\ Len(Top.args) >= This.n /\ Top.args # <<>>
  BY TopIn DEF FrameIn, This
<1>2. ThunkIn(This, DOMAIN heap, DOMAIN spaces)
  BY <1>1 DEF Typed, GraphIn, HeapIn, This
<1>3. This.n \in Nat
  BY <1>1, <1>2 DEF ThunkIn, Arity
<1>4. Len(Top.args) \in Nat
  BY <1>1, LenProperties
<1>5. \A i \in (This.n + 1)..Len(Top.args) : Top.args[i] \in DOMAIN heap
  <2>1. \A i \in 1..Len(Top.args) : Top.args[i] \in DOMAIN heap
    BY <1>1, ElementOfSeq
  <2>2. \A m, k \in Nat : (m + 1)..k \subseteq 1..k
    OBVIOUS
  <2>. QED  BY <1>3, <1>4, <2>1, <2>2
<1>6. Rest \in Seq(DOMAIN heap)
  BY <1>3, <1>4, <1>5, SubSeqProperties DEF Rest
<1>. QED  BY <1>1, <1>2, <1>3, <1>4, <1>6

LEMMA ReturnTyped == ASSUME Typed, StackInv, Return PROVE Typed'
<1>. DEFINE H == DOMAIN heap
<1>0. /\ Typed /\ GraphIn /\ NamesIn /\ ControlIn
      /\ UNCHANGED <<pending, spaces, cache, imports, env, heap>>
      /\ ctl.m = "ret" /\ stack # <<>> /\ Pop
  BY DEF Return, ReturnMemo, ReturnConv, ReturnThen, ReturnPick, ReturnTop, Returned, quiet,
     library, graph, Typed
<1>1. ctl.t \in H \cup {0} /\ Err \in H /\ SymLt \in H
  BY <1>0, StaticThere DEF ControlIn, CtlIn, Err, SymLt
<1>2. FrameIn(Top, heap)
  BY <1>0, TopIn
<1>3. GraphStep
  <2>1. CASE UNCHANGED graph
    BY <1>0, <2>1, GraphSame
  <2>2. CASE whnf' = [whnf EXCEPT ![Top.t] = ctl.t]
    <3>1. IsSeq(whnf) /\ WhnfIn(whnf, heap)
      BY <1>0 DEF GraphIn
    <3>2. /\ IsSeq(whnf') /\ DOMAIN whnf' = DOMAIN whnf
          /\ \A t \in DOMAIN whnf : t # Top.t => whnf'[t] = whnf[t]
          /\ Top.t \in DOMAIN whnf => whnf'[Top.t] = ctl.t
      BY <2>2, <3>1, UpdateExtends
    <3>3. WhnfIn(whnf', heap)
      BY <1>1, <3>1, <3>2 DEF WhnfIn, H
    <3>. QED  BY <1>0, <3>2, <3>3, WiderSame DEF GraphStep, GraphIn, GraphInv
  <2>. QED  BY <2>1, <2>2 DEF Return, ReturnMemo, ReturnConv, ReturnThen, ReturnPick, ReturnTop
<1>4. CtlIn(ctl', H)
  <2>1. CASE ReturnMemo
    BY <1>0, <2>1 DEF ReturnMemo, ControlIn, H
  <2>2. CASE ReturnConv
    BY <1>0, <1>1, <2>2, CtlCalls DEF ReturnConv, ControlIn, H
  <2>3. CASE ReturnThen
    BY <1>1, <1>2, <2>3, CtlCalls DEF ReturnThen, FrameIn, H
  <2>4. CASE ReturnPick
    BY <1>1, <2>4, CtlCalls, OneIn DEF ReturnPick
  <2>5. CASE ReturnTop
    BY <2>5, CtlCalls DEF ReturnTop
  <2>. QED  BY <2>1, <2>2, <2>3, <2>4, <2>5 DEF Return
<1>5. StackIn(stack', heap')
  BY <1>0, <1>3, StackMoves
<1>. QED  BY <1>0, <1>3, <1>4, <1>5, NamesKept, ControlMoved DEF Typed, GraphStep

\* A handler's answer, and what it leaves to the call that answers for it.
LEMMA AnswerIn ==
    ASSUME Typed, StackInv, stack # <<>>, Top.f \in {"arg", "act", "begun"}, GraphStep
    PROVE  /\ \A t \in DOMAIN heap' :
                 Answer(t) => CtlIn(ctl', DOMAIN heap') /\ StackIn(stack', heap')
           /\ \A control : CtlIn(control, DOMAIN heap') /\ AnswerOf(control)
                 => CtlIn(ctl', DOMAIN heap') /\ StackIn(stack', heap')
<1>1. Rest \in Seq(DOMAIN heap')
  BY HandlerIn, SeqWider DEF GraphStep, Wider
<1>2. FrameIn(Fr("then", 0, Rest, <<>>), heap')
  BY <1>1, WaitIn
<1>3. ControlIn
  BY DEF Typed
<1>4. ASSUME NEW t \in DOMAIN heap', Answer(t)
      PROVE  CtlIn(ctl', DOMAIN heap') /\ StackIn(stack', heap')
  <2>1. Pop /\ ctl' = Eval(t, Rest)
    BY <1>4 DEF Answer
  <2>. QED  BY <1>1, <1>3, <2>1, CtlCalls, StackMoves
<1>5. ASSUME NEW control, CtlIn(control, DOMAIN heap'), AnswerOf(control)
      PROVE  CtlIn(ctl', DOMAIN heap') /\ StackIn(stack', heap')
  <2>1. Switch(Fr("then", 0, Rest, <<>>)) /\ ctl' = control
    BY <1>5 DEF AnswerOf
  <2>. QED  BY <1>2, <1>3, <1>5, <2>1, StackMoves
<1>. QED  BY <1>4, <1>5

\* A handler that changes no graph and no names.
LEMMA QuietAnswer ==
    ASSUME Typed, StackInv, stack # <<>>, Top.f \in {"arg", "act", "begun"},
           UNCHANGED <<graph, spaces, cache, imports, env, pending>>,
           \/ \E t \in DOMAIN heap : Answer(t)
           \/ \E control : CtlIn(control, DOMAIN heap) /\ AnswerOf(control)
    PROVE  Typed'
<1>1. GraphStep /\ heap' = heap
  BY GraphSame DEF Typed, graph
<1>2. CtlIn(ctl', DOMAIN heap') /\ StackIn(stack', heap')
  BY <1>1, AnswerIn
<1>. QED  BY <1>1, <1>2, NamesKept, ControlMoved DEF Typed, GraphStep

\* The frame on top belongs to a builtin, and its argument is a thunk.
LEMMA GivenIn ==
    ASSUME Typed, StackInv, NEW op, Given(op)
    PROVE  /\ stack # <<>> /\ Top.f \in {"arg", "act", "begun"} /\ This.op = op
           /\ ctl.t \in DOMAIN heap /\ ThunkIn(Value, DOMAIN heap, DOMAIN spaces)
           /\ ctl.m = "ret"
<1>1. /\ stack # <<>> /\ Top.f = Waits(op) /\ This.op = op /\ ctl.m = "ret"
      /\ ~Refuses(op, ctl.t)
  BY DEF Given, Handler, Returned
<1>2. Top.f \in {"arg", "act", "begun"}
  BY <1>1 DEF Waits
<1>3. ctl.t # 0
  BY <1>1 DEF Refuses
<1>4. ctl.t \in DOMAIN heap
  BY <1>1, <1>3 DEF Typed, ControlIn, CtlIn
<1>. QED  BY <1>1, <1>2, <1>4 DEF Typed, GraphIn, HeapIn, Value

LEMMA HandleTyped == ASSUME Typed, StackInv, Handle PROVE Typed'
<1>. DEFINE H == DOMAIN heap
            Called_ == stack # <<>> /\ Top.f \in {"arg", "act", "begun"}
<1>0. Typed /\ GraphIn /\ NamesIn /\ ControlIn /\ UNCHANGED <<pending, cache>>
  BY DEF Handle, Refuse, Dispatch, DispatchEnv, Lookup, Members, Literal, Continue,
     PrintLine, Exit, Compare, Import, ImportNothing, CallLoader, quiet, library, Typed
<1>1. 1..23 \subseteq H /\ Err \in H /\ Unit \in H /\ True \in H /\ False \in H
      /\ EnvOps \in H /\ Setter \in H
  BY StaticThere DEF Err, Unit, True, False, EnvOps, Setter
<1>2. CASE Refuse
  <2>1. stack # <<>> /\ Pop /\ ctl' = Ret(Err)
        /\ UNCHANGED <<graph, spaces, imports, env>>
    BY <1>2 DEF Refuse, Refused, Returned, quiet
  <2>2. GraphStep /\ heap' = heap
    BY <1>0, <2>1, GraphSame DEF graph
  <2>3. CtlIn(ctl', DOMAIN heap') /\ StackIn(stack', heap')
    BY <1>0, <1>1, <2>1, <2>2, CtlCalls, StackMoves
  <2>. QED  BY <1>0, <2>1, <2>2, <2>3, NamesKept, ControlMoved DEF Typed, GraphStep
<1>3. CASE Dispatch
  <2>1. Called_ /\ UNCHANGED <<graph, spaces, cache, imports, env, pending>>
    BY <1>3, GivenIn DEF Dispatch, quiet, library
  <2>2. CASE Value.k = "con" /\ Value.op = "lt"
    <3>. DEFINE front == SubSeq(stack, 1, Len(stack) - 1)
                a == Fr("then", 0, Rest, <<>>)
                c == Fr("pick", 0, <<>>, <<>>)
    <3>1. GraphStep /\ heap' = heap
      BY <1>0, <2>1, GraphSame DEF graph
    <3>2. IsSeq(front) /\ StackIn(front, heap)
      BY <1>0, <2>1, StackPopped DEF StackInv, Sound, ControlIn
    <3>3. FrameIn(a, heap) /\ FrameIn(c, heap)
      BY <2>1, HandlerIn, WaitIn, EmptyIn
    <3>4. stack' = front \o <<a, c>> /\ ctl' = Load("core")
      BY <1>3, <2>2 DEF Dispatch
    <3>5. stack' = Append(Append(front, a), c)
      BY <3>2, <3>4, ConcatFrames
    <3>6. IsSeq(Append(front, a)) /\ StackIn(Append(front, a), heap)
      BY <3>2, <3>3, SeqAppend, StackPushed
    <3>7. StackIn(stack', heap')
      BY <3>1, <3>3, <3>5, <3>6, StackPushed
    <3>8. CtlIn(ctl', DOMAIN heap')
      BY <3>4, CtlCalls
    <3>. QED  BY <1>0, <2>1, <3>1, <3>7, <3>8, NamesKept, ControlMoved DEF Typed, GraphStep
  <2>3. CASE ~(Value.k = "con" /\ Value.op = "lt")
    <3>1. \A name \in DOMAIN Dispatched : Dispatched[name] \in 1..23
      BY DEF Dispatched
    <3>2. \E t \in H : Answer(t)
      BY <1>1, <1>3, <2>3, <3>1 DEF Dispatch
    <3>. QED  BY <2>1, <3>2, QuietAnswer
  <2>. QED  BY <2>2, <2>3
<1>4. CASE DispatchEnv
  <2>1. Called_ /\ UNCHANGED <<graph, spaces, cache, imports, env, pending>>
    BY <1>4, GivenIn DEF DispatchEnv, quiet, library
  <2>2. \A name \in DOMAIN EnvDispatched : EnvDispatched[name] \in 1..23
    BY DEF EnvDispatched
  <2>3. \E t \in H : Answer(t)
    BY <1>1, <1>4, <2>2 DEF DispatchEnv
  <2>. QED  BY <2>1, <2>3, QuietAnswer
<1>5. CASE Lookup
  <2>1. Called_ /\ This.op = "namespace" /\ UNCHANGED <<graph, spaces, cache, imports, env, pending>>
    BY <1>5, GivenIn DEF Lookup, quiet, library
  <2>2. This.d \in DOMAIN spaces
    BY <2>1, HandlerIn DEF ThunkIn
  <2>3. \A key \in DOMAIN spaces[This.d] : spaces[This.d][key] \in H
    BY <1>0, <2>2 DEF NamesIn, SpacesIn
  <2>4. \E t \in H : Answer(t)
    BY <1>1, <1>5, <2>3 DEF Lookup
  <2>. QED  BY <2>1, <2>4, QuietAnswer
<1>6. CASE Members
  <2>. DEFINE e == [Con(":") EXCEPT !.d = Value.d]
              n == Len(heap) + 1
  <2>1. Called_ /\ UNCHANGED <<spaces, cache, imports, env, pending>>
    BY <1>6, GivenIn DEF Members, quiet, library
  <2>2. e.a = <<>> /\ e.k = "con" /\ DOMAIN e = Fields
    BY DEF Con, Th, Fields
  <2>3. ThunkIn(e, 1..n, DOMAIN spaces)
    BY <2>2, EmptyIn DEF ThunkIn
  <2>4. heap' = Append(heap, e) /\ whnf' = Append(whnf, n) /\ Answer(n)
    BY <1>6 DEF Members
  <2>5. GraphStep /\ n \in DOMAIN heap'
    BY <1>0, <2>1, <2>3, <2>4, OneMore
  <2>6. CtlIn(ctl', DOMAIN heap') /\ StackIn(stack', heap')
    BY <2>1, <2>4, <2>5, AnswerIn
  <2>. QED  BY <1>0, <2>1, <2>5, <2>6, NamesKept, ControlMoved DEF Typed, GraphStep
<1>7. CASE Literal
  <2>. DEFINE keys == Append(Top.vals, Value.op)
              n == Len(keys)
              pairs == [i \in 1..n |-> <<keys[i], Top.args[2 * i]>>]
              fr == Fr("arg", Top.t, Top.args, keys)
  <2>1. /\ Called_ /\ This.op = "nslit" /\ Top.f = "arg"
        /\ UNCHANGED <<cache, imports, env, pending>>
    BY <1>7, GivenIn DEF Literal, library, Given, Handler, Returned, Waits, Effectful
  <2>2. IsSeq(Top.vals)
    <3>1. Len(stack) \in DOMAIN stack
      BY <2>1, SeqOf, SeqFront DEF StackInv, Sound
    <3>. QED  BY <3>1 DEF StackInv, Sound, Top
  <2>3. n = Len(Top.vals) + 1 /\ n \in Nat /\ n >= 1
    BY <2>2, SeqOf, SeqAppend
  <2>4. /\ This.n \in {2, 4} /\ 2 * n <= This.n
        /\ Top.args \in Seq(H) /\ Len(Top.args) \in Nat /\ Len(Top.args) >= This.n
    <3>1. FrameIn(Top, heap)
      BY <2>1, TopIn
    <3>2. ThunkIn(This, H, DOMAIN spaces) /\ This.k = "builtin" /\ Len(Top.args) \in Nat
      BY <2>1, HandlerIn
    <3>. HIDE DEF n
    <3>. QED  BY <2>1, <2>3, <3>1, <3>2 DEF FrameIn, ThunkIn, Arity, This
  <2>5. \A i \in 1..Len(Top.args) : Top.args[i] \in H
    BY <2>4, ElementOfSeq
  <2>6. CASE 2 * n < This.n
    <3>1. UNCHANGED <<graph, spaces>> /\ Switch(fr) /\ ctl' = Eval(Top.args[2 * n + 1], <<>>)
      BY <1>7, <2>6 DEF Literal
    <3>2. GraphStep /\ heap' = heap
      BY <1>0, <3>1, GraphSame DEF graph
    <3>. HIDE DEF n
    <3>3. 2 * n + 1 \in 1..Len(Top.args) /\ 2 * (n + 1) <= This.n
      BY <2>3, <2>4, <2>6
    <3>4. CtlIn(ctl', H)
      BY <2>5, <3>1, <3>3, CtlCalls, EmptyIn
    <3>5. FrameIn(fr, heap')
      <4>1. FrameIn(Top, heap)
        BY <2>1, TopIn
      <4>2. fr.vals = keys /\ Len(keys) = n /\ fr.f = "arg" /\ fr.t = Top.t /\ fr.args = Top.args
        BY DEF Fr, n
      <4>. HIDE DEF fr, keys
      <4>. QED  BY <2>1, <3>2, <3>3, <4>1, <4>2 DEF FrameIn, This
    <3>6. StackIn(stack', heap')
      BY <1>0, <2>1, <3>1, <3>2, <3>5, StackMoves
    <3>. QED  BY <1>0, <2>1, <3>1, <3>2, <3>4, <3>6, NamesKept, ControlMoved DEF Typed, GraphStep
  <2>7. CASE ~(2 * n < This.n)
    <3>1. MakeSpace(pairs) /\ Answer(Len(heap'))
      BY <1>7, <2>7 DEF Literal
    <3>. HIDE DEF n
    <3>2. \A i \in 1..n : 2 * i \in 1..Len(Top.args)
      BY <2>3, <2>4
    <3>3. pairs = [i \in 1..n |-> pairs[i]] /\ \A i \in 1..n : pairs[i][2] \in H
      BY <2>5, <3>2
    <3>. HIDE DEF pairs
    <3>4. /\ GraphStep /\ Len(heap') \in DOMAIN heap'
          /\ SpacesIn(spaces, H) => SpacesIn(spaces', DOMAIN heap')
      BY <1>0, <2>3, <3>1, <3>3, SpaceAdded
    <3>5. NamesIn'
      BY <1>0, <2>1, <3>4 DEF NamesIn, GraphStep, Wider, EnvIn, ImportsIn
    <3>6. CtlIn(ctl', DOMAIN heap') /\ StackIn(stack', heap')
      BY <2>1, <3>1, <3>4, AnswerIn
    <3>. QED  BY <1>0, <2>1, <3>4, <3>5, <3>6, ControlMoved DEF Typed, GraphStep
  <2>. QED  BY <2>6, <2>7
<1>8. CASE Continue
  <2>1. /\ Called_ /\ This.op \in {"chain", "bind"} /\ ctl.t \in H
        /\ UNCHANGED <<graph, spaces, cache, imports, env, pending>>
    BY <1>8, GivenIn DEF Continue, quiet, library
  <2>2. Top.args[2] \in H
    <3>1. This.n = 2
      BY <2>1, HandlerIn DEF ThunkIn, Arity
    <3>. QED  BY <2>1, <3>1, HandlerIn, ElementOfSeq
  <2>3. \E control : CtlIn(control, H) /\ AnswerOf(control)
    <3>1. AnswerOf(Eval(Top.args[2], <<IF This.op = "chain" THEN Unit ELSE ctl.t>>))
      BY <1>8 DEF Continue
    <3>2. CtlIn(Eval(Top.args[2], <<IF This.op = "chain" THEN Unit ELSE ctl.t>>), H)
      BY <1>1, <2>1, <2>2, CtlCalls, OneIn
    <3>. QED  BY <3>1, <3>2
  <2>. QED  BY <2>1, <2>3, QuietAnswer
<1>9. CASE PrintLine \/ ImportNothing \/ CallLoader
  <2>1. Called_ /\ UNCHANGED <<graph, spaces, cache, imports, env, pending>>
    BY <1>9, GivenIn DEF PrintLine, ImportNothing, CallLoader, quiet, library
  <2>2. (\E t \in H : Answer(t)) \/ (\E control : CtlIn(control, H) /\ AnswerOf(control))
    BY <1>1, <1>9, CtlCalls DEF PrintLine, ImportNothing, CallLoader
  <2>. QED  BY <2>1, <2>2, QuietAnswer
<1>10. CASE Exit
  <2>1. stack' = stack /\ ctl' = Exited /\ UNCHANGED <<graph, spaces, imports, env>>
    BY <1>10 DEF Exit
  <2>2. GraphStep /\ heap' = heap
    BY <1>0, <2>1, GraphSame DEF graph
  <2>3. CtlIn(ctl', DOMAIN heap') /\ StackIn(stack', heap')
    BY <1>0, <2>1, <2>2, CtlCalls, StackMoves
  <2>. QED  BY <1>0, <2>1, <2>2, <2>3, NamesKept, ControlMoved DEF Typed, GraphStep
<1>11. CASE Compare
  <2>. DEFINE fr == Fr("arg", Top.t, Top.args, <<ctl.t>>)
  <2>1. /\ Called_ /\ This.op = "lt"
        /\ UNCHANGED <<graph, spaces, cache, imports, env, pending>>
    BY <1>11, GivenIn DEF Compare, quiet, library
  <2>2. Top.args[2] \in H
    <3>1. This.n = 2
      BY <2>1, HandlerIn DEF ThunkIn, Arity
    <3>. QED  BY <2>1, <3>1, HandlerIn, ElementOfSeq
  <2>3. CASE Switch(fr) /\ ctl' = Eval(Top.args[2], <<>>)
    <3>1. GraphStep /\ heap' = heap
      BY <1>0, <2>1, GraphSame DEF graph
    <3>2. FrameIn(fr, heap')
      BY <2>1, <3>1, TopIn DEF FrameIn, Fr, This
    <3>3. CtlIn(ctl', DOMAIN heap') /\ StackIn(stack', heap')
      BY <1>0, <2>1, <2>2, <2>3, <3>1, <3>2, CtlCalls, EmptyIn, StackMoves
    <3>. QED  BY <1>0, <2>1, <3>1, <3>3, NamesKept, ControlMoved DEF Typed, GraphStep
  <2>4. CASE \E t \in {True, False} : Answer(t)
    BY <1>1, <2>1, <2>4, QuietAnswer
  <2>. QED  BY <1>11, <2>3, <2>4 DEF Compare
<1>12. CASE Import
  <2>. DEFINE d == Value.d
  <2>1. /\ Called_ /\ This.op \in {"import", "importOpt", "withImport"}
        /\ ThunkIn(Value, H, DOMAIN spaces)
    BY <1>12, GivenIn DEF Import, Importing
  <2>2. d \in DOMAIN spaces
    BY <1>12, <2>1 DEF Import, IsNamespace, ThunkIn
  <2>3. UNCHANGED <<graph, spaces>>
    BY <1>12 DEF Import
  <2>4. GraphStep /\ heap' = heap
    BY <1>0, <2>3, GraphSame DEF graph
  <2>5. EnvIn(env', H)
    <3>1. env' = Bound(spaces[d], env)
      BY <1>12 DEF Import
    <3>2. /\ \A key \in DOMAIN spaces[d] : spaces[d][key] \in H
          /\ \A n \in DOMAIN env : env[n] \in H
      BY <1>0, <2>2 DEF NamesIn, SpacesIn, EnvIn
    <3>3. \A n \in NamesOf(DOMAIN spaces[d]) : n[2] \in DOMAIN spaces[d]
      BY DEF NamesOf
    <3>. QED  BY <3>1, <3>2, <3>3 DEF EnvIn, Bound
  <2>6. ImportsIn(imports', DOMAIN spaces)
    <3>1. imports' = Append(imports, d)
      BY <1>12 DEF Import
    <3>2. IsSeq(imports) /\ \A i \in DOMAIN imports : imports[i] \in DOMAIN spaces
      BY <1>0 DEF NamesIn, ImportsIn
    <3>3. /\ IsSeq(imports') /\ DOMAIN imports' = 1..(Len(imports) + 1)
          /\ DOMAIN imports = 1..Len(imports) /\ Len(imports) \in Nat
          /\ \A i \in 1..Len(imports) : imports'[i] = imports[i]
          /\ imports'[Len(imports) + 1] = d
      BY <3>1, <3>2, SeqAppend, SeqOf
    <3>. QED  BY <2>2, <3>2, <3>3 DEF ImportsIn
  <2>7. NamesIn'
    BY <1>0, <2>3, <2>4, <2>5, <2>6 DEF NamesIn
  <2>8. CtlIn(ctl', DOMAIN heap') /\ StackIn(stack', heap')
    <3>1. CASE This.op = "import"
      <4>1. Answer(Unit)
        BY <1>12, <3>1 DEF Import
      <4>. QED  BY <1>1, <2>1, <2>4, <4>1, AnswerIn
    <3>2. CASE This.op = "importOpt"
      <4>1. Answer(True)
        BY <1>12, <3>2 DEF Import
      <4>. QED  BY <1>1, <2>1, <2>4, <4>1, AnswerIn
    <3>3. CASE This.op = "withImport"
      <4>1. AnswerOf(Eval(Top.args[2], <<Unit>>))
        BY <1>12, <3>3 DEF Import
      <4>2. This.n = 2
        BY <2>1, <3>3, HandlerIn DEF ThunkIn, Arity
      <4>3. Top.args[2] \in H
        BY <2>1, <4>2, HandlerIn, ElementOfSeq
      <4>4. CtlIn(Eval(Top.args[2], <<Unit>>), H)
        BY <1>1, <4>3, CtlCalls, OneIn
      <4>. QED  BY <2>1, <2>4, <4>1, <4>4, AnswerIn
    <3>. QED  BY <2>1, <3>1, <3>2, <3>3
  <2>. QED  BY <1>0, <2>4, <2>7, <2>8, ControlMoved DEF Typed, GraphStep
<1>. QED  BY <1>2, <1>3, <1>4, <1>5, <1>6, <1>7, <1>8, <1>9, <1>10, <1>11, <1>12 DEF Handle

LEMMA StartTyped == ASSUME Typed, StackInv, Start PROVE Typed'
<1>. DEFINE H == DOMAIN heap
            run == Head(pending)
            fr == Fr("top", IF run.wrapped THEN 1 ELSE 0, <<>>, <<>>)
<1>0. /\ GraphIn /\ NamesIn /\ ControlIn /\ Prelude \in H
      /\ UNCHANGED <<whnf, spaces, cache>>
  BY StaticThere DEF Start, library, Typed, Prelude
<1>1. run \in Runs(H) /\ Tail(pending) \in Seq(Runs(H))
  <2>1. pending \in Seq(Runs(H)) /\ pending # <<>>
    BY DEF Start, Typed, ControlIn
  <2>. QED  BY <2>1, HeadTailProperties
<1>2. EnvIn(env', H)
  <2>1. EnvIn(Registered, H)
    BY <1>0 DEF EnvIn, Registered
  <2>. QED  BY <1>0, <2>1 DEF Start, NamesIn
<1>3. GraphStep /\ DOMAIN heap' = H
  <2>1. heap' = [t \in H |-> Resolved(run, env', t)]
    BY DEF Start
  <2>2. heap' = [t \in H |-> heap'[t]] /\ DOMAIN heap' = H
    BY <2>1
  <2>3. \A t \in H :
           \/ heap'[t] = heap[t]
           \/ /\ heap[t].k = "ref"
              /\ \E d \in H : heap'[t] = [heap[t] EXCEPT !.d = d]
    <3>. TAKE t \in H
    <3>1. heap'[t] = Resolved(run, env', t)
      BY <2>1
    <3>. QED  BY <1>2, <3>1 DEF Resolved, EnvIn
  <2>. QED  BY <1>0, <2>2, <2>3, SomeResolved
<1>4. ImportsIn(imports', DOMAIN spaces)
  <2>1. ImportsIn(<<>>, DOMAIN spaces)
    <3>1. <<>> \in Seq({}) /\ DOMAIN <<>> = {}
      OBVIOUS
    <3>. QED  BY <3>1 DEF ImportsIn, IsSeq
  <2>. QED  BY <1>0, <2>1 DEF Start, NamesIn
<1>5. NamesIn'
  BY <1>0, <1>2, <1>3, <1>4 DEF NamesIn
<1>6. StackIn(stack', heap')
  <2>1. Push(fr) /\ FrameIn(fr, heap')
    BY EmptyIn, WaitIn DEF Start
  <2>. QED  BY <1>0, <1>3, <2>1, StackMoves
<1>7. CtlIn(ctl', DOMAIN heap')
  <2>1. run.root \in H /\ ctl' = Eval(run.root, <<>>)
    BY <1>1 DEF Runs, Start
  <2>. QED  BY <1>3, <2>1, CtlCalls, EmptyIn
<1>8. pending' \in Seq(Runs(DOMAIN heap'))
  BY <1>1, <1>3 DEF Start
<1>. QED  BY <1>3, <1>5, <1>6, <1>7, <1>8 DEF Typed, GraphStep, ControlIn

LEMMA LoadTyped == ASSUME Typed, StackInv, LoadLibrary PROVE Typed'
<1>. DEFINE H == DOMAIN heap
<1>0. GraphIn /\ NamesIn /\ ControlIn /\ Err \in H /\ 1..23 \subseteq H
      /\ UNCHANGED <<pending, imports, env, stack>>
  <2>1. 1..23 \subseteq H /\ Err \in H
    BY StaticThere DEF Err
  <2>2. UNCHANGED <<pending, imports, env, stack>>
    BY DEF LoadLibrary, LoadCached, LoadDenied, LoadFails, LoadRejected, LoadKept, quiet
  <2>. QED  BY <2>1, <2>2 DEF Typed
<1>1. CASE LoadKept
  <2>. DEFINE pairs == [i \in DOMAIN Entries |-> <<Entries[i].key, Entries[i].value>>]
  <2>1. pairs = [i \in 1..2 |-> pairs[i]] /\ \A i \in 1..2 : pairs[i][2] \in 1..23
    BY DEF Entries, CorePrintln, CoreLt
  <2>2. MakeSpace(pairs) /\ Remember(ctl.name, Len(heap')) /\ ctl' = Ret(Len(heap'))
    BY <1>1 DEF LoadKept
  <2>. HIDE DEF pairs
  <2>3. /\ GraphStep /\ Len(heap') \in DOMAIN heap'
        /\ SpacesIn(spaces, H) => SpacesIn(spaces', DOMAIN heap')
    <3>1. \A i \in 1..2 : pairs[i][2] \in H
      BY <1>0, <2>1
    <3>. QED  BY <1>0, <2>1, <2>2, <3>1, SpaceAdded
  <2>4. EnvIn(cache', DOMAIN heap')
    BY <1>0, <2>2, <2>3 DEF Remember, EnvIn, NamesIn, GraphStep, Wider
  <2>5. NamesIn'
    BY <1>0, <2>3, <2>4 DEF NamesIn, GraphStep, Wider, EnvIn, ImportsIn
  <2>6. CtlIn(ctl', DOMAIN heap')
    BY <2>2, <2>3, CtlCalls
  <2>7. StackIn(stack', heap')
    BY <1>0, <2>3, StackMoves
  <2>. QED  BY <1>0, <2>3, <2>5, <2>6, <2>7, ControlMoved DEF Typed, GraphStep
<1>2. CASE ~LoadKept
  <2>1. UNCHANGED <<graph, spaces, cache>>
    BY <1>2 DEF LoadLibrary, LoadCached, LoadDenied, LoadFails, LoadRejected, quiet, library
  <2>2. GraphStep /\ heap' = heap
    BY <1>0, <2>1, GraphSame DEF graph
  <2>3. ctl.name \in DOMAIN cache => cache[ctl.name] \in H
    BY <1>0 DEF NamesIn, EnvIn
  <2>4. \E t \in H \cup {0} : ctl' = Ret(t)
    BY <1>0, <1>2, <2>3 DEF LoadLibrary, LoadCached, LoadDenied, LoadFails, LoadRejected, Cached
  <2>5. CtlIn(ctl', DOMAIN heap') /\ StackIn(stack', heap')
    BY <1>0, <2>2, <2>4, CtlCalls, StackMoves
  <2>. QED  BY <1>0, <2>1, <2>2, <2>5, NamesKept, ControlMoved DEF Typed, GraphStep
<1>. QED  BY <1>1, <1>2

\* The thunks of the runtime are in order.
LEMMA BuiltinIn ==
    ASSUME NEW op, NEW n \in Nat, NEW eff, NEW H, NEW K, op \notin {"member", "namespace"},
           op = "nslit" => n \in {2, 4},
           op \in {"chain", "bind", "withImport", "lt"} => n = 2
    PROVE  ThunkIn(Builtin(op, n, eff), H, K)
BY EmptyIn DEF ThunkIn, Arity, Builtin, Th, Fields

LEMMA StaticIn == ASSUME NEW H, NEW K, NEW i \in 1..23 PROVE ThunkIn(Static[i], H, K)
<1>1. /\ Static[1] = Th("err", "", <<>>, 0, 0, FALSE)
      /\ Static[2] = Con("()")
      /\ Static[3] = Con("true")
      /\ Static[4] = Con("false")
      /\ Static[5] = Sym("lt")
      /\ Static[6] = Builtin("prelude", 1, FALSE)
      /\ Static[7] = Builtin("env", 1, FALSE)
      /\ Static[8] = Builtin("chain", 2, FALSE)
      /\ Static[9] = Builtin("bind", 2, FALSE)
      /\ Static[10] = Builtin("return", 1, FALSE)
      /\ Static[11] = Builtin("nsMembers", 1, FALSE)
      /\ Static[12] = Builtin("builtin", 1, FALSE)
      /\ Static[13] = Builtin("nslit", 2, FALSE)
      /\ Static[14] = Builtin("nslit", 4, FALSE)
      /\ Static[15] = Builtin("println", 1, TRUE)
      /\ Static[16] = Builtin("exit", 1, TRUE)
      /\ Static[17] = Builtin("builtin", 1, TRUE)
      /\ Static[18] = Builtin("import", 1, TRUE)
      /\ Static[19] = Builtin("importOpt", 1, TRUE)
      /\ Static[20] = Builtin("withImport", 2, TRUE)
      /\ Static[21] = Builtin("println", 1, FALSE)
      /\ Static[22] = Builtin("lt", 2, FALSE)
      /\ Static[23] = Builtin("set", 2, FALSE)
  BY DEF Static
<1>2. \A name : ThunkIn(Con(name), H, K) /\ ThunkIn(Sym(name), H, K)
  BY EmptyIn DEF ThunkIn, Con, Sym, Th, Fields
<1>3. ThunkIn(Th("err", "", <<>>, 0, 0, FALSE), H, K)
  BY EmptyIn DEF ThunkIn, Th, Fields
<1>4. /\ ThunkIn(Builtin("prelude", 1, FALSE), H, K)
      /\ ThunkIn(Builtin("env", 1, FALSE), H, K)
      /\ ThunkIn(Builtin("chain", 2, FALSE), H, K)
      /\ ThunkIn(Builtin("bind", 2, FALSE), H, K)
      /\ ThunkIn(Builtin("return", 1, FALSE), H, K)
      /\ ThunkIn(Builtin("nsMembers", 1, FALSE), H, K)
      /\ ThunkIn(Builtin("builtin", 1, FALSE), H, K)
  BY BuiltinIn
<1>5. /\ ThunkIn(Builtin("nslit", 2, FALSE), H, K)
      /\ ThunkIn(Builtin("nslit", 4, FALSE), H, K)
      /\ ThunkIn(Builtin("println", 1, TRUE), H, K)
      /\ ThunkIn(Builtin("exit", 1, TRUE), H, K)
      /\ ThunkIn(Builtin("builtin", 1, TRUE), H, K)
      /\ ThunkIn(Builtin("import", 1, TRUE), H, K)
  BY BuiltinIn
<1>6. /\ ThunkIn(Builtin("importOpt", 1, TRUE), H, K)
      /\ ThunkIn(Builtin("withImport", 2, TRUE), H, K)
      /\ ThunkIn(Builtin("println", 1, FALSE), H, K)
      /\ ThunkIn(Builtin("lt", 2, FALSE), H, K)
      /\ ThunkIn(Builtin("set", 2, FALSE), H, K)
  BY BuiltinIn
<1>7. \/ i = 1 \/ i = 2 \/ i = 3 \/ i = 4 \/ i = 5 \/ i = 6 \/ i = 7 \/ i = 8
      \/ i = 9 \/ i = 10 \/ i = 11 \/ i = 12 \/ i = 13 \/ i = 14 \/ i = 15 \/ i = 16
      \/ i = 17 \/ i = 18 \/ i = 19 \/ i = 20 \/ i = 21 \/ i = 22 \/ i = 23
  OBVIOUS
<1>. QED  BY <1>1, <1>2, <1>3, <1>4, <1>5, <1>6, <1>7

LEMMA TypedInit == Init => Typed
<1>. SUFFICES ASSUME Init PROVE Typed
  OBVIOUS
<1>1. PICK s \in Sessions :
        /\ pending = s.runs /\ heap = Static \o s.heap
        /\ whnf = [t \in 1..Len(Static \o s.heap) |-> 0]
  BY DEF Init
<1>2. /\ env = Registered /\ spaces = <<>> /\ cache = <<>> /\ imports = <<>>
      /\ stack = <<>> /\ ctl = Idle
  BY DEF Init
<1>. DEFINE m == Len(s.heap)
            n == 23 + m
<1>3. Len(Static) = 23 /\ IsSeq(Static)
  <2>1. Static = [i \in 1..23 |-> Static[i]] /\ 23 \in Nat
    BY DEF Static
  <2>. QED  BY <2>1, FunctionIsSeq
<1>4. /\ m \in Nat /\ IsSeq(s.heap)
      /\ \A t \in 1..m : IsTerm(s.heap[t], 1..n)
      /\ s.runs \in Seq(Runs(1..n))
  <2>1. /\ s.heap = [t \in 1..m |-> s.heap[t]] /\ m \in Nat
        /\ \A t \in 1..m : IsTerm(s.heap[t], 1..n)
        /\ s.runs \in Seq(Runs(1..n))
    BY <1>3, SessionsAssumption DEF Runs
  <2>. QED  BY <2>1, FunctionIsSeq
<1>5. /\ IsSeq(heap) /\ Len(heap) = n /\ DOMAIN heap = 1..n
      /\ \A t \in 1..23 : heap[t] = Static[t]
      /\ \A t \in 1..m : heap[23 + t] = s.heap[t]
  <2>1. IsSeq(Static) /\ IsSeq(s.heap)
    BY <1>3, <1>4
  <2>2. /\ IsSeq(Static \o s.heap)
        /\ Len(Static \o s.heap) = Len(Static) + Len(s.heap)
        /\ \A t \in 1..Len(Static) : (Static \o s.heap)[t] = Static[t]
    BY <2>1, SeqConcat
  <2>3. \A t \in 1..Len(s.heap) : (Static \o s.heap)[Len(Static) + t] = s.heap[t]
    BY <2>1, ConcatSecond
  <2>4. DOMAIN heap = 1..Len(heap)
    BY <1>1, <2>2, SeqOf
  <2>. QED  BY <1>1, <1>3, <2>2, <2>3, <2>4
<1>6. 1..23 \subseteq 1..n /\ n \in Nat /\ \A t \in 1..n : t \in 1..23 \/ \E i \in 1..m : t = 23 + i
  <2>1. \A t \in 1..n : t \notin 1..23 => t - 23 \in 1..m /\ t = 23 + (t - 23)
    BY <1>4
  <2>. QED  BY <1>4, <2>1
<1>7. HeapIn(heap, DOMAIN spaces)
  <2>. SUFFICES ASSUME NEW t \in 1..n PROVE ThunkIn(heap[t], 1..n, DOMAIN spaces)
    BY <1>5 DEF HeapIn
  <2>1. ASSUME NEW i \in 1..23 PROVE ThunkIn(Static[i], 1..n, DOMAIN spaces)
    BY StaticIn
  <2>2. ASSUME NEW i \in 1..m PROVE ThunkIn(s.heap[i], 1..n, DOMAIN spaces)
    <3>. DEFINE th == s.heap[i]
    <3>1. IsTerm(th, 1..n)
      BY <1>4
    <3>2. th = Th(th.k, th.op, th.a, 0, 0, FALSE)
      BY <3>1 DEF IsTerm
    <3>3. DOMAIN th = Fields /\ th.d = 0
      BY <3>2 DEF Th, Fields
    <3>. HIDE DEF th
    <3>4. ThunkIn(th, 1..n, DOMAIN spaces)
      BY <3>1, <3>3 DEF ThunkIn, IsTerm
    <3>. QED  BY <3>4 DEF th
  <2>. QED  BY <1>5, <1>6, <2>1, <2>2
<1>8. IsSeq(whnf) /\ WhnfIn(whnf, heap)
  <2>1. whnf = [t \in 1..n |-> 0]
    BY <1>1, <1>5
  <2>2. whnf = [t \in 1..n |-> whnf[t]]
    BY <2>1
  <2>. QED  BY <1>5, <1>6, <2>1, <2>2, FunctionIsSeq DEF WhnfIn
<1>9. IsSeq(<<>>) /\ DOMAIN <<>> = {}
  <2>1. <<>> \in Seq({}) /\ DOMAIN <<>> = {}
    OBVIOUS
  <2>. QED  BY <2>1 DEF IsSeq
<1>10. GraphIn
  BY <1>2, <1>5, <1>6, <1>7, <1>8, <1>9 DEF GraphIn, GraphInv
<1>11. NamesIn
  BY <1>2, <1>5, <1>6, <1>9 DEF NamesIn, EnvIn, SpacesIn, ImportsIn, Registered, Prelude
<1>12. ControlIn
  BY <1>1, <1>2, <1>4, <1>5, <1>9, CtlCalls DEF ControlIn, StackIn
<1>. QED  BY <1>10, <1>11, <1>12 DEF Typed

LEMMA TypedNext == Typed /\ StackInv /\ [Next]_vars => Typed'
<1>. SUFFICES ASSUME Typed, StackInv, [Next]_vars PROVE Typed'
  OBVIOUS
<1>1. CASE Step
  BY <1>1, StartTyped, EvaluateTyped, ReturnTyped, HandleTyped, LoadTyped DEF Step
<1>2. CASE ChangeDisk \/ UNCHANGED vars
  <2>1. UNCHANGED <<pending, heap, whnf, env, spaces, cache, imports, stack, ctl>>
    BY <1>2 DEF ChangeDisk, vars, graph, library
  <2>. QED  BY <2>1 DEF Typed, GraphIn, GraphInv, NamesIn, ControlIn
<1>. QED  BY <1>1, <1>2 DEF Next

\* Whatever a thunk, a memo, an environment, a namespace, a library or a
\* pending call refers to is a thunk of the heap, and a builtin that is called
\* has the arguments its handler reads.
THEOREM NothingDangles == Spec => []Typed
BY TypedInit, TypedNext, StackInvInit, StackInvNext, PTL DEF Spec

-----------------------------------------------------------------------------
(* The environment is what the imports made it *)

\* EnvFollowsImports of an environment e, imports im and namespaces sp.
Givers(im, sp, n) == {i \in DOMAIN im : n[2] \in DOMAIN sp[im[i]]}
LastGiver(im, sp, n) ==
    CHOOSE i \in Givers(im, sp, n) : \A j \in Givers(im, sp, n) : j <= i
Keys(im, sp) == UNION {DOMAIN sp[im[i]] : i \in DOMAIN im}
Follows(e, im, sp) ==
    /\ DOMAIN e = NamesOf(Keys(im, sp)) \cup DOMAIN Registered
    /\ \A n \in DOMAIN e :
          e[n] = IF Givers(im, sp, n) = {} THEN Registered[n]
                 ELSE sp[im[LastGiver(im, sp, n)]][n[2]]

LEMMA FollowsIs == EnvFollowsImports <=> Follows(env, imports, spaces)
BY DEF EnvFollowsImports, Follows, Givers, LastGiver, Keys

LEMMA NoImports == \A sp : Follows(Registered, <<>>, sp)
<1>1. DOMAIN <<>> = {}
  OBVIOUS
<1>2. NamesOf({}) = {}
  BY DEF NamesOf
<1>3. \A sp : Keys(<<>>, sp) = {} /\ \A n : Givers(<<>>, sp, n) = {}
  BY <1>1 DEF Keys, Givers
<1>. QED  BY <1>2, <1>3 DEF Follows

\* New namespaces are no matter for old imports.
LEMMA FollowsStays ==
    ASSUME NEW e, NEW im, IsSeq(im), NEW sp, NEW sp2, Follows(e, im, sp),
           \A i \in DOMAIN im : sp2[im[i]] = sp[im[i]]
    PROVE  Follows(e, im, sp2)
<1>1. Keys(im, sp2) = Keys(im, sp)
  BY DEF Keys
<1>2. \A n : Givers(im, sp2, n) = Givers(im, sp, n)
  BY DEF Givers
<1>3. \A n : LastGiver(im, sp2, n) = LastGiver(im, sp, n)
  BY <1>2 DEF LastGiver
<1>4. ASSUME NEW n, Givers(im, sp, n) # {} PROVE LastGiver(im, sp, n) \in DOMAIN im
  <2>1. Len(im) \in Nat /\ Givers(im, sp, n) \in SUBSET (1..Len(im))
    BY SeqOf DEF Givers
  <2>2. \E i \in Givers(im, sp, n) : \A j \in Givers(im, sp, n) : j <= i
    BY <1>4, <2>1, GreatestNumber
  <2>3. LastGiver(im, sp, n) \in Givers(im, sp, n)
    BY <2>2 DEF LastGiver
  <2>. QED  BY <2>3 DEF Givers
<1>. QED  BY <1>1, <1>2, <1>3, <1>4 DEF Follows

LEMMA FollowsInit == Init => EnvFollowsImports
<1>. SUFFICES ASSUME Init PROVE EnvFollowsImports
  OBVIOUS
<1>1. imports = <<>> /\ env = Registered
  BY DEF Init
<1>. QED  BY <1>1, NoImports, FollowsIs

\* A namespace is imported.
LEMMA FollowsImport ==
    ASSUME NEW e, NEW im, IsSeq(im), NEW sp, NEW d, Follows(e, im, sp)
    PROVE  Follows(Bound(sp[d], e), Append(im, d), sp)
<1>. DEFINE m == Len(im)
            im2 == Append(im, d)
            e2 == Bound(sp[d], e)
            space == sp[d]
<1>1. /\ m \in Nat /\ DOMAIN im = 1..m /\ DOMAIN im2 = 1..(m + 1)
      /\ \A i \in 1..m : im2[i] = im[i]
      /\ im2[m + 1] = d
  BY SeqOf, SeqAppend
<1>2. /\ 1..m \subseteq 1..(m + 1) /\ m + 1 \in 1..(m + 1) /\ m + 1 \notin 1..m
      /\ \A i \in 1..(m + 1) : i \in 1..m \/ i = m + 1
      /\ \A i \in 1..(m + 1) : i <= m + 1
      /\ \A i \in 1..m : ~(m + 1 <= i)
  BY <1>1
<1>. HIDE DEF m, im2
<1>3. Keys(im2, sp) = Keys(im, sp) \cup DOMAIN space
  <2>1. \A i \in 1..(m + 1) : DOMAIN sp[im2[i]] \subseteq Keys(im, sp) \cup DOMAIN space
    BY <1>1, <1>2 DEF Keys
  <2>2. DOMAIN space \subseteq Keys(im2, sp)
    BY <1>1, <1>2 DEF Keys
  <2>3. \A i \in 1..m : DOMAIN sp[im[i]] \subseteq Keys(im2, sp)
    BY <1>1, <1>2 DEF Keys
  <2>. QED  BY <1>1, <2>1, <2>2, <2>3 DEF Keys
<1>4. DOMAIN e2 = NamesOf(Keys(im2, sp)) \cup DOMAIN Registered
  BY <1>3 DEF Follows, Bound, NamesOf
<1>5. ASSUME NEW n \in DOMAIN e2
      PROVE  e2[n] = IF Givers(im2, sp, n) = {} THEN Registered[n]
                     ELSE sp[im2[LastGiver(im2, sp, n)]][n[2]]
  <2>0. e2[n] = IF n[2] \in DOMAIN space THEN space[n[2]] ELSE e[n]
    BY DEF Bound
  <2>1. CASE n[2] \in DOMAIN space
    <3>1. m + 1 \in Givers(im2, sp, n) /\ Givers(im2, sp, n) \subseteq 1..(m + 1)
      BY <1>1, <1>2, <2>1 DEF Givers
    <3>2. LastGiver(im2, sp, n) = m + 1
      <4>. DEFINE G == Givers(im2, sp, n)
                  l == CHOOSE i \in G : \A j \in G : j <= i
      <4>1. m + 1 \in G /\ \A j \in G : j <= m + 1
        BY <1>2, <3>1
      <4>2. l \in G /\ \A j \in G : j <= l
        BY <4>1
      <4>. HIDE DEF G, l
      <4>3. l = m + 1
        BY <1>2, <3>1, <4>1, <4>2 DEF G
      <4>. QED  BY <4>3 DEF LastGiver, l, G
    <3>. QED  BY <1>1, <2>0, <2>1, <3>1, <3>2
  <2>2. CASE n[2] \notin DOMAIN space
    <3>1. Givers(im2, sp, n) = Givers(im, sp, n)
      BY <1>1, <1>2, <2>2 DEF Givers
    <3>2. LastGiver(im2, sp, n) = LastGiver(im, sp, n)
      BY <3>1 DEF LastGiver
    <3>3. n \in DOMAIN e
      BY <2>2 DEF Bound, NamesOf
    <3>4. e[n] = IF Givers(im, sp, n) = {} THEN Registered[n]
                 ELSE sp[im[LastGiver(im, sp, n)]][n[2]]
      BY <3>3 DEF Follows
    <3>5. Givers(im, sp, n) # {} => LastGiver(im, sp, n) \in 1..m
      <4>1. Givers(im, sp, n) \in SUBSET (1..m)
        BY <1>1 DEF Givers
      <4>2. Givers(im, sp, n) # {} =>
              \E i \in Givers(im, sp, n) : \A j \in Givers(im, sp, n) : j <= i
        BY <1>1, <4>1, GreatestNumber
      <4>3. Givers(im, sp, n) # {} => LastGiver(im, sp, n) \in Givers(im, sp, n)
        BY <4>2 DEF LastGiver
      <4>. QED  BY <4>1, <4>3
    <3>. QED  BY <1>1, <2>0, <2>2, <3>1, <3>2, <3>4, <3>5
  <2>. QED  BY <2>1, <2>2
<1>. QED  BY <1>4, <1>5 DEF Follows, im2

LEMMA FollowsNext ==
    Typed /\ GraphInv /\ StackInv /\ EnvFollowsImports /\ [Next]_vars => EnvFollowsImports'
<1>. SUFFICES ASSUME Typed, GraphInv, StackInv, EnvFollowsImports, [Next]_vars
              PROVE  EnvFollowsImports'
  OBVIOUS
<1>1. Follows(env, imports, spaces)
  BY FollowsIs
<1>2. IsSeq(imports) /\ \A i \in DOMAIN imports : imports[i] \in DOMAIN spaces
  BY DEF Typed, NamesIn, ImportsIn
<1>3. \A s \in DOMAIN spaces : spaces'[s] = spaces[s]
  BY GraphInvNext DEF Kept
<1>4. Follows(env, imports, spaces')
  BY <1>1, <1>2, <1>3, FollowsStays
<1>5. EnvFollowsImports' <=> Follows(env', imports', spaces')
  BY DEF EnvFollowsImports, Follows, Givers, LastGiver, Keys
<1>6. CASE UNCHANGED <<env, imports>>
  BY <1>4, <1>5, <1>6
<1>7. CASE Start
  BY <1>1, <1>5, <1>7, NoImports DEF Start
<1>8. CASE Import
  BY <1>1, <1>5, <1>2, <1>8, FollowsImport DEF Import
<1>9. ASSUME Evaluate PROVE UNCHANGED <<env, imports>>
  BY <1>9 DEF Evaluate, EvalKnown, EvalValue, EvalConstructor, EvalApplication, EvalLambda,
     EvalReference, EvalMember, EvalDenied, EvalPartial, EvalAtOnce, EvalHandler, quiet
<1>10. ASSUME Return PROVE UNCHANGED <<env, imports>>
  BY <1>10 DEF Return, ReturnMemo, ReturnConv, ReturnThen, ReturnPick, ReturnTop, quiet
<1>11. ASSUME Handle, ~Import PROVE UNCHANGED <<env, imports>>
  BY <1>11 DEF Handle, Refuse, Dispatch, DispatchEnv, Lookup, Members, Literal, Continue,
     PrintLine, Exit, Compare, ImportNothing, CallLoader, quiet
<1>12. ASSUME LoadLibrary PROVE UNCHANGED <<env, imports>>
  BY <1>12 DEF LoadLibrary, LoadCached, LoadDenied, LoadFails, LoadRejected, LoadKept, quiet
<1>13. ASSUME ChangeDisk \/ UNCHANGED vars PROVE UNCHANGED <<env, imports>>
  BY <1>13 DEF ChangeDisk, vars
<1>. QED  BY <1>6, <1>7, <1>8, <1>9, <1>10, <1>11, <1>12, <1>13 DEF Next, Step

\* The environment binds, with the dot and without, what the imports since the
\* environment was made gave, the last of them what several give, and what the
\* plugin registered otherwise.
THEOREM ImportsDecide == Spec => []EnvFollowsImports
<1>. DEFINE Inv == Typed /\ GraphInv /\ StackInv
<1>1. Init => Inv
  BY TypedInit, GraphInvInit, StackInvInit
<1>2. Inv /\ [Next]_vars => Inv'
  BY TypedNext, GraphInvNext, StackInvNext
<1>3. Inv /\ EnvFollowsImports /\ [Next]_vars => EnvFollowsImports'
  BY FollowsNext
<1>. HIDE DEF Inv
<1>. QED  BY <1>1, <1>2, <1>3, FollowsInit, PTL DEF Spec

=============================================================================
