------------------------------ MODULE LazyEval ------------------------------
(***************************************************************************)
(* The evaluator of src/src/thunk/thunk.c as an abstract machine.          *)
(*                                                                         *)
(* The C functions lsthunk_eval0, lsthunk_eval, lsthunk_eval_*,            *)
(* lsthunk_match_* and the core builtins call each other recursively.      *)
(* Here a pending C activation that still has work to do is a frame of     *)
(* "stack", the call or return about to happen is "ctl", and one step is   *)
(* the code between two calls.  A tail call keeps no frame.  What the C    *)
(* functions share and mutate is state: the thunk graph ("heap"), the      *)
(* memo lt_whnf of every thunk, and the binding r.bound of every           *)
(* reference pattern - which belongs to the pattern, not to an             *)
(* application, so every activation of a lambda uses the same one.         *)
(***************************************************************************)
EXTENDS Integers, Sequences, FiniteSets, Functions

CONSTANTS
    Programs,   \* the thunk graphs evaluation may start from
    MaxAddr,    \* bound: thunks that can be allocated
    MaxPat,     \* bound: pattern nodes of a program
    MaxDepth    \* bound: pending activations

Null == 0
Addr == 1..MaxAddr
AddrOrNull == 0..MaxAddr
PatId == 1..MaxPat

-----------------------------------------------------------------------------
(* Thunks and patterns *)

DataTypes == {"ALGE", "INT", "STR", "SYMBOL", "LAMBDA", "BOTTOM"}
ThunkTypes == DataTypes \cup {"APPL", "CHOICE", "REF", "BUILTIN", "FREE"}

\* Tags: those of the program, and those the evaluator itself makes.
OwnTags ==
    {"", "()", "true", "false", "seqc", "merged", "null", "lambda match failure",
     "undefined reference", "ref match failure", "unbound lambda param",
     "builtin: null", "print: arg", "arg1", "arg2", "first", "invalid type"}
Tag == STRING \cup OwnTags

\* A thunk.  tag: constructor, string, builtin name, choice kind or bottom
\* message.  num: integer, parameter pattern (LAMBDA), referenced pattern
\* (REF, 0 when the name is undefined), 1 for LSBATTR_EFFECT (BUILTIN).
\* kids: arguments (ALGE), function and arguments (APPL), both arms (CHOICE),
\* body (LAMBDA), related arguments (BOTTOM), captured value (BUILTIN).
Thunk == [type : ThunkTypes, tag : Tag, num : Int, kids : Seq(Addr)]

T(type, tag, num, kids) ==
    [type |-> type, tag |-> tag, num |-> num, kids |-> kids]
FreeThunk == T("FREE", "", 0, <<>>)
Bottom(msg, related) == T("BOTTOM", msg, 0, related)

PatTypes == {"ALGE", "AS", "INT", "STR", "REF", "WILDCARD", "OR", "CARET"}

\* A pattern node.  refs: the REF nodes below it.  org, root, rhs: the
\* lstref_target_origin_t of a REF node - what introduced the name, the whole
\* parameter or left-hand side, and the bound right-hand side or builtin.
Pattern == [type : PatTypes, tag : STRING, num : Int, sub : Seq(PatId),
            refs : SUBSET PatId, org : {"BIND", "LAMBDA", "BUILTIN", "NONE"},
            root : 0..MaxPat, rhs : AddrOrNull]


BuiltinArity ==
    [getter |-> 0, return |-> 1, print |-> 1, add |-> 2, sub |-> 2, lt |-> 2,
     seq |-> 2, seqc |-> 2, chain |-> 2, bind |-> 2]

ArityOf(name) == IF name \in DOMAIN BuiltinArity THEN BuiltinArity[name] ELSE 0

\* A program is [expr, heap, pats, root, strict]: the syntax tree, the graph
\* lsthunk_new_expr builds from it and --strict-effects.
ThunkFits(t) ==
    /\ t.type = "LAMBDA" => t.num \in PatId /\ Len(t.kids) = 1
    /\ t.type = "APPL" => Len(t.kids) > 1
    /\ t.type = "CHOICE" => Len(t.kids) = 2
    /\ t.type = "REF" => t.num \in 0..MaxPat
    /\ t.type = "BUILTIN" /\ ArityOf(t.tag) = 0 => Len(t.kids) = 1

PatternFits(pr, p) ==
    LET q == pr.pats[p]
    IN  /\ q.type \in {"AS", "OR"} => Len(q.sub) = 2
        /\ q.type = "CARET" => Len(q.sub) = 1
        /\ q.type = "REF" => p \in q.refs
        /\ \A i \in 1..Len(q.sub) : pr.pats[q.sub[i]].refs \subseteq q.refs
        /\ q.org = "BIND" =>
              /\ q.root \in PatId /\ q.rhs \in Addr
              /\ \A r \in pr.pats[q.root].refs : pr.pats[r].org = "BIND"
        /\ q.org = "BUILTIN" =>
              q.rhs \in 1..Len(pr.heap) /\ pr.heap[q.rhs].type = "BUILTIN"

WellBuilt(pr) ==
    /\ pr.heap \in Seq(Thunk)
    /\ pr.pats \in [PatId -> Pattern]
    /\ pr.root \in 1..Len(pr.heap)
    /\ pr.strict \in BOOLEAN
    /\ Len(pr.heap) <= MaxAddr
    /\ \A a \in 1..Len(pr.heap) :
          pr.heap[a].type # "FREE" /\ ThunkFits(pr.heap[a])
    /\ \A p \in PatId : PatternFits(pr, p)

ASSUME BoundsAssumption ==
    MaxAddr \in Nat \ {0} /\ MaxPat \in Nat \ {0} /\ MaxDepth \in Nat \ {0}
ASSUME ProgramsAssumption == \A pr \in Programs : WellBuilt(pr)

-----------------------------------------------------------------------------
VARIABLES
    prog,    \* the program under evaluation (never changes)
    heap,    \* the thunk graph
    top,     \* thunks allocated so far
    memo,    \* lt_whnf of every thunk
    bound,   \* r.bound of every reference pattern
    depth,   \* g_effects_depth
    out,     \* what print has written
    stack,   \* pending activations, innermost last
    ctl      \* the call or return about to happen

graph == <<heap, top, memo>>
world == <<prog, depth, out>>
vars == <<prog, heap, top, memo, bound, depth, out, stack, ctl>>

FrameKinds ==
    {"Update", "Match", "Body", "BindMatch", "LamChoice", "Right", "Catch",
     "ExprChoice", "AlgeHead", "AlgeArg", "As", "Or", "Caret",
     "Lhs", "Rhs", "Print", "Effect", "Result"}
Frame == [k : FrameKinds, a : AddrOrNull, args : Seq(Addr),
          p : 0..MaxPat, i : Nat]
Fr(k, a, args, p, i) == [k |-> k, a |-> a, args |-> args, p |-> p, i |-> i]

Modes == {"eval0", "apply", "match", "ret", "matched", "halt"}
Outcomes == {"", "match", "fail", "done", "assert", "bound"}
Control == [m : Modes, a : AddrOrNull, args : Seq(Addr), p : 0..MaxPat,
            r : Outcomes]
C(m, a, args, p, r) == [m |-> m, a |-> a, args |-> args, p |-> p, r |-> r]

Ret(v) == C("ret", v, <<>>, 0, "")          \* return v from an evaluation
Matched(ok) ==                              \* return from lsthunk_match_pat
    C("matched", Null, <<>>, 0, IF ok THEN "match" ELSE "fail")
Match(t, p) == C("match", t, <<>>, p, "")   \* call lsthunk_match_pat(t, p)
Eval0(t) == C("eval0", t, <<>>, 0, "")      \* call lsthunk_eval0(t)
Apply(t, args) == C("apply", t, args, 0, "")
Halt(why) == C("halt", Null, <<>>, 0, why)

IsBottom(t) == t # Null /\ heap[t].type = "BOTTOM"

\* lsthunk_eval: bottom applied is bottom, no argument is lsthunk_eval0,
\* otherwise dispatch on the type of the function.
Eval(f, args) ==
    IF IsBottom(f) THEN Ret(f)
    ELSE IF args = <<>> THEN Eval0(f)
    ELSE Apply(f, args)

Kids(t) == heap[t].kids
Func(t) == Kids(t)[1]
Args(t) == Tail(Kids(t))
Param(t) == heap[t].num
Body(t) == Kids(t)[1]
Pat(p) == prog.pats[p]
Drop(args, n) == SubSeq(args, n + 1, Len(args))

\* A weak head normal form: a data thunk, a builtin waiting for arguments, or
\* a builtin applied to too few of them.
IsValue(t) ==
    \/ heap[t].type \in DataTypes
    \/ heap[t].type = "BUILTIN" /\ ArityOf(heap[t].tag) > 0
    \/ /\ heap[t].type = "APPL"
       /\ heap[Func(t)].type = "BUILTIN"
       /\ Len(Args(t)) < ArityOf(heap[Func(t)].tag)

-----------------------------------------------------------------------------
(* Building blocks of the actions *)

Top == stack[Len(stack)]
Pop == SubSeq(stack, 1, Len(stack) - 1)
Returned(k) == ctl.m = "ret" /\ stack # <<>> /\ Top.k = k
MatchReturned(k) == ctl.m = "matched" /\ stack # <<>> /\ Top.k = k

\* Tail call (or return): the activations in s stay pending.
Go(s, c) == stack' = s /\ ctl' = c

\* Call c with activation f pending on top of s.
Call(s, f, c) ==
    IF Len(s) < MaxDepth
    THEN Go(Append(s, f), c)
    ELSE Go(s, Halt("bound"))

\* The same for a step that changes nothing else.
Step(s, c) == Go(s, c) /\ UNCHANGED <<graph, world, bound>>
Push(s, f, c) == Call(s, f, c) /\ UNCHANGED <<graph, world, bound>>

\* Allocate thunk t, already in normal form, and return it.
AllocReturn(s, t) ==
    IF top < MaxAddr
    THEN /\ heap' = [heap EXCEPT ![top + 1] = t]
         /\ memo' = [memo EXCEPT ![top + 1] = top + 1]
         /\ top' = top + 1
         /\ Go(s, Ret(top + 1))
    ELSE /\ UNCHANGED graph
         /\ Go(s, Halt("bound"))

ClearBinds(p) ==
    bound' = [q \in PatId |-> IF q \in Pat(p).refs THEN Null ELSE bound[q]]

EffectsBegin == IF prog.strict THEN depth' = depth + 1 ELSE UNCHANGED depth
\* Mutant: the end counts twice and the guard on the depth is lost.
MutEffectsEnd == IF prog.strict THEN depth' = depth - 2 ELSE UNCHANGED depth
EffectsEnd ==
    IF prog.strict /\ depth > 0 THEN depth' = depth - 1 ELSE UNCHANGED depth
EffectsAllowed == ~prog.strict \/ depth > 0

\* Mutant: the result is returned as it is when no argument is left.
MutFinishBuiltin(s, v, rest) ==
    IF v = Null THEN AllocReturn(s, Bottom("builtin: null", <<>>))
    ELSE Go(s, IF rest = <<>> THEN Ret(v) ELSE Eval(v, rest)) /\ UNCHANGED graph

\* The end of lsthunk_eval_builtin: NULL becomes a bottom, a bottom is
\* returned, anything else is evaluated and applied to the arguments left.
FinishBuiltin(s, v, rest) ==
    IF v = Null
    THEN AllocReturn(s, Bottom("builtin: null", <<>>))
    ELSE Go(s, Eval(v, rest)) /\ UNCHANGED graph

\* The same for a builtin that reports msg: the bottom it makes is returned.
FailBuiltin(s, msg) == AllocReturn(s, Bottom(msg, <<>>))

-----------------------------------------------------------------------------
(* lsthunk_subst_param: the value an application returns is copied, and in
   the copy every reference to the parameter is replaced by what it is bound
   to.  The copy does not go into references, builtins and bottoms. *)

Copied == {"ALGE", "APPL", "CHOICE", "LAMBDA"}

\* The thunks reachable from v through thunks that are copied.
CopySet(v) ==
    LET Below(t) == IF heap[t].type \in Copied THEN Range(Kids(t)) ELSE {}
        reach[n \in Nat] ==
            IF n = 0 THEN {v}
            ELSE UNION {{t} \cup Below(t) : t \in reach[n - 1]}
    IN  {t \in (1..top) \cap reach[top] : heap[t].type \in Copied}

\* The address of the copy of t, older thunks first.
CopyOf(S, t) == top + Cardinality({u \in S : u <= t})

IsParamRef(t, param) ==
    /\ heap[t].type = "REF"
    /\ heap[t].num \in PatId
    /\ Pat(heap[t].num).org = "LAMBDA"
    /\ Pat(heap[t].num).root = param

\* lsthunk_subst_param_rec at t: a copy, the bound thunk, or t itself.
Subst(S, param, t) ==
    IF t \in S THEN CopyOf(S, t)
    ELSE IF IsParamRef(t, param) /\ bound[heap[t].num] # Null
    THEN bound[heap[t].num]
    ELSE t

CopyThunk(S, param, t) ==
    [heap[t] EXCEPT !.kids =
        [i \in 1..Len(heap[t].kids) |-> Subst(S, param, heap[t].kids[i])]]

SubstReturn(s, v, param) ==
    LET S == CopySet(v)
        Source(a) == CHOOSE t \in S : CopyOf(S, t) = a
        IsCopy(a) == \E t \in S : CopyOf(S, t) = a
    IN  IF top + Cardinality(S) <= MaxAddr
        THEN /\ heap' = [a \in Addr |-> IF IsCopy(a)
                                        THEN CopyThunk(S, param, Source(a))
                                        ELSE heap[a]]
             /\ memo' = [a \in Addr |->
                           IF IsCopy(a)
                           THEN IF heap[Source(a)].type \in {"ALGE", "LAMBDA"}
                                THEN a ELSE Null
                           ELSE memo[a]]
             /\ top' = top + Cardinality(S)
             /\ Go(s, Ret(Subst(S, param, v)))
        ELSE UNCHANGED graph /\ Go(s, Halt("bound"))

-----------------------------------------------------------------------------
(* lsthunk_eval0.  Data, bottoms and partial applications are their own memo
   from the moment they are made, so its cases for them never run. *)

Eval0Memo ==
    /\ ctl.m = "eval0"
    /\ memo[ctl.a] # Null
    /\ Step(stack, Ret(memo[ctl.a]))

\* Mutant: the memo is not looked at.
MutEval0Appl ==
    /\ ctl.m = "eval0"
    /\ heap[ctl.a].type = "APPL"
    /\ Push(stack, Fr("Update", ctl.a, <<>>, 0, 0),
            Eval(Func(ctl.a), Args(ctl.a)))

Eval0Appl ==
    /\ ctl.m = "eval0"
    /\ memo[ctl.a] = Null
    /\ heap[ctl.a].type = "APPL"
    /\ Push(stack, Fr("Update", ctl.a, <<>>, 0, 0),
            Eval(Func(ctl.a), Args(ctl.a)))

Eval0Other ==
    /\ ctl.m = "eval0"
    /\ memo[ctl.a] = Null
    /\ heap[ctl.a].type \in {"REF", "CHOICE", "BUILTIN"}
    /\ Push(stack, Fr("Update", ctl.a, <<>>, 0, 0), Apply(ctl.a, <<>>))

\* The result, NULL included, is stored in lt_whnf.
Update ==
    /\ Returned("Update")
    /\ memo' = [memo EXCEPT ![Top.a] = ctl.a]
    /\ Go(Pop, Ret(ctl.a))
    /\ UNCHANGED <<heap, top, world, bound>>

-----------------------------------------------------------------------------
(* lsthunk_eval, by the type of the function *)

Applying(type) == ctl.m = "apply" /\ heap[ctl.a].type = type

EvalAlge ==
    /\ Applying("ALGE")
    /\ AllocReturn(stack, [heap[ctl.a] EXCEPT !.kids = @ \o ctl.args])
    /\ UNCHANGED <<world, bound>>

EvalAppl ==
    /\ Applying("APPL")
    /\ Step(stack, Eval(Func(ctl.a), Args(ctl.a) \o ctl.args))

\* "cannot apply for integer / string / symbol": NULL.
EvalAtom ==
    /\ ctl.m = "apply"
    /\ heap[ctl.a].type \in {"INT", "STR", "SYMBOL"}
    /\ Step(stack, Ret(Null))

\* lsthunk_eval_lambda: match the first argument against the parameter ...
EvalLambda ==
    /\ Applying("LAMBDA")
    /\ Push(stack, Fr("Match", ctl.a, ctl.args, 0, 0),
            Match(ctl.args[1], Param(ctl.a)))

LambdaMismatch ==
    /\ MatchReturned("Match")
    /\ ctl.r = "fail"
    /\ ClearBinds(Param(Top.a))
    /\ AllocReturn(Pop, Bottom("lambda match failure", <<Top.args[1]>>))
    /\ UNCHANGED world

\* ... evaluate the body with the arguments left ...
LambdaBody ==
    /\ MatchReturned("Match")
    /\ ctl.r = "match"
    /\ Push(Pop, [Top EXCEPT !.k = "Body"],
            Eval(Body(Top.a), Drop(Top.args, 1)))

\* Mutant: bindings left behind when the body has no value.
MutKeepOnNull ==
    /\ Returned("Body")
    /\ IF ctl.a = Null THEN UNCHANGED bound ELSE ClearBinds(Param(Top.a))
    /\ \/ ctl.a = Null /\ Go(Pop, Ret(Null)) /\ UNCHANGED graph
       \/ ctl.a # Null /\ SubstReturn(Pop, ctl.a, Param(Top.a))
    /\ UNCHANGED world

\* ... substitute the parameter in the result and clear its bindings.
LambdaReturn ==
    /\ Returned("Body")
    /\ ClearBinds(Param(Top.a))
    /\ \/ ctl.a = Null /\ Go(Pop, Ret(Null)) /\ UNCHANGED graph
       \/ ctl.a # Null /\ SubstReturn(Pop, ctl.a, Param(Top.a))
    /\ UNCHANGED world

-----------------------------------------------------------------------------
(* lsthunk_eval_ref *)

RefUndefined ==
    /\ Applying("REF")
    /\ heap[ctl.a].num = 0
    /\ AllocReturn(stack, Bottom("undefined reference", <<>>))
    /\ UNCHANGED <<world, bound>>

RefBound ==
    /\ Applying("REF")
    /\ heap[ctl.a].num # 0
    /\ bound[heap[ctl.a].num] # Null
    /\ Step(stack, Eval(bound[heap[ctl.a].num], ctl.args))

RefUnbound(org) ==
    /\ Applying("REF")
    /\ heap[ctl.a].num # 0
    /\ bound[heap[ctl.a].num] = Null
    /\ Pat(heap[ctl.a].num).org = org

\* A let binding is matched as a whole when one of its names is first used.
RefBind ==
    /\ RefUnbound("BIND")
    /\ LET q == Pat(heap[ctl.a].num)
       IN  Call(stack, Fr("BindMatch", Null, ctl.args, heap[ctl.a].num, 0),
                Match(q.rhs, q.root))
    /\ UNCHANGED <<graph, world, bound>>

RefBindMismatch ==
    /\ MatchReturned("BindMatch")
    /\ ctl.r = "fail"
    /\ AllocReturn(Pop, Bottom("ref match failure", <<>>))
    /\ UNCHANGED <<world, bound>>

\* assert(refbound != NULL), then evaluate what the name is now bound to.
RefBindMatched ==
    /\ MatchReturned("BindMatch")
    /\ ctl.r = "match"
    /\ Step(Pop, IF bound[Top.p] = Null THEN Halt("assert")
               ELSE Eval(bound[Top.p], Top.args))

RefParam ==
    /\ RefUnbound("LAMBDA")
    /\ AllocReturn(stack, Bottom("unbound lambda param", <<>>))
    /\ UNCHANGED <<world, bound>>

RefBuiltin ==
    /\ RefUnbound("BUILTIN")
    /\ Step(stack, Apply(Pat(heap[ctl.a].num).rhs, ctl.args))

-----------------------------------------------------------------------------
(* lsthunk_eval_choice *)

Left(t) == Kids(t)[1]
Right(t) == Kids(t)[2]
IsMismatch(t) == IsBottom(t) /\ heap[t].tag = "lambda match failure"

\* l | r applied: only the first argument decides between the arms.
EvalLamChoice ==
    /\ Applying("CHOICE")
    /\ heap[ctl.a].tag = "lambda"
    /\ ctl.args # <<>>
    /\ Push(stack, Fr("LamChoice", ctl.a, ctl.args, 0, 0),
            Eval(Left(ctl.a), <<ctl.args[1]>>))

\* Mutants: every bottom falls back to the right arm; NULL tries the left
\* arm again.
MutFallBackAlways ==
    /\ Returned("LamChoice")
    /\ LET right == Eval(Right(Top.a), Top.args)
       IN  \/ ctl.a = Null /\ Go(Pop, right)
           \/ IsBottom(ctl.a) /\ Call(Pop, Fr("Right", ctl.a, <<>>, 0, 0), right)
           \/ /\ ctl.a # Null
              /\ ~IsBottom(ctl.a)
              /\ Go(Pop, Eval(ctl.a, Drop(Top.args, 1)))
    /\ UNCHANGED <<graph, world, bound>>
MutRetryLeft ==
    /\ Returned("LamChoice")
    /\ LET right == Eval(Right(Top.a), Top.args)
       IN  \/ ctl.a = Null /\ Go(Pop, Apply(Top.a, Top.args))
           \/ IsMismatch(ctl.a) /\ Call(Pop, Fr("Right", ctl.a, <<>>, 0, 0), right)
           \/ IsBottom(ctl.a) /\ ~IsMismatch(ctl.a) /\ Go(Pop, Ret(ctl.a))
           \/ /\ ctl.a # Null
              /\ ~IsBottom(ctl.a)
              /\ Go(Pop, Eval(ctl.a, Drop(Top.args, 1)))
    /\ UNCHANGED <<graph, world, bound>>

LamChoiceReturn ==
    /\ Returned("LamChoice")
    /\ LET right == Eval(Right(Top.a), Top.args)
       IN  \/ ctl.a = Null /\ Go(Pop, right)
           \/ IsMismatch(ctl.a) /\ Call(Pop, Fr("Right", ctl.a, <<>>, 0, 0), right)
           \/ IsBottom(ctl.a) /\ ~IsMismatch(ctl.a) /\ Go(Pop, Ret(ctl.a))
           \/ /\ ctl.a # Null
              /\ ~IsBottom(ctl.a)
              /\ Go(Pop, Eval(ctl.a, Drop(Top.args, 1)))
    /\ UNCHANGED <<graph, world, bound>>

\* lsthunk_bottom_merge when both arms fail; else the right arm's result.
MergedBottom(l, r) == Bottom("merged", Kids(l) \o Kids(r))

RightReturn ==
    /\ Returned("Right")
    /\ \/ IsBottom(ctl.a) /\ AllocReturn(Pop, MergedBottom(Top.a, ctl.a))
       \/ ~IsBottom(ctl.a) /\ Go(Pop, Ret(ctl.a)) /\ UNCHANGED graph
    /\ UNCHANGED <<world, bound>>

\* l ^| r: the right side is applied to the bottom the left side returns.
EvalCatch ==
    /\ Applying("CHOICE")
    /\ heap[ctl.a].tag = "catch"
    /\ Push(stack, Fr("Catch", ctl.a, <<>>, 0, 0), Eval(Left(ctl.a), ctl.args))

\* Allocate thunk t in normal form, then evaluate f applied to it and args.
AllocPass(s, t, f, args) ==
    IF top < MaxAddr
    THEN /\ heap' = [heap EXCEPT ![top + 1] = t]
         /\ memo' = [memo EXCEPT ![top + 1] = top + 1]
         /\ top' = top + 1
         /\ Go(s, Eval(f, <<top + 1>> \o args))
    ELSE UNCHANGED graph /\ Go(s, Halt("bound"))

CatchReturn ==
    /\ Returned("Catch")
    /\ \/ ctl.a = Null /\ AllocPass(Pop, Bottom("null", <<>>), Right(Top.a), <<>>)
       \/ IsBottom(ctl.a) /\ Go(Pop, Eval(Right(Top.a), <<ctl.a>>))
                          /\ UNCHANGED graph
       \/ ctl.a # Null /\ ~IsBottom(ctl.a) /\ Go(Pop, Ret(ctl.a))
                                           /\ UNCHANGED graph
    /\ UNCHANGED <<world, bound>>

\* l || r, and l | r without arguments.
EvalExprChoice ==
    /\ Applying("CHOICE")
    /\ \/ heap[ctl.a].tag = "expr"
       \/ heap[ctl.a].tag = "lambda" /\ ctl.args = <<>>
    /\ Push(stack, Fr("ExprChoice", ctl.a, ctl.args, 0, 0),
            Eval(Left(ctl.a), ctl.args))

ExprChoiceReturn ==
    /\ Returned("ExprChoice")
    /\ LET right == Eval(Right(Top.a), Top.args)
           fallback == IF heap[Top.a].tag = "lambda"
                       THEN IsMismatch(ctl.a) ELSE IsBottom(ctl.a)
       IN  \/ ctl.a = Null /\ Go(Pop, right)
           \/ fallback /\ Call(Pop, Fr("Right", ctl.a, <<>>, 0, 0), right)
           \/ ctl.a # Null /\ ~fallback /\ Go(Pop, Ret(ctl.a))
    /\ UNCHANGED <<graph, world, bound>>

-----------------------------------------------------------------------------
(* lsthunk_match_pat *)

Matching(type) == ctl.m = "match" /\ Pat(ctl.p).type = type

MatchRef ==
    /\ Matching("REF")
    /\ IF IsBottom(ctl.a) THEN UNCHANGED bound
       ELSE bound' = [bound EXCEPT ![ctl.p] = ctl.a]
    /\ Go(stack, Matched(~IsBottom(ctl.a)))
    /\ UNCHANGED <<graph, world>>

MatchWildcard ==
    /\ Matching("WILDCARD")
    /\ Step(stack, Matched(~IsBottom(ctl.a)))

\* Integers and strings match a thunk that is one already: it is not forced.
MatchLiteral ==
    /\ ctl.m = "match"
    /\ Pat(ctl.p).type \in {"INT", "STR"}
    /\ LET t == heap[ctl.a]
           q == Pat(ctl.p)
       IN  Go(stack, Matched(t.type = q.type /\ t.num = q.num /\ t.tag = q.tag))
    /\ UNCHANGED <<graph, world, bound>>

MatchAlge ==
    /\ Matching("ALGE")
    /\ Push(stack, Fr("AlgeHead", Null, <<>>, ctl.p, 0), Eval0(ctl.a))

\* lsthunk_get_type asserts that evaluation did not return NULL.
MatchAlgeHead ==
    /\ Returned("AlgeHead")
    /\ LET q == Pat(Top.p)
           t == heap[ctl.a]
           same == t.type = "ALGE" /\ t.tag = q.tag /\ Len(t.kids) = Len(q.sub)
       IN  \/ ctl.a = Null /\ Go(Pop, Halt("assert"))
           \/ ctl.a # Null /\ ~same /\ Go(Pop, Matched(FALSE))
           \/ ctl.a # Null /\ same /\ q.sub = <<>> /\ Go(Pop, Matched(TRUE))
           \/ /\ ctl.a # Null
              /\ same
              /\ q.sub # <<>>
              /\ Call(Pop, Fr("AlgeArg", ctl.a, <<>>, Top.p, 1),
                      Match(t.kids[1], q.sub[1]))
    /\ UNCHANGED <<graph, world, bound>>

\* The result of a sub-pattern is compared with "< 0", which neither
\* LSMATCH_SUCCESS (0) nor LSMATCH_FAILURE (1) is: it is never looked at.
MatchAlgeArg ==
    /\ MatchReturned("AlgeArg")
    /\ LET n == Top.i + 1
           q == Pat(Top.p)
       IN  \/ n > Len(q.sub) /\ Go(Pop, Matched(TRUE))
           \/ /\ n <= Len(q.sub)
              /\ Call(Pop, [Top EXCEPT !.i = n], Match(Kids(Top.a)[n], q.sub[n]))
    /\ UNCHANGED <<graph, world, bound>>

\* name@pattern: sub[1] is the name, sub[2] the pattern.
MatchAs ==
    /\ Matching("AS")
    /\ Push(stack, Fr("As", ctl.a, <<>>, ctl.p, 0), Match(ctl.a, Pat(ctl.p).sub[2]))

MatchAsReturn ==
    /\ MatchReturned("As")
    /\ Step(Pop, IF ctl.r = "fail" THEN Matched(FALSE)
               ELSE Match(Top.a, Pat(Top.p).sub[1]))

MatchOr ==
    /\ Matching("OR")
    /\ Push(stack, Fr("Or", ctl.a, <<>>, ctl.p, 0), Match(ctl.a, Pat(ctl.p).sub[1]))

MatchOrReturn ==
    /\ MatchReturned("Or")
    /\ IF ctl.r = "match"
       THEN Go(Pop, Matched(TRUE)) /\ UNCHANGED bound
       ELSE /\ ClearBinds(Pat(Top.p).sub[1])
            /\ Go(Pop, Match(Top.a, Pat(Top.p).sub[2]))
    /\ UNCHANGED <<graph, world>>

MatchCaret ==
    /\ Matching("CARET")
    /\ Push(stack, Fr("Caret", Null, <<>>, ctl.p, 0), Eval0(ctl.a))

\* ^(_) matches every bottom, ^(~x) binds the first related argument.
MatchCaretReturn ==
    /\ Returned("Caret")
    /\ LET inner == Pat(Top.p).sub[1]
           binds == /\ IsBottom(ctl.a)
                    /\ Pat(inner).type = "REF"
                    /\ Kids(ctl.a) # <<>>
           empty == IsBottom(ctl.a) /\ Pat(inner).type = "WILDCARD"
       IN  /\ IF binds THEN bound' = [bound EXCEPT ![inner] = Kids(ctl.a)[1]]
              ELSE UNCHANGED bound
           /\ Go(Pop, Matched(binds \/ empty))
    /\ UNCHANGED <<graph, world>>

-----------------------------------------------------------------------------
(* lsthunk_eval_builtin and the core builtins *)

EvalBuiltinValue ==
    /\ Applying("BUILTIN")
    /\ ctl.args = <<>>
    /\ Step(stack, IF ArityOf(heap[ctl.a].tag) = 0 THEN Eval0(Kids(ctl.a)[1])
                 ELSE Ret(ctl.a))

Guarded(t) == heap[t].num = 1 /\ ~EffectsAllowed

EvalBuiltinGuard ==
    /\ Applying("BUILTIN")
    /\ ctl.args # <<>>
    /\ Guarded(ctl.a)
    /\ Step(stack, Ret(Null))

EvalBuiltinPartial ==
    /\ Applying("BUILTIN")
    /\ ctl.args # <<>>
    /\ ~Guarded(ctl.a)
    /\ Len(ctl.args) < ArityOf(heap[ctl.a].tag)
    /\ AllocReturn(stack, T("APPL", "", 0, <<ctl.a>> \o ctl.args))
    /\ UNCHANGED <<world, bound>>

\* The builtin is called with its first arity arguments.
Calling(names) ==
    /\ Applying("BUILTIN")
    /\ heap[ctl.a].tag \in names
    /\ ctl.args # <<>>
    /\ ~Guarded(ctl.a)
    /\ Len(ctl.args) >= ArityOf(heap[ctl.a].tag)

Rest(t, args) == Drop(args, ArityOf(heap[t].tag))

\* pl_getter0 returns the value it captured, cb_return its argument.
CallReturn ==
    /\ Calling({"getter", "return"})
    /\ FinishBuiltin(stack, IF heap[ctl.a].tag = "return" THEN ctl.args[1]
                            ELSE Kids(ctl.a)[1],
                     Rest(ctl.a, ctl.args))
    /\ UNCHANGED <<world, bound>>

CallArith ==
    /\ Calling({"add", "sub", "lt"})
    /\ Push(stack, Fr("Lhs", ctl.a, ctl.args, 0, 0), Eval0(ctl.args[1]))

ArithLhs ==
    /\ Returned("Lhs")
    /\ \/ ctl.a = Null /\ FailBuiltin(Pop, "arg1")
       \/ IsBottom(ctl.a) /\ Go(Pop, Ret(ctl.a)) /\ UNCHANGED graph
       \/ /\ ctl.a # Null
          /\ ~IsBottom(ctl.a)
          /\ Call(Pop, [Top EXCEPT !.k = "Rhs", !.i = ctl.a], Eval0(Top.args[2]))
          /\ UNCHANGED graph
    /\ UNCHANGED <<world, bound>>

ArithResult(op, x, y) ==
    IF op = "add" THEN T("INT", "", x + y, <<>>)
    ELSE IF op = "sub" THEN T("INT", "", x - y, <<>>)
    ELSE T("ALGE", IF x < y THEN "true" ELSE "false", 0, <<>>)

\* A fresh value, applied to the arguments left, if any.
AllocApply(s, t, rest) ==
    IF top < MaxAddr
    THEN /\ heap' = [heap EXCEPT ![top + 1] = t]
         /\ memo' = [memo EXCEPT ![top + 1] = top + 1]
         /\ top' = top + 1
         /\ Go(s, IF rest = <<>> THEN Ret(top + 1) ELSE Apply(top + 1, rest))
    ELSE UNCHANGED graph /\ Go(s, Halt("bound"))

ArithRhs ==
    /\ Returned("Rhs")
    /\ LET ints == heap[Top.i].type = "INT" /\ heap[ctl.a].type = "INT"
       IN  \/ ctl.a = Null /\ FailBuiltin(Pop, "arg2")
           \/ IsBottom(ctl.a) /\ Go(Pop, Ret(ctl.a)) /\ UNCHANGED graph
           \/ /\ ctl.a # Null
              /\ ~IsBottom(ctl.a)
              /\ ~ints
              /\ FailBuiltin(Pop, "invalid type")
           \/ /\ ctl.a # Null
              /\ ints
              /\ AllocApply(Pop, ArithResult(heap[Top.a].tag, heap[Top.i].num,
                                             heap[ctl.a].num),
                            Rest(Top.a, Top.args))
    /\ UNCHANGED <<world, bound>>

\* seq, seqc, chain and bind evaluate their first argument with effects on.
CallEffect ==
    /\ Calling({"seq", "seqc", "chain", "bind"})
    /\ EffectsBegin
    /\ Call(stack, Fr("Effect", ctl.a, ctl.args, 0, 0), Eval0(ctl.args[1]))
    /\ UNCHANGED <<graph, prog, out, bound>>

\* Mutant: the early return forgets ls_effects_end.
MutEffectFails ==
    /\ Returned("Effect")
    /\ UNCHANGED depth
    /\ \/ ctl.a = Null /\ FailBuiltin(Pop, "first")
       \/ IsBottom(ctl.a) /\ Go(Pop, Ret(ctl.a)) /\ UNCHANGED graph
    /\ UNCHANGED <<prog, out, bound>>

EffectFails ==
    /\ Returned("Effect")
    /\ EffectsEnd
    /\ \/ ctl.a = Null /\ FailBuiltin(Pop, "first")
       \/ IsBottom(ctl.a) /\ Go(Pop, Ret(ctl.a)) /\ UNCHANGED graph
    /\ UNCHANGED <<prog, out, bound>>

EffectDone(name) ==
    /\ Returned("Effect")
    /\ heap[Top.a].tag = name
    /\ ctl.a # Null
    /\ ~IsBottom(ctl.a)
    /\ EffectsEnd
    /\ UNCHANGED <<prog, out, bound>>

SeqReturn ==
    /\ EffectDone("seq")
    /\ FinishBuiltin(Pop, Top.args[2], Rest(Top.a, Top.args))

\* seqc applies a fresh seqc to its second argument: a partial application.
SeqcReturn ==
    /\ EffectDone("seqc")
    /\ IF top + 2 <= MaxAddr
       THEN /\ heap' = [heap EXCEPT
                   ![top + 1] = T("BUILTIN", "seqc", 0, <<>>),
                   ![top + 2] = T("APPL", "", 0, <<top + 1, Top.args[2]>>)]
            /\ memo' = [memo EXCEPT ![top + 2] = top + 2]
            /\ top' = top + 2
            /\ LET rest == Rest(Top.a, Top.args)
               IN  Go(Pop, IF rest = <<>> THEN Ret(top + 2)
                           ELSE Apply(top + 2, rest))
       ELSE UNCHANGED graph /\ Go(Pop, Halt("bound"))

ResultFrame == Fr("Result", Null, Rest(Top.a, Top.args), 0, 0)

\* The continuation of chain gets unit, the one of bind gets the value.
ChainReturn ==
    /\ EffectDone("chain")
    /\ AllocPass(Append(Pop, ResultFrame), T("ALGE", "()", 0, <<>>),
                 Top.args[2], <<>>)

BindReturn ==
    /\ EffectDone("bind")
    /\ Go(Append(Pop, ResultFrame), Eval(Top.args[2], <<ctl.a>>))
    /\ UNCHANGED graph

ContinuationReturn ==
    /\ Returned("Result")
    /\ FinishBuiltin(Pop, ctl.a, Top.args)
    /\ UNCHANGED <<world, bound>>

\* Mutant: the effects guard is missing.
MutCallPrint ==
    /\ Calling({"print"})
    /\ Call(stack, Fr("Print", ctl.a, ctl.args, 0, 0), Eval0(ctl.args[1]))
    /\ UNCHANGED <<graph, world, bound>>

CallPrint ==
    /\ Calling({"print"})
    /\ \/ ~EffectsAllowed /\ FinishBuiltin(stack, Null, Rest(ctl.a, ctl.args))
       \/ /\ EffectsAllowed
          /\ Call(stack, Fr("Print", ctl.a, ctl.args, 0, 0), Eval0(ctl.args[1]))
          /\ UNCHANGED graph
    /\ UNCHANGED <<world, bound>>

\* What is printed is the value; its arguments, which the code would evaluate
\* one by one, are none in the programs checked.
PrintReturn ==
    /\ Returned("Print")
    /\ \/ ctl.a = Null /\ FailBuiltin(Pop, "print: arg") /\ UNCHANGED out
       \/ IsBottom(ctl.a) /\ Go(Pop, Ret(ctl.a)) /\ UNCHANGED <<graph, out>>
       \/ /\ ctl.a # Null
          /\ ~IsBottom(ctl.a)
          /\ out' = Append(out, heap[ctl.a])
          /\ FinishBuiltin(Pop, Top.args[1], Rest(Top.a, Top.args))
    /\ UNCHANGED <<prog, depth, bound>>

-----------------------------------------------------------------------------
(* lsprog_eval: the root is evaluated by lsthunk_eval0. *)

Finish ==
    /\ ctl.m = "ret"
    /\ stack = <<>>
    /\ Step(stack, C("halt", ctl.a, <<>>, 0, "done"))

Stopped == ctl.m = "halt" /\ UNCHANGED vars

Init ==
    /\ prog \in Programs
    /\ heap = [a \in Addr |-> IF a <= Len(prog.heap) THEN prog.heap[a]
                              ELSE FreeThunk]
    /\ top = Len(prog.heap)
    /\ memo = [a \in Addr |-> IF heap[a].type \in DataTypes THEN a ELSE Null]
    /\ bound = [q \in PatId |-> Null]
    /\ depth = 0
    /\ out = <<>>
    /\ stack = <<>>
    /\ ctl = Eval0(prog.root)

EvalStep ==
    \/ Eval0Memo \/ Eval0Appl \/ Eval0Other \/ Update
    \/ EvalAlge \/ EvalAppl \/ EvalAtom
    \/ EvalLambda \/ LambdaMismatch \/ LambdaBody \/ LambdaReturn
RefStep ==
    \/ RefUndefined \/ RefBound \/ RefBind \/ RefBindMismatch
    \/ RefBindMatched \/ RefParam \/ RefBuiltin
ChoiceStep ==
    \/ EvalLamChoice \/ LamChoiceReturn \/ RightReturn \/ EvalCatch
    \/ CatchReturn \/ EvalExprChoice \/ ExprChoiceReturn
MatchStep ==
    \/ MatchRef \/ MatchWildcard \/ MatchLiteral \/ MatchAlge
    \/ MatchAlgeHead \/ MatchAlgeArg \/ MatchAs \/ MatchAsReturn
    \/ MatchOr \/ MatchOrReturn \/ MatchCaret \/ MatchCaretReturn
BuiltinStep ==
    \/ EvalBuiltinValue \/ EvalBuiltinGuard \/ EvalBuiltinPartial
    \/ CallReturn \/ CallArith \/ ArithLhs \/ ArithRhs
    \/ CallEffect \/ EffectFails \/ SeqReturn \/ SeqcReturn
    \/ ChainReturn \/ BindReturn \/ ContinuationReturn
    \/ CallPrint \/ PrintReturn

Next ==
    \/ EvalStep \/ RefStep \/ ChoiceStep \/ MatchStep \/ BuiltinStep
    \/ Finish \/ Stopped

\* The evaluator is one thread that runs until it is done.
Spec == Init /\ [][Next]_vars /\ WF_vars(Next)

-----------------------------------------------------------------------------
(* Properties *)

\* Type invariant: every component of the state is of its kind.
TypeOK ==
    /\ heap \in [Addr -> Thunk]
    /\ top \in 0..MaxAddr
    /\ memo \in [Addr -> AddrOrNull]
    /\ bound \in [PatId -> AddrOrNull]
    /\ depth \in Nat
    /\ out \in Seq(Thunk)
    /\ stack \in Seq(Frame)
    /\ ctl \in Control

\* What evaluation returns and what lt_whnf remembers is a weak head normal
\* form (or NULL): no caller ever finds an unevaluated application, choice or
\* reference where lsthunk_eval0 promised a value, on whatever path - lambda
\* body, substituted copy, fallback arm, builtin result - it came.
WhnfIsValue ==
    /\ \A t \in Addr : memo[t] # Null => IsValue(memo[t])
    /\ ctl.m = "ret" /\ ctl.a # Null => IsValue(ctl.a)

\* Aborted: the process stopped in an assertion, or the bounds ran out.
Aborted == ctl.m = "halt" /\ ctl.r # "done"

\* The shared binding of a lambda's parameter does not outlive the
\* application that made it: while a parameter is bound, some application of
\* its lambda is being matched or its body evaluated.  Whatever way an
\* application ends (mismatch, NULL, bottom, value) it clears its bindings.
BindsScoped ==
    \A q \in PatId :
        Pat(q).org = "LAMBDA" /\ bound[q] # Null /\ ~Aborted =>
            \E i \in 1..Len(stack) :
                /\ stack[i].k \in {"Match", "Body"}
                /\ q \in Pat(Param(stack[i].a)).refs

\* ls_effects_begin and ls_effects_end pair up on every path: the depth is the
\* number of seq, seqc, chain and bind calls evaluating their first argument,
\* and without --strict-effects it stays 0.
EffectsBalanced ==
    ~Aborted => depth = IF prog.strict
                        THEN Cardinality({i \in 1..Len(stack) : stack[i].k = "Effect"})
                        ELSE 0

\* With --strict-effects nothing is printed except while the first argument
\* of seq, seqc, chain or bind is being evaluated.
PrintsAllowed ==
    [][out' # out /\ prog.strict => \E i \in 1..Len(stack) : stack[i].k = "Effect"]_vars

\* Call-by-need: a thunk that has a value keeps it, and is not evaluated
\* again while its first evaluation is still pending.
EvaluatedOnce ==
    /\ [][\A t \in Addr : memo[t] # Null => memo'[t] = memo[t]]_memo
    /\ [](\A i, j \in 1..Len(stack) :
             stack[i].k = "Update" /\ stack[j].k = "Update" /\ i # j
                 => stack[i].a # stack[j].a)

\* Every reference to a parameter that is left in the graph evaluation can
\* still reach is evaluated while the parameter is bound.
ParamsBound ==
    /\ ctl.m = "apply"
    /\ heap[ctl.a].type = "REF"
    /\ heap[ctl.a].num # 0
    /\ Pat(heap[ctl.a].num).org = "LAMBDA"
    => bound[heap[ctl.a].num] # Null

\* Evaluation of the programs checked comes to an end.
Terminates == <>(ctl.m = "halt" /\ ctl.r # "bound")
=============================================================================
