--------------------------- MODULE PreludePlugin ---------------------------
(***************************************************************************)
(* The prelude plugin (src/src/plugins/builtins_ns.c), namespaces          *)
(* (src/src/builtins/ns.c) and the loader of builtin libraries             *)
(* (src/src/builtins/builtin_loader.c), under the evaluator of thunk.c.    *)
(*                                                                         *)
(* A process evaluates the programs of a session one after the other in    *)
(* one environment: the init script, the program, the program's entry.     *)
(* What they share is state that outlives an evaluation: the environment   *)
(* import writes, the cache of libraries, the depth of effects, and the    *)
(* memo of every thunk, those of namespace members included.  As in        *)
(* LazyEval a pending C activation is a frame of "stack" and "ctl" is the  *)
(* call or return about to happen.                                         *)
(***************************************************************************)
EXTENDS Naturals, Sequences, FiniteSets

CONSTANT Sessions   \* [heap, runs, disks]: thunks after the static ones,
                    \* programs, and what the search path may hold meanwhile

\* A thunk.  op: constructor, symbol, string, reference or builtin.
\* a: <<function>> \o arguments (appl), <<body>> (lam).  d: the target of a
\* reference (0: not resolved), the value of a member, the namespace of a
\* namespace value or list of members.  n, eff: arity and LSBATTR_EFFECT.
Th(k, op, a, d, n, eff) ==
    [k |-> k, op |-> op, a |-> a, d |-> d, n |-> n, eff |-> eff]
Con(name) == Th("con", name, <<>>, 0, 0, FALSE)
Sym(name) == Th("sym", name, <<>>, 0, 0, FALSE)
Builtin(op, n, eff) == Th("builtin", op, <<>>, 0, n, eff)
Member(value) == Th("builtin", "member", <<>>, value, 0, FALSE)
Namespace(s) == Th("builtin", "namespace", <<>>, s, 1, FALSE)

\* Thunks of the runtime.  A handler makes a new one of these at every call;
\* they have no parts and no memo that matters, so one of each stands for all.
Static == <<
    Th("err", "", <<>>, 0, 0, FALSE), Con("()"), Con("true"), Con("false"), Sym("lt"),
    Builtin("prelude", 1, FALSE), Builtin("env", 1, FALSE),
    Builtin("chain", 2, FALSE), Builtin("bind", 2, FALSE), Builtin("return", 1, FALSE),
    Builtin("nsMembers", 1, FALSE), Builtin("builtin", 1, FALSE),
    Builtin("nslit", 2, FALSE), Builtin("nslit", 4, FALSE),
    Builtin("println", 1, TRUE), Builtin("exit", 1, TRUE), Builtin("builtin", 1, TRUE),
    Builtin("import", 1, TRUE), Builtin("importOpt", 1, TRUE), Builtin("withImport", 2, TRUE),
    Builtin("println", 1, FALSE), Builtin("lt", 2, FALSE), Builtin("set", 2, FALSE) >>
Err == 1
Unit == 2
True == 3
False == 4
SymLt == 5
Prelude == 6
EnvOps == 7
CorePrintln == 21
CoreLt == 22
Setter == 23

\* What a parser builds: a term of thunks H, its references not resolved.
IsTerm(th, H) ==
    /\ th = Th(th.k, th.op, th.a, 0, 0, FALSE)
    /\ th.k \in {"con", "sym", "str", "int", "ref", "appl", "lam"}
    /\ th.a \in Seq(H)
    /\ th.k \in {"appl", "lam"} => th.a # <<>>

\* A session holds the terms of its programs, and every program is one of them.
ASSUME SessionsAssumption ==
    \A s \in Sessions :
        LET H == 1..(Len(Static) + Len(s.heap))
        IN  /\ s.heap = [t \in 1..Len(s.heap) |-> s.heap[t]] /\ Len(s.heap) \in Nat
            /\ \A t \in 1..Len(s.heap) : IsTerm(s.heap[t], H)
            /\ s.runs \in Seq([root : H, nodes : SUBSET H, wrapped : BOOLEAN, fresh : BOOLEAN])

\* pl_dispatch: the names it knows and what it answers; "lt" is apart.
Dispatched ==
    [chain |-> 8, bind |-> 9, return |-> 10, nsMembers |-> 11, builtin |-> 12,
     nslit2 |-> 13, nslit4 |-> 14, println |-> 15, exit |-> 16,
     importOpt |-> 19, withImport |-> 20]
\* pl_dispatch_env.
EnvDispatched ==
    [println |-> 15, exit |-> 16, builtin |-> 17, import |-> 18,
     importOpt |-> 19, withImport |-> 20]

\* The exports of a library, in their order.
Entries == <<[key |-> "println", value |-> CorePrintln], [key |-> "lt", value |-> CoreLt]>>

\* A name is bound as a member's key is written and without its dot.
Spellings == {"dotted", "plain"}
NamesOf(keys) == Spellings \X keys

-----------------------------------------------------------------------------
VARIABLES
    session,  \* [disks, strict]: what this process is given
    pending,  \* programs still to evaluate
    heap, whnf,
    env,      \* the environment of the plugin: name -> thunk
    spaces,   \* namespaces: key -> member
    cache,    \* g_builtin_cache: library -> namespace value
    disk,     \* library -> what each directory holds under its name
    depth,    \* g_effects_depth
    inits,    \* libraries whose init function has run
    imports,  \* namespaces imported so far
    acts,     \* effects so far: what, and whether in a place for effects
    stack, ctl

graph == <<heap, whnf>>
library == <<cache, inits>>
vars == <<session, pending, heap, whnf, env, spaces, cache, disk, depth, inits,
          imports, acts, stack, ctl>>
fixed == <<session, disk>>

C(m, t, args, name) == [m |-> m, t |-> t, args |-> args, name |-> name]
Eval(t, args) == C("eval", t, args, "")   \* lsthunk_eval; eval0 without arguments
Ret(t) == C("ret", t, <<>>, "")           \* 0: the C function returns NULL
Load(name) == C("load", 0, <<>>, name)    \* lsbuiltin_prelude_builtin, named
Idle == C("idle", 0, <<>>, "")
Exited == C("exit", 0, <<>>, "")

\* memo: writes lt_whnf of t; conv: a builtin without parameters; then: applies
\* what a builtin answers to the rest; arg: a builtin evaluates an argument;
\* act: one that has passed its guard does; begun: chain or bind does, with
\* effects enabled; pick: pl_dispatch takes a member of a library; top: the
\* host, t = 1 if it enabled effects.
Fr(f, t, args, vals) == [f |-> f, t |-> t, args |-> args, vals |-> vals]
Push(fr) == stack' = Append(stack, fr)
Pop == stack' = SubSeq(stack, 1, Len(stack) - 1)
Switch(fr) == stack' = [stack EXCEPT ![Len(stack)] = fr]
Memo(t, args) == IF args = <<>> THEN <<Fr("memo", t, <<>>, <<>>)>> ELSE <<>>

Allowed == ~session.strict \/ depth > 0
Begin == depth' = IF session.strict THEN depth + 1 ELSE depth
End == depth' = IF session.strict /\ depth > 0 THEN depth - 1 ELSE depth

\* The places that enable effects: a wrapped program (init, entry), and the
\* first argument of chain and bind.
Enables(fr) == fr.f = "begun" \/ (fr.f = "top" /\ fr.t = 1)
InPlace == \E i \in DOMAIN stack : Enables(stack[i])
Act(what) == acts' = acts \cup {[what |-> what, inPlace |-> InPlace]}

-----------------------------------------------------------------------------
(* Programs.  A program may start in a new environment (a second file or -e
   of the command line) or go on in the one before (init, program, entry). *)

\* ls_prelude_register: what a new environment binds.
Registered == [n \in {"plain"} \X {"prelude", "prelude$builtin"} |-> Prelude]

Init ==
    \E s \in Sessions, strict \in BOOLEAN :
        /\ session = [disks |-> s.disks, strict |-> strict]
        /\ pending = s.runs
        /\ heap = Static \o s.heap
        /\ whnf = [t \in 1..Len(Static \o s.heap) |-> 0]
        /\ env = Registered
        /\ spaces = <<>> /\ cache = <<>> /\ depth = 0
        /\ disk \in s.disks
        /\ inits = <<>> /\ imports = <<>> /\ acts = {}
        /\ stack = <<>> /\ ctl = Idle

\* Building a program's graph resolves the names bound by then.
Resolved(run, e, t) ==
    LET th == heap[t]
        n == <<"plain", th.op>>
    IN  IF t \in run.nodes /\ th.k = "ref" /\ th.d = 0 /\ n \in DOMAIN e
        THEN [th EXCEPT !.d = e[n]] ELSE th

Start ==
    /\ ctl = Idle /\ pending # <<>>
    /\ LET run == Head(pending)
       IN  /\ env' = IF run.fresh THEN Registered ELSE env
           /\ imports' = IF run.fresh THEN <<>> ELSE imports
           /\ heap' = [t \in DOMAIN heap |-> Resolved(run, env', t)]
           /\ Push(Fr("top", IF run.wrapped THEN 1 ELSE 0, <<>>, <<>>))
           /\ IF run.wrapped THEN Begin ELSE UNCHANGED depth
           /\ ctl' = Eval(run.root, <<>>)
    /\ pending' = Tail(pending)
    /\ UNCHANGED <<fixed, whnf, spaces, library, acts>>

\* Libraries come and go between two programs.
ChangeDisk ==
    /\ ctl = Idle /\ pending # <<>>
    /\ disk' \in session.disks
    /\ UNCHANGED <<session, pending, graph, env, spaces, library, depth, imports, acts, stack, ctl>>

-----------------------------------------------------------------------------
(* lsthunk_eval, lsthunk_eval0 *)

Evaluating(kind) == ctl.m = "eval" /\ heap[ctl.t].k = kind

Known == ctl.args = <<>> /\ whnf[ctl.t] # 0

quiet == <<fixed, pending, spaces, library, imports, acts>>

EvalKnown ==
    /\ ctl.m = "eval" /\ Known
    /\ ctl' = Ret(whnf[ctl.t])
    /\ UNCHANGED <<quiet, graph, env, depth, stack>>

\* Data, and functions without arguments, are their own value; a bottom stays
\* one when it is applied, other data gives NULL.
EvalValue ==
    /\ ctl.m = "eval" /\ ~Known
    /\ LET th == heap[ctl.t]
       IN  \/ th.k = "err" /\ ctl' = Ret(ctl.t)
           \/ th.k \in {"con", "sym", "str", "int"} /\ ctl.args = <<>> /\ ctl' = Ret(ctl.t)
           \/ th.k \in {"sym", "str", "int"} /\ ctl.args # <<>> /\ ctl' = Ret(0)
           \/ th.k = "lam" /\ ctl.args = <<>> /\ ctl' = Ret(ctl.t)
           \/ th.k = "builtin" /\ th.n > 0 /\ ctl.args = <<>> /\ ctl' = Ret(ctl.t)
    /\ UNCHANGED <<quiet, graph, env, depth, stack>>

\* A constructor takes any number of arguments.
EvalConstructor ==
    /\ Evaluating("con") /\ ctl.args # <<>>
    /\ LET t == Len(heap) + 1
       IN  /\ heap' = Append(heap, [heap[ctl.t] EXCEPT !.a = @ \o ctl.args])
           /\ whnf' = Append(whnf, t)
           /\ ctl' = Ret(t)
    /\ UNCHANGED <<quiet, env, depth, stack>>

EvalApplication ==
    /\ Evaluating("appl") /\ ~Known
    /\ LET a == heap[ctl.t].a
       IN  ctl' = Eval(a[1], Tail(a) \o ctl.args)
    /\ stack' = stack \o Memo(ctl.t, ctl.args)
    /\ UNCHANGED <<quiet, graph, env, depth>>

\* The parameter is not used; lsthunk_clone shares the body.
EvalLambda ==
    /\ Evaluating("lam") /\ ctl.args # <<>>
    /\ ctl' = Eval(heap[ctl.t].a[1], Tail(ctl.args))
    /\ UNCHANGED <<quiet, graph, env, depth, stack>>

\* Fault: the target is looked up at every evaluation.
EvalReferenceAnew ==
    /\ Evaluating("ref") /\ ~Known
    /\ LET n == <<"plain", heap[ctl.t].op>>
       IN  /\ stack' = stack \o Memo(ctl.t, ctl.args)
           /\ IF n \in DOMAIN env
              THEN heap' = [heap EXCEPT ![ctl.t].d = env[n]] /\ ctl' = Eval(env[n], ctl.args)
              ELSE UNCHANGED heap /\ ctl' = Ret(Err)
    /\ UNCHANGED <<quiet, whnf, env, depth>>

\* lsthunk_eval_ref: the target is looked up once and kept.
EvalReference ==
    /\ Evaluating("ref") /\ ~Known
    /\ LET t == ctl.t
           n == <<"plain", heap[t].op>>
       IN  /\ stack' = stack \o Memo(t, ctl.args)
           /\ \/ /\ heap[t].d # 0
                 /\ ctl' = Eval(heap[t].d, ctl.args)
                 /\ UNCHANGED heap
              \/ /\ heap[t].d = 0 /\ n \in DOMAIN env
                 /\ heap' = [heap EXCEPT ![t].d = env[n]]
                 /\ ctl' = Eval(env[n], ctl.args)
              \/ /\ heap[t].d = 0 /\ n \notin DOMAIN env
                 /\ ctl' = Ret(Err)
                 /\ UNCHANGED heap
    /\ UNCHANGED <<quiet, whnf, env, depth>>

\* lsbuiltin_ns_member_wrap: evaluates the member's own thunk.
EvalMember ==
    /\ Evaluating("builtin") /\ heap[ctl.t].op = "member" /\ ~Known
    /\ stack' = stack \o
          IF ctl.args = <<>> THEN <<Fr("memo", ctl.t, <<>>, <<>>), Fr("conv", 0, <<>>, <<>>)>>
          ELSE <<Fr("then", 0, ctl.args, <<>>)>>
    /\ ctl' = Eval(heap[ctl.t].d, <<>>)
    /\ UNCHANGED <<quiet, graph, env, depth>>

-----------------------------------------------------------------------------
(* lsthunk_eval_builtin *)

Applied == Evaluating("builtin") /\ heap[ctl.t].n > 0 /\ ctl.args # <<>>
Denied == heap[ctl.t].eff /\ ~Allowed

\* The central guard gives NULL, which nothing memoizes.
EvalDenied ==
    /\ Applied /\ Denied
    /\ ctl' = Ret(0)
    /\ UNCHANGED <<quiet, graph, env, depth, stack>>

EvalPartial ==
    /\ Applied /\ ~Denied /\ Len(ctl.args) < heap[ctl.t].n
    /\ LET t == Len(heap) + 1
       IN  /\ heap' = Append(heap, Th("appl", "", <<ctl.t>> \o ctl.args, 0, 0, FALSE))
           /\ whnf' = Append(whnf, t)
           /\ ctl' = Ret(t)
    /\ UNCHANGED <<quiet, env, depth, stack>>

Called == Applied /\ ~Denied /\ Len(ctl.args) >= heap[ctl.t].n

\* Handlers that ask whether effects are allowed, and then evaluate an argument.
Effectful == {"println", "exit", "import", "importOpt", "withImport"}
Waits(op) ==
    IF op \in {"chain", "bind"} THEN "begun" ELSE IF op \in Effectful THEN "act" ELSE "arg"

\* return answers its argument unevaluated; a literal's setter refuses before
\* it evaluates anything; the NULL of a handler's own guard, the only one the
\* print of a library has, is made a bottom.
EvalAtOnce ==
    /\ Called
    /\ LET th == heap[ctl.t]
       IN  \/ th.op = "return" /\ ctl' = Eval(ctl.args[1], Tail(ctl.args))
           \/ th.op = "set" /\ ctl' = Ret(Err)
           \/ th.op \in Effectful /\ ~Allowed /\ ctl' = Ret(Err)
    /\ UNCHANGED <<quiet, graph, env, depth, stack>>

\* The other handlers evaluate an argument first; chain and bind enable effects.
EvalHandler ==
    /\ Called
    /\ LET th == heap[ctl.t]
       IN  /\ th.op \notin {"return", "set"}
           /\ th.op \in Effectful => Allowed
           /\ IF Waits(th.op) = "begun" THEN Begin ELSE UNCHANGED depth
    /\ Push(Fr(Waits(heap[ctl.t].op), ctl.t, ctl.args, <<>>))
    /\ ctl' = Eval(ctl.args[1], <<>>)
    /\ UNCHANGED <<quiet, graph, env>>

-----------------------------------------------------------------------------
(* Returns *)

Top == stack[Len(stack)]
Returned(f) == ctl.m = "ret" /\ stack # <<>> /\ Top.f = f

\* eval0 writes what it got, NULL included: such a thunk is evaluated again.
ReturnMemo ==
    /\ Returned("memo")
    /\ whnf' = [whnf EXCEPT ![Top.t] = ctl.t]
    /\ Pop
    /\ UNCHANGED <<quiet, heap, env, depth, ctl>>

\* A builtin without parameters that answers NULL is a bottom, and memoized.
ReturnConv ==
    /\ Returned("conv")
    /\ ctl' = IF ctl.t = 0 THEN Ret(Err) ELSE ctl
    /\ Pop
    /\ UNCHANGED <<quiet, graph, env, depth>>

ReturnThen ==
    /\ Returned("then")
    /\ ctl' = IF ctl.t = 0 THEN Ret(Err) ELSE Eval(ctl.t, Top.args)
    /\ Pop
    /\ UNCHANGED <<quiet, graph, env, depth>>

\* (~prelude lt): the library answered; its member is the answer.
ReturnPick ==
    /\ Returned("pick")
    /\ ctl' = IF ctl.t = 0 THEN Ret(Err) ELSE Eval(ctl.t, <<SymLt>>)
    /\ Pop
    /\ UNCHANGED <<quiet, graph, env, depth>>

\* Fault: a wrapped program leaves its effects enabled.
ReturnTopEnabled ==
    /\ Returned("top")
    /\ ctl' = Idle
    /\ Pop
    /\ UNCHANGED <<quiet, graph, env, depth>>

ReturnTop ==
    /\ Returned("top")
    /\ IF Top.t = 1 THEN End ELSE UNCHANGED depth
    /\ ctl' = Idle
    /\ Pop
    /\ UNCHANGED <<quiet, graph, env>>

-----------------------------------------------------------------------------
(* What a builtin does with its arguments *)

This == heap[Top.t]
Value == heap[ctl.t]
Handler(op) == Returned(Waits(op)) /\ This.op = op
IsNamespace(th) == th.k = "builtin" /\ th.op = "namespace"
Rest == SubSeq(Top.args, This.n + 1, Len(Top.args))

\* func's answer is applied to the arguments that are left.
Answer(t) == Pop /\ ctl' = Eval(t, Rest)
\* The answer is func's own last call, whose NULL is still made a bottom.
AnswerOf(control) == Switch(Fr("then", 0, Rest, <<>>)) /\ ctl' = control

\* ns_encode_key_from_thunk: a symbol, or a constructor without arguments,
\* which means the symbol of that name.
IsName(th) == th.k \in {"sym", "con"} /\ th.a = <<>>

\* Handlers that go on when their argument is a bottom: println prints a line
\* end and answers (), importOpt answers false.
Tolerant == {"println", "importOpt"}

Refuses(op, t) ==
    IF t = 0 THEN TRUE
    ELSE \/ heap[t].k = "err" /\ op \notin Tolerant
         \/ op \in {"nslit", "namespace", "prelude"} /\ ~IsName(heap[t])
         \/ op = "env" /\ heap[t].k # "sym"
         \/ op = "builtin" /\ heap[t].k # "str"
         \/ op \in {"exit", "lt"} /\ heap[t].k # "int"
         \/ op \in {"import", "withImport", "nsMembers"} /\ ~IsNamespace(heap[t])

Refused ==
    /\ Returned("arg") \/ Returned("act") \/ Returned("begun")
    /\ Refuses(This.op, ctl.t)
Given(op) == Handler(op) /\ ~Refuses(op, ctl.t)

\* Fault: a failed argument leaves chain and bind before effects end.
RefuseEarly ==
    /\ Refused
    /\ ctl' = Ret(Err)
    /\ Pop
    /\ UNCHANGED <<quiet, graph, env, depth>>

\* Every refusal, with its own message, is a bottom; effects end first.
Refuse ==
    /\ Refused
    /\ IF Top.f = "begun" THEN End ELSE UNCHANGED depth
    /\ ctl' = Ret(Err)
    /\ Pop
    /\ UNCHANGED <<quiet, graph, env>>

\* pl_dispatch.
Dispatch ==
    /\ Given("prelude")
    /\ IF Value.k = "con" /\ Value.op = "lt"
       THEN /\ stack' = SubSeq(stack, 1, Len(stack) - 1) \o
                  <<Fr("then", 0, Rest, <<>>), Fr("pick", 0, <<>>, <<>>)>>
            /\ ctl' = Load("core")
       ELSE Answer(IF Value.k = "sym" /\ Value.op = "env" THEN EnvOps
                   ELSE IF Value.op \in DOMAIN Dispatched
                           /\ (Value.k = "con" \/ Value.op = "builtin")
                   THEN Dispatched[Value.op] ELSE Err)
    /\ UNCHANGED <<quiet, graph, env, depth>>

\* pl_dispatch_env.
DispatchEnv ==
    /\ Given("env")
    /\ Answer(IF Value.op \in DOMAIN EnvDispatched THEN EnvDispatched[Value.op] ELSE Err)
    /\ UNCHANGED <<quiet, graph, env, depth>>

\* lsbuiltin_ns_dispatch.
Lookup ==
    /\ Given("namespace")
    /\ LET space == spaces[This.d]
       IN  Answer(IF Value.k = "sym" /\ Value.op = "__set" THEN Setter
                  ELSE IF Value.op \in DOMAIN space THEN space[Value.op] ELSE Err)
    /\ UNCHANGED <<quiet, graph, env, depth>>

\* lsbuiltin_ns_members: the keys; no member is evaluated.
Members ==
    /\ Given("nsMembers")
    /\ LET t == Len(heap) + 1
       IN  /\ heap' = Append(heap, [Con(":") EXCEPT !.d = Value.d])
           /\ whnf' = Append(whnf, t)
           /\ Answer(t)
    /\ UNCHANGED <<quiet, env, depth>>

\* A namespace of these pairs <<key, value>>: a wrapper for every pair, and of
\* two pairs with one key the last.
MakeSpace(pairs) ==
    LET base == Len(heap)
        keys == {pairs[i][1] : i \in DOMAIN pairs}
        LastAt(key) == CHOOSE i \in DOMAIN pairs :
            pairs[i][1] = key /\ \A j \in DOMAIN pairs : pairs[j][1] = key => j <= i
        wrappers == [i \in DOMAIN pairs |-> Member(pairs[i][2])]
    IN  /\ spaces' = Append(spaces, [key \in keys |-> base + LastAt(key)])
        /\ heap' = heap \o wrappers \o <<Namespace(Len(spaces) + 1)>>
        /\ whnf' = whnf \o [i \in 1..(Len(pairs) + 1) |-> 0]

\* lsbuiltin_nslit evaluates its keys in order, and stops at a bad one.
Literal ==
    /\ Given("nslit")
    /\ LET keys == Append(Top.vals, Value.op)
           n == Len(keys)
       IN  IF 2 * n < This.n
           THEN /\ Switch(Fr("arg", Top.t, Top.args, keys))
                /\ ctl' = Eval(Top.args[2 * n + 1], <<>>)
                /\ UNCHANGED <<graph, spaces>>
           ELSE /\ MakeSpace([i \in 1..n |-> <<keys[i], Top.args[2 * i]>>])
                /\ Answer(Len(heap'))
    /\ UNCHANGED <<fixed, pending, library, imports, acts, env, depth>>

\* pl_chain and pl_bind: effects end before the continuation runs.
Continue ==
    /\ Given("chain") \/ Given("bind")
    /\ End
    /\ AnswerOf(Eval(Top.args[2], <<IF This.op = "chain" THEN Unit ELSE ctl.t>>))
    /\ UNCHANGED <<quiet, graph, env>>

\* pl_println: a bottom is no obstacle.
PrintLine ==
    /\ Given("println")
    /\ Act("print")
    /\ Answer(Unit)
    /\ UNCHANGED <<fixed, pending, spaces, library, imports, graph, env, depth>>

\* pl_exit.
Exit ==
    /\ Given("exit")
    /\ Act("exit")
    /\ ctl' = Exited
    /\ UNCHANGED <<fixed, pending, spaces, library, imports, graph, env, depth, stack>>

\* lsbuiltin_lt: its comparison is apart.
Compare ==
    /\ Given("lt")
    /\ \/ /\ Top.vals = <<>>
          /\ Switch(Fr("arg", Top.t, Top.args, <<ctl.t>>))
          /\ ctl' = Eval(Top.args[2], <<>>)
       \/ Top.vals # <<>> /\ \E t \in {True, False} : Answer(t)
    /\ UNCHANGED <<quiet, graph, env, depth>>

-----------------------------------------------------------------------------
(* import *)

\* Fault: an alias that is there is kept.
BoundOnce(space, e) ==
    [n \in NamesOf(DOMAIN space) \cup DOMAIN e |->
        IF n[2] \in DOMAIN space /\ ~(n[1] = "plain" /\ n \in DOMAIN e)
        THEN space[n[2]] ELSE e[n]]

\* pl_import_cb: a member is bound under its key and under the name without
\* the dot.
Bound(space, e) ==
    [n \in NamesOf(DOMAIN space) \cup DOMAIN e |->
        IF n[2] \in DOMAIN space THEN space[n[2]] ELSE e[n]]

Importing == \E op \in {"import", "importOpt", "withImport"} : Given(op)

Import ==
    /\ Importing /\ IsNamespace(Value)
    /\ env' = Bound(spaces[Value.d], env)
    /\ imports' = Append(imports, Value.d)
    /\ Act("import")
    /\ CASE This.op = "import" -> Answer(Unit)
         [] This.op = "importOpt" -> Answer(True)
         [] OTHER -> AnswerOf(Eval(Top.args[2], <<Unit>>))
    /\ UNCHANGED <<fixed, pending, spaces, library, graph, depth>>

ImportNothing ==
    /\ Given("importOpt") /\ ~IsNamespace(Value)
    /\ Answer(False)
    /\ UNCHANGED <<quiet, graph, env, depth>>

-----------------------------------------------------------------------------
(* The loader of libraries *)

\* lsbuiltin_prelude_builtin, its argument evaluated.
CallLoader ==
    /\ Given("builtin")
    /\ AnswerOf(Load(Value.op))
    /\ UNCHANGED <<quiet, graph, env, depth>>

Loading == ctl.m = "load"
Cached == ctl.name \in DOMAIN cache

\* The cache is asked before the guard.
LoadCached ==
    /\ Loading /\ Cached
    /\ ctl' = Ret(cache[ctl.name])
    /\ UNCHANGED <<quiet, graph, env, depth, stack>>

LoadDenied ==
    /\ Loading /\ ~Cached /\ ~Allowed
    /\ ctl' = Ret(0)
    /\ UNCHANGED <<quiet, graph, env, depth, stack>>

\* The first file on the search path is taken, whatever it is.
Present(name) ==
    IF name \in DOMAIN disk THEN {i \in DOMAIN disk[name] : disk[name][i] # "none"} ELSE {}
First(name) == disk[name][CHOOSE i \in Present(name) : \A j \in Present(name) : i <= j]
Found(what) ==
    /\ Loading /\ ~Cached /\ Allowed
    /\ Present(ctl.name) # {} /\ First(ctl.name) \in what

LoadFails ==
    /\ \/ Loading /\ ~Cached /\ Allowed /\ Present(ctl.name) = {}
       \/ Found({"unloadable", "no init"})
    /\ ctl' = Ret(Err)
    /\ UNCHANGED <<quiet, graph, env, depth, stack>>

\* Its init has run, and nothing remembers it.
LoadRejected ==
    /\ Found({"init fails", "abi"})
    /\ inits' = Append(inits, [name |-> ctl.name, kept |-> FALSE])
    /\ Act("load")
    /\ ctl' = Ret(Err)
    /\ UNCHANGED <<fixed, pending, spaces, cache, imports, graph, env, depth, stack>>

\* Fault: the library is built and not kept.
RememberNot(name, t) == name # "" /\ t # 0 /\ cache' = cache

Remember(name, t) ==
    cache' = [n \in DOMAIN cache \cup {name} |-> IF n = name THEN t ELSE cache[n]]

LoadKept ==
    /\ Found({"good"})
    /\ inits' = Append(inits, [name |-> ctl.name, kept |-> TRUE])
    /\ Act("load")
    /\ MakeSpace([i \in DOMAIN Entries |-> <<Entries[i].key, Entries[i].value>>])
    /\ Remember(ctl.name, Len(heap'))
    /\ ctl' = Ret(Len(heap'))
    /\ UNCHANGED <<fixed, pending, imports, env, depth, stack>>

-----------------------------------------------------------------------------
Evaluate ==
    \/ EvalKnown \/ EvalValue \/ EvalConstructor \/ EvalApplication \/ EvalLambda
    \/ EvalReference \/ EvalMember \/ EvalDenied \/ EvalPartial \/ EvalAtOnce
    \/ EvalHandler

Return == ReturnMemo \/ ReturnConv \/ ReturnThen \/ ReturnPick \/ ReturnTop

Handle ==
    \/ Refuse \/ Dispatch \/ DispatchEnv \/ Lookup \/ Members \/ Literal \/ Continue
    \/ PrintLine \/ Exit \/ Compare \/ Import \/ ImportNothing \/ CallLoader

LoadLibrary == LoadCached \/ LoadDenied \/ LoadFails \/ LoadRejected \/ LoadKept

Step == Start \/ Evaluate \/ Return \/ Handle \/ LoadLibrary
Next == Step \/ ChangeDisk

\* The process evaluates until its programs are done; the disk need not change.
Spec == Init /\ [][Next]_vars /\ WF_vars(Step)

-----------------------------------------------------------------------------
(* Properties *)

\* A library whose namespace was kept is never initialised again in the
\* process: not by another program or environment, not after files appeared in
\* front of it on the search path, and not when it is asked for in a pure
\* context (builtin_loader.c:190).
LoadedOnce ==
    \A i, j \in DOMAIN inits :
        i < j /\ inits[i].kept => inits[j].name # inits[i].name

\* With --strict-effects every effect - a line, the end of the process, a new
\* binding, the code a library runs when it is loaded - happens below an
\* argument of chain or bind or in a wrapped program, also after handlers that
\* failed and whatever was loaded or memoized before (effects.c:8).
EffectsInPlace == session.strict => \A act \in acts : act.inPlace

\* The environment is what the imports made it, in their order: each name,
\* with its dot and without, is the member of the namespace imported last that
\* has it, or what the plugin registered (pl_import_cb, builtins_ns.c:332).
EnvFollowsImports ==
    LET Has(i, n) == n[2] \in DOMAIN spaces[imports[i]]
        Givers(n) == {i \in DOMAIN imports : Has(i, n)}
        Last(n) == CHOOSE i \in Givers(n) : \A j \in Givers(n) : j <= i
        keys == UNION {DOMAIN spaces[imports[i]] : i \in DOMAIN imports}
    IN  /\ DOMAIN env = NamesOf(keys) \cup DOMAIN Registered
        /\ \A n \in DOMAIN env :
              env[n] = IF Givers(n) = {} THEN Registered[n]
                       ELSE spaces[imports[Last(n)]][n[2]]

\* What is bound stays bound: an import or a library loaded later changes no
\* namespace, no library that is there and no reference that has found its
\* target, whichever program they belong to.
NothingRebound ==
    [][ /\ \A s \in DOMAIN spaces : spaces'[s] = spaces[s]
        /\ \A name \in DOMAIN cache : name \in DOMAIN cache' /\ cache'[name] = cache[name]
        /\ \A t \in DOMAIN heap :
              heap[t].k = "ref" /\ heap[t].d # 0 => heap'[t].d = heap[t].d ]_vars

\* Every program of the session is evaluated to its end, with the depth of
\* effects back at none, or the process exits.
Over == ctl = Idle /\ pending = <<>> /\ depth = 0
SessionEnds == <>(Over \/ ctl = Exited)
=============================================================================
