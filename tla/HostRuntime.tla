---------------------------- MODULE HostRuntime ----------------------------
(***************************************************************************)
(* The process around the evaluator: main() of src/src/lazyscript.c with   *)
(* its init script and entry function, require and include                 *)
(* (src/src/builtins/require.c), import and the do-block operations        *)
(* (src/src/plugins/builtins_ns.c), the cache of required files            *)
(* (src/src/runtime/modules.c) and the effects guard                       *)
(* (src/src/runtime/effects.c).                                            *)
(*                                                                         *)
(* A script is a do-block, the sequence of its statements, or one plain    *)
(* expression: chain and bind evaluate each statement between              *)
(* ls_effects_begin and ls_effects_end and go on unless it fails.  How a   *)
(* statement is evaluated is LazyEval's subject; here it has one of the    *)
(* outcomes value, bottom and NULL, and the effect its operation has.      *)
(* Loading the prelude plugin is assumed to succeed.                       *)
(***************************************************************************)
EXTENDS Integers, Sequences, FiniteSets, Functions

CONSTANTS Path,         \* names of files
          Name,         \* names that import can bind; "main" is the entry
          Disks,        \* what the files may contain
          CommandLines, \* what the process may be called with
          MaxDepth      \* bound: scripts under evaluation

\* A statement, by the operation it comes down to.  path: the file it loads;
\* names: what the namespace it imports defines, or the name it refers to.
Effectful == {"print", "require", "requireOpt", "import", "exit"}
Ops == Effectful \cup {"include", "use", "value", "bottom", "null"}
Loading == {"require", "requireOpt", "include"}
Statement == {s \in [op : Ops, path : Path \cup {""}, names : SUBSET Name] :
                  s.op \in Loading => s.path \in Path}

\* do: a do-block; expr: an expression; broken: does not parse; missing.
Script == [kind : {"do", "expr", "broken", "missing"}, body : Seq(Statement),
           \* lscir_validate_effects finds errors: only --strict-effects cares
           undisciplined : BOOLEAN]

\* Options in order ("-s", "--init", "-e", with a path), then files.
Options == [opt : {"-s"}, path : {""}] \cup [opt : {"--init", "-e"}, path : Path]
CommandLine == [options : Seq(Options), files : Seq(Path)]

ASSUME HostAssumption ==
    /\ "main" \in Path \cap Name
    /\ Disks \subseteq {d \in [Path -> Script] :
           /\ d["main"].kind \in {"do", "expr"}
           /\ \A p \in Path :
                 /\ d[p].kind \in {"do", "expr"} => d[p].body # <<>>
                 /\ d[p].kind = "expr" => Len(d[p].body) = 1}
    /\ CommandLines \subseteq CommandLine
    /\ MaxDepth \in Nat \ {0}

VARIABLES
    disk,   \* the files; disk["main"] is the body of the lambda main
    cmd,    \* what is left of the command line
    strict, \* g_effects_strict
    depth,  \* g_effects_depth
    init,   \* g_init_file
    loaded, \* g_loaded
    env,    \* the names imported into the environment of the program
    stack,  \* the scripts under evaluation
    ctl,    \* what happens next
    val,    \* the outcome of the last statement or script
    out     \* what was written to stdout, and the errors the host reports

host == <<cmd, strict, init>>
world == <<env, loaded, out>>
vars == <<disk, cmd, strict, depth, init, loaded, env, stack, ctl, val, out>>

Hows == {"eval", "init", "program", "entry", "require", "requireOpt", "include"}
Outcomes == {"value", "bottom", "null"}
\* A script under evaluation: its current statement, and who evaluates it.
Frame == [path : Path, pc : Nat \ {0}, how : Hows]
Fr(p, how) == [path |-> p, pc |-> 1, how |-> how]

Top == stack[Len(stack)]
Pop == SubSeq(stack, 1, Len(stack) - 1)
Current == disk[Top.path].body[Top.pc]
InBlock(f) == disk[f.path].kind = "do"

EffectsBegin == depth' = IF strict THEN depth + 1 ELSE depth
EffectsEnd == depth' = IF strict /\ depth > 0 THEN depth - 1 ELSE depth
Allowed == strict => depth > 0

Init ==
    /\ disk \in Disks
    /\ cmd \in CommandLines
    /\ strict = FALSE /\ depth = 0 /\ init = ""
    /\ loaded = {} /\ env = {} /\ out = <<>>
    /\ stack = <<>> /\ ctl = "options" /\ val = "value"

-----------------------------------------------------------------------------
(* Between scripts: main(), ls_maybe_eval_init, ls_maybe_run_entry *)

Go(c) == ctl' = c /\ UNCHANGED <<disk, stack, val>>
Run(p, how) ==
    /\ stack' = <<Fr(p, how)>>
    /\ ctl' = "begin"
    /\ UNCHANGED <<disk, val>>

Parsed(p) == disk[p].kind \in {"do", "expr"}
Rejected(p) == strict /\ disk[p].undisciplined

NextOption == cmd' = [cmd EXCEPT !.options = Tail(@)]
NextFile == cmd' = [cmd EXCEPT !.files = Tail(@)]
Option(o) ==
    /\ ctl = "options"
    /\ cmd.options # <<>>
    /\ Head(cmd.options).opt = o

StrictOption ==
    /\ Option("-s")
    /\ strict' = TRUE
    /\ NextOption
    /\ Go("options")
    /\ UNCHANGED <<world, depth, init>>

InitOption ==
    /\ Option("--init")
    /\ init' = Head(cmd.options).path
    /\ NextOption
    /\ Go("options")
    /\ UNCHANGED <<world, depth, strict>>

\* -e is evaluated while the options are read, in an environment of its own.
EvalOption ==
    LET p == Head(cmd.options).path
    IN  /\ Option("-e")
        /\ \/ ~Parsed(p) /\ NextOption /\ Go("options") /\ UNCHANGED env
           \/ Parsed(p) /\ Rejected(p) /\ Go("exit") /\ UNCHANGED <<cmd, env>>
           \/ Parsed(p) /\ ~Rejected(p) /\ env' = {} /\ Run(p, "eval") /\ UNCHANGED cmd
        /\ UNCHANGED <<depth, loaded, out, strict, init>>

OptionsEnd ==
    /\ ctl = "options"
    /\ cmd.options = <<>>
    /\ Go("files")
    /\ UNCHANGED <<host, world, depth>>

File ==
    LET p == Head(cmd.files)
    IN  /\ ctl = "files"
        /\ cmd.files # <<>>
        /\ \/ disk[p].kind = "missing" /\ Go("exit") /\ UNCHANGED <<cmd, env>>
           \/ disk[p].kind = "broken" /\ NextFile /\ Go("files") /\ UNCHANGED env
           \/ Parsed(p) /\ Rejected(p) /\ Go("exit") /\ UNCHANGED <<cmd, env>>
           \/ Parsed(p) /\ ~Rejected(p) /\ env' = {} /\ Go("init") /\ UNCHANGED cmd
        /\ UNCHANGED <<depth, loaded, out, strict, init>>

FilesEnd ==
    /\ ctl = "files"
    /\ cmd.files = <<>>
    /\ Go("exit")
    /\ UNCHANGED <<host, world, depth>>

InitScript ==
    /\ ctl = "init"
    /\ \/ init = "" /\ Go("program") /\ UNCHANGED depth
       \/ init # "" /\ disk[init].kind = "missing" /\ Go("exit") /\ UNCHANGED depth
       \/ init # "" /\ disk[init].kind = "broken" /\ Go("program") /\ UNCHANGED depth
       \/ init # "" /\ Parsed(init) /\ EffectsBegin /\ Run(init, "init")
    /\ UNCHANGED <<host, world>>

Program ==
    /\ ctl = "program"
    /\ Run(Head(cmd.files), "program")
    /\ UNCHANGED <<host, world, depth>>

-----------------------------------------------------------------------------
(* Scripts return to whoever evaluates them *)

Returned(how) == ctl = "return" /\ Top.how = how

\* The result or the bottom is printed; after NULL there is nothing to print.
Report ==
    out' = IF val = "null" THEN out
           ELSE Append(out, [what |-> val, path |-> Top.path, pc |-> 0, how |-> Top.how])
Leave(c) == stack' = Pop /\ ctl' = c /\ UNCHANGED <<disk, val>>

EvalReturn ==
    /\ Returned("eval")
    /\ Report
    /\ NextOption
    /\ Leave("options")
    /\ UNCHANGED <<env, loaded, depth, strict, init>>

InitReturn ==
    /\ Returned("init")
    /\ EffectsEnd
    /\ Leave("program")
    /\ UNCHANGED <<host, world>>

\* The entry function, when there is one, runs instead of the report.
ProgramReturn ==
    /\ Returned("program")
    /\ \/ /\ val # "null" /\ "main" \in env
          /\ EffectsBegin
          /\ Run("main", "entry")
          /\ UNCHANGED <<cmd, out>>
       \/ /\ val = "null" \/ "main" \notin env
          /\ Report
          /\ NextFile
          /\ Leave("files")
          /\ UNCHANGED depth
    /\ UNCHANGED <<env, loaded, strict, init>>

EntryReturn ==
    /\ Returned("entry")
    /\ EffectsEnd
    /\ NextFile
    /\ Leave("files")
    /\ UNCHANGED <<world, strict, init>>

\* Mutant: only an evaluation with a value is remembered.
MutRequireReturn ==
    /\ ctl = "return" /\ Top.how \in {"require", "requireOpt"}
    /\ EffectsEnd
    /\ loaded' = IF val = "value" THEN loaded \cup {Top.path} ELSE loaded
    /\ stack' = Pop /\ ctl' = "done" /\ val' = "value"
    /\ UNCHANGED <<disk, host, env, out>>

\* Whatever the script gave: effects end, the path is loaded, the value is ().
RequireReturn ==
    /\ ctl = "return" /\ Top.how \in {"require", "requireOpt"}
    /\ EffectsEnd
    /\ loaded' = loaded \cup {Top.path}
    /\ stack' = Pop /\ ctl' = "done" /\ val' = "value"
    /\ UNCHANGED <<disk, host, env, out>>

IncludeReturn ==
    /\ Returned("include")
    /\ stack' = Pop /\ ctl' = "done"
    /\ val' = IF val = "null" THEN "bottom" ELSE val
    /\ UNCHANGED <<disk, host, world, depth>>

-----------------------------------------------------------------------------
(* The statements of a script: pl_chain, pl_bind *)

StatementBegin ==
    /\ ctl = "begin"
    /\ IF InBlock(Top) THEN EffectsBegin ELSE UNCHANGED depth
    /\ Go("exec")
    /\ UNCHANGED <<host, world>>

\* Mutants: a block evaluates the same statement again; or one past its last.
MutBlockNext ==
    /\ ctl = "done" /\ InBlock(Top)
    /\ val = "value" /\ Top.pc < Len(disk[Top.path].body)
    /\ EffectsEnd
    /\ Go("begin")
    /\ UNCHANGED <<host, world>>

\* A statement had a value: on to the rest of the block.
BlockNext ==
    /\ ctl = "done" /\ InBlock(Top)
    /\ val = "value" /\ Top.pc < Len(disk[Top.path].body)
    /\ EffectsEnd
    /\ stack' = [stack EXCEPT ![Len(stack)].pc = @ + 1]
    /\ ctl' = "begin"
    /\ UNCHANGED <<disk, host, world, val>>

\* Mutant: effects stay on after a statement that failed.
MutBlockEnd ==
    /\ ctl = "done" /\ InBlock(Top)
    /\ val = "value" => Top.pc = Len(disk[Top.path].body)
    /\ IF val = "value" THEN EffectsEnd ELSE UNCHANGED depth
    /\ val' = IF val = "value" THEN "value" ELSE "bottom"
    /\ ctl' = "return"
    /\ UNCHANGED <<disk, host, world, stack>>

\* The last statement's value is the block's; a failed statement ends it.
\* NULL is a bottom to chain and bind (ls_eval_arg).
BlockEnd ==
    /\ ctl = "done" /\ InBlock(Top)
    /\ val = "value" => Top.pc = Len(disk[Top.path].body)
    /\ EffectsEnd
    /\ val' = IF val = "value" THEN "value" ELSE "bottom"
    /\ ctl' = "return"
    /\ UNCHANGED <<disk, host, world, stack>>

ExprEnd ==
    /\ ctl = "done" /\ ~InBlock(Top)
    /\ Go("return")
    /\ UNCHANGED <<host, world, depth>>

-----------------------------------------------------------------------------
(* Operations *)

Exec(op) == ctl = "exec" /\ Current.op = op
Permitted(op) == Exec(op) /\ Allowed
Result(v) == ctl' = "done" /\ val' = v /\ UNCHANGED <<disk, stack>>

\* lsthunk_eval_builtin refuses a builtin with LSBATTR_EFFECT
Refuse ==
    /\ ctl = "exec" /\ Current.op \in Effectful /\ ~Allowed
    /\ Result("null")
    /\ UNCHANGED <<host, world, depth>>

Evaluate ==
    /\ ctl = "exec" /\ Current.op \in Outcomes
    /\ Result(Current.op)
    /\ UNCHANGED <<host, world, depth>>

\* A name is looked up when it is evaluated, through the environments of the
\* includes around it, which import never touches, to the program's.
Use ==
    /\ Exec("use")
    /\ Result(IF Current.names \subseteq env THEN "value" ELSE "bottom")
    /\ UNCHANGED <<host, world, depth>>

PrintStatement ==
    /\ Permitted("print")
    /\ out' = Append(out, [what |-> "print", path |-> Top.path, pc |-> Top.pc,
                           how |-> Top.how])
    /\ Result("value")
    /\ UNCHANGED <<host, env, loaded, depth>>

\* pl_import puts the names into the environment the prelude was registered
\* in: the program's, also in a file that is included.
Import ==
    /\ Permitted("import")
    /\ env' = env \cup Current.names
    /\ Result("value")
    /\ UNCHANGED <<host, loaded, out, depth>>

Exit ==
    /\ Permitted("exit")
    /\ Go("exit")
    /\ UNCHANGED <<host, world, depth>>

\* One more script under evaluation; MaxDepth stands for the end of the C stack.
Enter(p, how) ==
    \/ /\ Len(stack) < MaxDepth
       /\ stack' = Append(stack, Fr(p, how))
       /\ ctl' = "begin"
       /\ UNCHANGED <<disk, val>>
    \/ Len(stack) = MaxDepth /\ Go("exit")

RequireCached ==
    /\ \/ Permitted("require")
       \/ Permitted("requireOpt")
    /\ Current.path \in loaded
    /\ Result("value")
    /\ UNCHANGED <<host, world, depth>>

\* requireOpt turns the bottom of require into None, a value.
RequireNotFound ==
    /\ \/ Permitted("require")
       \/ Permitted("requireOpt")
    /\ Current.path \notin loaded
    /\ ~Parsed(Current.path)
    /\ Result(IF Current.op = "require" THEN "bottom" ELSE "value")
    /\ UNCHANGED <<host, world, depth>>

\* Mutant: a path is marked before its script is evaluated.
MutRequire ==
    /\ \/ Permitted("require")
       \/ Permitted("requireOpt")
    /\ Current.path \notin loaded
    /\ Parsed(Current.path)
    /\ EffectsBegin
    /\ Enter(Current.path, Current.op)
    /\ loaded' = loaded \cup {Current.path}
    /\ UNCHANGED <<host, env, out>>

Require ==
    /\ \/ Permitted("require")
       \/ Permitted("requireOpt")
    /\ Current.path \notin loaded
    /\ Parsed(Current.path)
    /\ EffectsBegin
    /\ Enter(Current.path, Current.op)
    /\ UNCHANGED <<host, world>>

\* include is no effect, and changes none.
Include ==
    /\ Exec("include")
    /\ \/ ~Parsed(Current.path) /\ Result("bottom")
       \/ Parsed(Current.path) /\ Enter(Current.path, "include")
    /\ UNCHANGED <<host, world, depth>>

Ended == ctl = "exit" /\ UNCHANGED vars

-----------------------------------------------------------------------------
Next ==
    \/ StrictOption \/ InitOption \/ EvalOption \/ OptionsEnd
    \/ File \/ FilesEnd \/ InitScript \/ Program
    \/ EvalReturn \/ InitReturn \/ ProgramReturn \/ EntryReturn
    \/ RequireReturn \/ IncludeReturn
    \/ StatementBegin \/ BlockNext \/ BlockEnd \/ ExprEnd
    \/ Refuse \/ Evaluate \/ Use \/ PrintStatement \/ Import \/ Exit
    \/ RequireCached \/ RequireNotFound \/ Require \/ Include
    \/ Ended

\* One thread that runs to its end.
Spec == Init /\ [][Next]_vars /\ WF_vars(Next)

-----------------------------------------------------------------------------
(* Properties *)

\* The state stays of its kind; statements exist where they are executed.
TypeOK ==
    /\ depth \in Nat /\ strict \in BOOLEAN /\ init \in Path \cup {""}
    /\ loaded \subseteq Path /\ env \subseteq Name
    /\ stack \in Seq(Frame) /\ Len(stack) <= MaxDepth
    /\ \A i \in DOMAIN stack :
         Parsed(stack[i].path) /\ stack[i].pc \in DOMAIN disk[stack[i].path].body
    /\ ctl \in {"options", "files", "init", "program"} => stack = <<>>
    /\ ctl \in {"begin", "exec", "done", "return"} => stack # <<>>
    /\ val \in Outcomes

\* Who evaluates a script: the host the outermost one, a statement of the
\* script below every other.  The host is at a file while it runs its program,
\* and init and entry around it.
Hosted == {"eval", "init", "program", "entry"}
Nested ==
    /\ \A i \in DOMAIN stack : stack[i].how \in Hosted <=> i = 1
    /\ \/ ctl \in {"init", "program"}
       \/ stack # <<>> /\ stack[1].how \in Hosted \ {"eval"}
       => cmd.files # <<>> /\ Parsed(Head(cmd.files))
    /\ stack # <<>> /\ stack[1].how = "eval" => cmd.options # <<>>
    /\ ctl \in {"options", "files", "init", "program", "exit",
               "begin", "exec", "done", "return"}

\* The frames whose evaluation is between ls_effects_begin and ls_effects_end.
Wrapped == {i \in DOMAIN stack : stack[i].how \in {"init", "entry", "require", "requireOpt"}}
InStatement ==
    {i \in DOMAIN stack : InBlock(stack[i]) /\ (i < Len(stack) \/ ctl \in {"exec", "done"})}

\* With --strict-effects, depth is at every moment the number of begins whose
\* end is still to come, on every path through statements, require, init and
\* entry, failed or not; in particular it is 0 between two programs.  Without,
\* it stays 0.
DepthPairs ==
    ctl # "exit" =>
        depth = IF strict THEN Cardinality(Wrapped) + Cardinality(InStatement) ELSE 0

\* require implements the cache: see ModuleCache.
Requiring == {i \in DOMAIN stack : stack[i].how \in {"require", "requireOpt"}}
Cache == INSTANCE ModuleCache
             WITH pending <- [i \in Requiring |-> stack[i].path],
                  MaxPending <- MaxDepth
ImplementsCache == Cache!Spec

\* Loading by require is done once in a process: no statement of a required
\* file prints twice, however often and from wherever it is required and even
\* if its evaluation failed, unless the file reaches itself.
Loads(p) ==
    {t.path : t \in {s \in Range(disk[p].body) : s.op \in Loading}}
Cyclic(p) ==
    \A S \in SUBSET Path :
        Loads(p) \subseteq S /\ (\A q \in S : Loads(q) \subseteq S) => p \in S
RequiredOnce ==
    \A i, j \in DOMAIN out :
        i # j /\ out[i] = out[j] /\ out[i].how \in {"require", "requireOpt"}
            => Cyclic(out[i].path)

\* The process ends: every script and every program is left again.
Ends == <>(ctl = "exit")

\* The names a required file imports are there for the statements that follow
\* (README.md: they can be referred to).
Imports(p) == UNION {s.names : s \in {t \in Range(disk[p].body) : t.op = "import"}}
RequiredNamesVisible ==
    ctl = "exec" /\ Current.op = "use" =>
        \A i \in 1..(Top.pc - 1) :
            LET s == disk[Top.path].body[i]
            IN  s.op = "require" /\ s.path \in loaded => Imports(s.path) \subseteq env
=============================================================================
