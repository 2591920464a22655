# A verification project for lazyscript

lazyscript is a lazy functional language with an interpreter written in C. This
directory holds TLA+ models of the interpreter, TLC configurations that check
them, and proofs checked by TLAPS. Every definition follows the C code under
`src/src`; `PROJECT.json` ("map") names the lines each one stands for.

Contents:

1. The system: inventory of its parts
2. The modules, and how they correspond to the code
3. What each run checks
4. Fairness
5. What is proved
6. Where the code and its documents disagree
7. What is abstracted, and what is left out
8. Plan

## 1. The system

One process, one thread. `main()` reads options and files; a file is parsed to
a syntax tree, the tree is turned into a graph of thunks, and the graph is
evaluated by functions that call each other recursively. There is no
concurrency: what is hard in this code is **shared mutable state under deep,
re-entrant recursion**. A pattern node holds the binding of a parameter for all
applications of its lambda; a thunk holds a memo that anybody may fill; a global
counter says whether effects are allowed; global tables say which files and which
libraries were loaded; and each of these is read and written from the middle of
evaluations that may fail, return nothing, or run into themselves. Beside it
there are two **formats the program writes and reads back** - thunk images and
the text of Core IR -, whose writer may be killed at any point.

| component | state it keeps | operations | hard behaviour | what makes it correct |
|---|---|---|---|---|
| evaluator (`thunk/thunk.c`) | thunk graph, memo `lt_whnf`, `r.bound` of every reference pattern | `lsthunk_eval0`, `lsthunk_eval`, one `lsthunk_eval_*` per kind of thunk, one `lsthunk_match_*` per kind of pattern, substitution of parameters | nested and repeated applications share bindings; failing matches have bound some names; results leave the scope of their parameters; NULL results | result as in call by name; a thunk is evaluated once; bindings do not outlive their application; results are weak head normal forms |
| thunk construction (`lsthunk_new_*`) | scope of names while the graph is built | one constructor per kind of expression | names used before they are bound, bindings by pattern, `^(e)` evaluated during construction | references lead to the right pattern node |
| pattern construction (`thunk/tpat.c`) | names an OR pattern has registered so far | `lstpat_new_pat`, `lstpat_new_pat_reuse_only`, the checks on OR patterns | names registered while arms are still being built | an accepted pattern binds the same names whichever arm matches |
| effects guard (`runtime/effects.c`) | `g_effects_strict`, `g_effects_depth` | begin, end, allowed | every return path of every caller must pair begin with end | depth counts the begins whose end is to come; nothing is printed when effects are not allowed |
| core builtins (`plugins/core_builtins.c`, `builtins/arith.c`, `seq.c`, `print.c`, ...) | none of their own | called with evaluated or unevaluated arguments | partial application, failing or missing arguments, effects | as in call by name; effects pair up |
| environments (`thunk/tenv.c`) | names to references, parent, error counts | get, get_self, put | late lookups in scopes other code extends | a binding found stays; a later import wins for names not yet looked up |
| modules and require (`builtins/require.c`, `runtime/modules.c`) | `g_loaded` | require, requireOpt, include | a file is marked only after its evaluation; a file may reach itself; evaluation may fail | a cached file is not evaluated again |
| prelude (`plugins/builtins_ns.c`) | the environment it was registered in | dispatch by symbol, chain, bind, return, import, withImport, exit, ... | effects around each statement; where imports go; programs share one environment | effects only in place; imports bind what they say and move nothing |
| namespaces (`builtins/ns.c`) | one table of members for each, memo of each member | literal, dispatch, `nsMembers`, set | a member is evaluated once, in whatever context asks first | members keep their value |
| builtin loader (`builtins/builtin_loader.c`) | cache of loaded plugins | load | loading twice, in a pure context, from a search path that changes | one initialisation for each library |
| host program (`lazyscript.c`) | options, init file, the environment of the current program | `main()`, init script, entry function, report | order of options; init, program and entry each fail on their own | every program is left again; effects are off between programs |
| trace stack (`runtime/trace.c`) | stack of trace ids, capacity 256 | push, pop, print | push beyond the capacity is dropped, pop is not | what is shown is under way |
| hash table, string interning (`common/hash.c`, `common/str.c`) | buckets; the interned strings | get, put with growth, walk; intern, read and print a literal | growth moves entries; a width that counts as corrupt; probing without an end of its own; escapes | refines a map; equal strings are one object; what is printed is read back |
| Core IR (`coreir/`, `tools/lscoreir_main.c`, `tools/lazyscriptc.c`) | IR tree, evaluator's environment and token flag, reader's position | lower, validate, typecheck, evaluate, print, read | names made up while lowering, effect tokens, a pipe that is cut | same result with and without the pipe and as the source means; accepted programs perform effects only under tokens |
| thunk images (LSTB in `thunk/thunk.c`, LSTI in `thunk/lsti.c`) | byte image; `pdec` between loads | write, read, validate, map, materialize | shared and cyclic subgraphs, offsets, a write cut off half way | reading what was written gives the graph back, and nothing else is accepted |
| syntax trees, printers, formatter, parser, lexer, support library, LLVM stub, standard library, editor extension, demo plugin | - | - | - | not part of the semantics; see 7 |

How they interact: the host program asks the parser for a tree, thunk
construction for a graph (with pattern construction for every parameter and
left-hand side, against the environment), and the evaluator for a result. The
evaluator calls builtins with unevaluated arguments, and builtins call the
evaluator back. `require`, `include` and `-e` re-enter the whole chain - parse,
build, evaluate - from the inside of an evaluation. Effects guard, trace stack,
string pool and the caches of loaded files and libraries are globals of the
process; the environment belongs to one program, its init script and its entry.
Core IR takes the syntax tree a way of its own: lowered, and then evaluated in
the same process (`-c`), or printed by one process and read by another.

## 2. The modules

```
 the language
                 Syntax                    trees: the constructors of patterns and expressions
                /      \
        PatBuild        CallByName         tpat.c                    reference meaning
           |                 |
       ThunkBuild            |             lsthunk_new_expr
             \               |
 LazyEval     \              |             thunk.c: evaluator, matcher, builtins
    |          \             |
 LazyEvalInv ---+--- MCLazyEval --- MCLazyEvalDocs       PatBuild --- MCPatBuild
    |
 LazyEvalProofs

 the process
 ModuleCache <- - (implements) - - HostRuntime --- MCHost        PreludePlugin --- MCPrelude
                                      |                               |
                              HostRuntimeProofs               PreludePluginProofs

 what it stands on
 TextMap <- - (implements) - - HashTable    StringPool    TraceStack     Literal   Varint
                               |   \        |      |      /   |             \      /
                               |    `---- MCSupport ----'-----|----------------- Codec
                               |            |                 |                   |
                               `-----------------  SupportProofs  ----------------'

 its formats
 CoreIR --- CoreEval, CoreText --- CoreTools --- MCCore
                      Syntax, CoreReference ----/

 ThunkGraph --- LstiImage --- MCImage         ThunkGraph --- LstbImage --- MCLstb
                    |                                            |
             LstiImageProofs --- ThunkGraphProofs --- LstbImageProofs

 SharedLemmas: under SupportProofs, PreludePluginProofs, ThunkGraphProofs
```

**LazyEval** is the evaluator as an abstract machine. A pending C activation
that still has work to do after the call it is in is a frame of `stack`; the
call or return about to happen is `ctl`; one step is the code between two calls,
and a tail call keeps no frame. A frame holds the C locals that are used after
the call, no others: reading them after other activations have run is where
stale state would come from. The graph is `heap`/`top`/`memo`
(`lsthunk_t`, the allocator, `lt_whnf`), `bound` is `r.bound` of each reference
pattern *node* - one for all applications of its lambda, as in the code -, `depth`
is `g_effects_depth`, `out` is what `print` wrote. The groups of actions:

| actions | C |
|---|---|
| `Update` and `Eval0`'s cases | `lsthunk_eval0`, which stores `lt_whnf` |
| `EvalAlge`, `EvalAppl`, `EvalAtom` | `lsthunk_eval_alge`, `_appl` and the default of `lsthunk_eval` |
| `EvalLambda`, `LambdaMismatch`, `LambdaBody`, `LambdaReturn` | `lsthunk_eval_lambda`: match, evaluate body, substitute the parameter in the result, clear the bindings, apply the rest |
| `SubstReturn` (`CopySet`, `Subst`, `CopyThunk`) | `lsthunk_subst_param` |
| `Ref*` | `lsthunk_eval_ref` by what introduced the name: let binding (match the right-hand side lazily, once), parameter, builtin, nothing |
| `EvalLamChoice`, `EvalCatch`, `EvalExprChoice` and their returns | `lsthunk_eval_choice`'s three operators, with the fallback on a mismatch of the first argument only |
| `Match*` | `lsthunk_match_*`, one group per kind of pattern |
| `EvalBuiltin*`, `Call*`, `Arith*`, `Effect*`, `Seq*`, `Chain*`, `Bind*`, `Print*` | `lsthunk_eval_builtin` and the builtins |
| `Finish` | the caller of the outermost evaluation |

`ctl.r = "assert"` is a failing `assert` of the C code; `"bound"` is the model
running into `MaxAddr` or `MaxDepth`.

**Syntax**, **PatBuild**, **ThunkBuild** build the machine's initial states from
syntax trees exactly as the code does, pattern nodes and scopes included: TLC
evaluates the build of every program of a run. **CallByName** is the reference:
a direct, substitution-free meaning of the *syntax tree* with environments and
closures, which knows nothing of thunks, memos, shared bindings or substitution.
Where the documents say what the language does, it does that: of `l | r` only the
first parameter of an arm decides between the arms, whatever an arm that has matched
then comes to (`refused`, after `thunk.c:1058` and `docs/90_backlog.md:120`; the machine
looks at the message of a bottom instead, see 6). It is what `Adequate` compares results with.

**HostRuntime** is the process around the evaluator: options in the order they
are read, init script, programs, entry function, and require/include/import/
print/exit as statements of do-blocks. `stack` holds the scripts under
evaluation with the statement each is at. How a statement computes is
LazyEval's subject; here a statement has one of the outcomes value, bottom and
NULL - the three results callers tell apart - and the effect its operation has
on the cache, the environment, the effects depth and the output.

**ModuleCache** is an abstract specification: what `require` promises of the
files it loads. HostRuntime implements it under the mapping `pending <-` the
require frames by their stack depth.

**PreludePlugin** is the prelude's plugin as the evaluator's caller and callee,
with the namespaces and the loader it works on: what `LazyEval` leaves to "a
builtin". A process evaluates the programs of a session one after the other; they
share the environment `import` writes (or a later one has a new environment), the
cache of libraries, the effects depth and the memo of every thunk. `ctl` and
`stack` are as in LazyEval. The evaluation of the language itself is cut down to
constructors, symbols, references, applications and lambdas that ignore their
parameter: enough to put any operation of the plugin under any other, before or
after it. Between any two steps the disk may change (`ChangeDisk`), since the
loader looks along its search path each time.

| actions | C |
|---|---|
| `EvalReference`, `Bound` | `lsthunk_eval_ref`'s late lookup, `lstenv_put_builtin` by import |
| `EvalMember`, `MakeSpace`, the namespace dispatch | `ns.c` |
| dispatch by symbol, chain, bind, return, import, importOpt, withImport, println, exit, lt | `builtins_ns.c` |
| `LoadLibrary`, `LoadKept`, `LoadRejected`, `Remember` | `builtin_loader.c` |
| `ReturnTop`, `Refuse` | the wrapper of a program, the guard on effects |

**HashTable** is `common/hash.c`, a put taken apart: the decision to grow, one
step for each entry moved, the insertion. **TextMap** is what its users rely on,
a map; HashTable implements it. **StringPool** is the pool of `common/str.c` with
its probing and growth, **Literal** the two functions that print and read a text
literal, on signed characters. **TraceStack** is the stack of `runtime/trace.c`
beside the stack of calls that push and pop it. **Varint** is the variable-length
integers of LSTB, of any width. **Codec** goes through all words and all texts, so that
what the two conversions keep is a matter of all its states. **MCSupport** runs them,
one at a time, since they share no state.

**ThunkGraph** says what a graph of thunks is for the images: kinds, texts, edges,
parameters, and when two graphs are the same (`SameGraph`: walking both from their roots
along the same edges, round by round until nothing new is reached, pairs their thunks one
to one and paired thunks agree, so sharing and cycles count). **LstiImage** is `lsti_write` section
by section and entry by entry, in the order of the code, with the section table
written last, `lsti_validate`, and `lsti_materialize` with its two passes.
**LstbImage** is `lstb_write` and `lstb_read`, a file of parts that is written and
read from front to back. In both the process may end between any two steps
(`Restart`): memory and locals are gone, the file stays as far as it was written.

**CoreIR** has the values and expressions of Core IR, lowering from syntax trees,
the check of `--strict-effects` and the type check, each translated from its
recursive function. **CoreEval** is the evaluator, one step per expression, with
the C stack as the stack of lets under evaluation. **CoreText** is printer and
reader on tokens, the reader as a machine of its own since it is what meets a cut
text. **CoreTools** takes a program through `lazyscript -c`, `-t`, and through
`lazyscriptc | lscoreir`, where the compiler may be killed at any token.
**CoreReference** is the meaning the source should have, an evaluator of syntax
trees with environments and closures that makes up no names.

**LazyEvalInv** has the inductive invariant of LazyEval, **LazyEvalProofs** the
proofs about it and those about what is open while something else is evaluated,
effects and bindings; **ThunkGraphProofs** has the lemmas on graphs that both images
need, in the end that a copy is the same graph (`CopyIsSame`); **HostRuntimeProofs**, **PreludePluginProofs**,
**SupportProofs** (hash table, string pool, trace stack, codec), **LstiImageProofs** and
**LstbImageProofs** have both for their components. **SharedLemmas** is what several
of them need: the operators on sequences, and numbers. The induction theorems of
the library take an operator as a parameter, which the provers cannot instantiate.
Here the same is said of sets and functions: a set of numbers has a least and, if bounded,
a greatest one (`LeastNumber`, `GreatestNumber`), what holds of 0 and is handed on
from each number to the next holds up to n (`UpTo`), and a function defined along an
interval, upwards or downwards, exists (`Iterates`, `Descends`). The
modules whose names begin with MC give the constants values. The operators
called a mutant or a fault, each placed before the definition it varies, are plausible bugs of that
definition; no specification uses them. They are there to show that each property of a run
notices one.

## 3. What each run checks

| run | instance | properties |
|---|---|---|
| `MCLazyEval` | 3 173 programs without builtins: 13 parameter patterns x 13 arguments x 6 uses, the same under a further application or match, three choice operators x 49 pairs of arms with one and two arguments, choices of three arms and choices that are passed on, let bindings (5 patterns x 7 right-hand sides x 6 bodies, shadowing, mutual and forward references); and, with and without `--strict-effects`, programs with the core builtins on values, failures, output and partial or excess arguments, and evaluations that give NULL, undefined names and failing assertions, in every position | `Adequate`, `TypeOK`, `WhnfIsValue`, `BindsScoped`, `EffectsBalanced`, `EvaluatedOnce`, `PrintsAllowed`, `Terminates` |
| `MCPatBuild` | all small patterns, OR patterns nested on either side | `ArmsAgree`, `UniformAccepted` |
| `MCHost` | 2 800 disks x 5 command lines: files that require and include each other and themselves, fail, give NULL, exit, are missing or do not parse | `DepthPairs`, `RequiredOnce`, `ImplementsCache`, `Ends` |
| `MCPrelude` | sessions of an init script, a program and an entry, in one environment or two: imports of literals, of members that print, of libraries and of what is no namespace; uses of what may have been imported; loads from a search path that changes | `LoadedOnce`, `EffectsInPlace`, `EnvFollowsImports`, `NothingRebound`, `SessionEnds` |
| `MCSupport` | five keys and two values, with hashes that collide in narrow tables and in wide ones; six texts; calls twice as deep as the trace has room; all words of 15 bits; all texts of up to three of 16 characters | `ImplementsMap`, `WalkComplete`, `OneObject`, `ProbesEnd`, `FramesPending`, `NumbersKept`, `CutIsError`, `LiteralKept` |
| `MCImage` | graphs of three thunks of every kind LSTI has, shared, cyclic, with lambdas whose parameters are shared or different and of every kind that can be written, and one that cannot; up to four writes, loads and restarts | `AcceptedIffComplete`, `RoundTrip`, `ParamsKept`, `OthersKept`, `OperationsEnd` |
| `MCLstb` | graphs of three thunks without cycles; up to three writes, reads and restarts | `ReadIffComplete`, `RoundTrip` |
| `MCCore` | 260 programs of the language and 71 texts of Core IR, five programs cut after every token, with and without `--strict-effects` | `MeaningKept`, `PipeKeepsMeaning`, `CutNeverRuns`, `StrictEffectsTokened`, `ToolsEnd` |
| `MCDoc_reapply`, `MCDoc_commit`, `MCHost_names`, `MCDoc_params` | find their property violated: section 6 | `ApplicationsIndependent`, `MatchedArmCommits`, `RequiredNamesVisible`, `ParamsRestored` |

What the properties say. Of the evaluator:

- `Adequate`: the machine's result is the call-by-name one - the same failure,
  or a value with the same head and as many arguments. It is the property that
  everything mutable must conspire to keep: bindings shared by all applications,
  memos, substitution into results, failed arms that have bound names. On its way
  there a reference to a parameter is evaluated only while the parameter is bound
  (`ParamsBound`, a conjunct).
- `EvaluatedOnce`: a thunk that has a value keeps it, and is not evaluated again
  while its first evaluation is pending.
- `BindsScoped`: a parameter is bound only while an application of its lambda
  is pending, on every return path.
- `WhnfIsValue`: what evaluation returns and what a memo holds is a weak head
  normal form or NULL. `TypeOK` is its companion about the rest of the state.
- `EffectsBalanced`: the effects depth is the number of begins whose end is to
  come - through failing arguments, NULL and refusals. `PrintsAllowed`: with
  `--strict-effects` nothing is written by a step that was not allowed to.
- `Terminates`: evaluation comes to an end.
- `ArmsAgree`, `UniformAccepted`: the check on OR patterns accepts what is safe -
  but for an OR in its right arm, see 6 -, and no less than the patterns whose
  arms name the same variables.

Of the process:

- `DepthPairs`: the depth is the number of begins to be ended, through requires,
  init script and entry that fail. `Ends`: the process ends.
- `RequiredOnce`: no statement of a required file prints twice in a process
  unless the file reaches itself; `ImplementsCache`: require implements
  ModuleCache.
- `LoadedOnce`: a library whose namespace was kept is never initialised again,
  by whatever program, context or state of the disk.
- `EffectsInPlace`: with `--strict-effects` every effect - a line, an import, the
  code a library runs when it is loaded, the end of the process - happens below
  an argument of chain or bind or in a program that is wrapped.
- `EnvFollowsImports`: the environment is what the imports made it, in their
  order. `NothingRebound`: a later import or load changes no namespace, no loaded
  library and no reference that has found its target. `SessionEnds`: every
  program comes to its end with the depth back at none, or the process exits.

Of what it stands on:

- `ImplementsMap`: the table is a map while and after it grows, as long as it is
  not wider than what the code takes for corrupt. `WalkComplete`: a walk meets
  every entry once, and their number is what growing goes by.
- `OneObject`: a text has one object; `ProbesEnd`: there is a free slot for a
  probe to end at.
- `FramesPending`: what a stack trace shows are calls under way, the innermost
  last. Frames do get lost: after an overflow those of calls that are pending
  can be popped in the name of dropped ones, and further pops find the stack
  empty. None of a call that has returned is left, so the stack is empty when the
  outermost call is over.
- `NumbersKept`, `CutIsError`, `LiteralKept`: what is written is read back; a
  number that the file ends in is an error and not a smaller number.

Of the formats:

- `AcceptedIffComplete`: the validator of LSTI accepts exactly the files a write
  has completed, after a crash at any step. `ReadIffComplete`: the same of the
  reader of LSTB, which has no validator.
- `RoundTrip`: what is loaded is the graph that was written, with its sharing and
  cycles (of LSTB, with its texts as C strings). `ParamsKept`: of the first image a
  process loads, the lambdas have the parameters they had, each its own, shared where they
  were; not of a later one, whose indices may have patterns of an earlier one in `pdec`,
  and not when the text of a parameter is that of no thunk (`NamesOccur`), see 6. `OthersKept`:
  loading changes no thunk that is in memory. `OperationsEnd`: writing and loading end, on
  cyclic graphs too.
- `MeaningKept`: what lowering makes of a program has the reference meaning.
  `PipeKeepsMeaning`: through the text it has the same result as without.
  `CutNeverRuns`: what the reader makes of a text that was cut is no program.
  `StrictEffectsTokened`: a program that `--strict-effects` accepts performs no
  effect without a token in scope - the evaluator does not look, the static check
  has to be enough, also for a lambda made under a token and applied where there
  is none. `ToolsEnd`: every tool ends on every text, but for one that was
  cut in a call or a constructor that was not closed, see 6.

### Bounds, and why they are enough

- *LazyEval*: `MaxAddr` = 50 thunks, `MaxPat` = 24 pattern nodes, `MaxDepth` = 30
  activations. No program of the runs reaches one of them: the outcome "bound"
  is a state of its own and would violate `Terminates`. The machine is
  deterministic, so the number of states is the length of all evaluations
  together; the variety is in the programs. Two levels of constructor and two
  nested applications are what it takes for one activation to disturb the
  binding, memo or match of another.
- *MCPatBuild*: patterns of up to three levels over two names: the checks
  compare sets of names of two arms, and a name that only one of them has, or
  that is bound a second time, already decides them.
- *HostRuntime*: three files that load each other, so that cycles of length one
  and two and chains of three occur; `MaxDepth` = 6 scripts under evaluation.
  It stands for the end of the C stack: a cycle of requires does reach it, and
  the process then ends as a crashed one does. Blocks have up to three
  statements: one before, one after the interesting one.
- *MCPrelude*: up to three programs, as many as a process has in one environment.
  The search path has two directories: a file of the library in the second one,
  with nothing, another version or a file without an init in the first, is every
  way in which the lookup can differ between two loads. There is no bound on the
  stack or the heap: no session recurses.
- *MCSupport*: `FirstCapacity` = 2 (16 in the code) and `CorruptAbove` = 4 (2^26),
  so that the table grows twice, at the third and the fifth key, and is then one
  that counts as corrupt; collisions that growing separates and collisions that it
  keeps. `PoolCapacity` = 4 and six texts: the pool grows with a run of probes
  that wraps around. `Frames` = 3 (256), `CallBound` = 6, `CallLimit` = 9: calls
  twice as deep as there is room, back, and deep again. `Bits` = 15: as with 64,
  seven-bit groups leave one bit for the last byte; that byte is where the writers
  and the limit on bytes have their edges. `MaxText` = 3: three characters are a
  named or numeric escape and the two digits it may swallow.
- *MCImage*, *MCLstb*: three thunks can be shared, form a cycle with an entry, and
  have a neighbour outside of it. `MaxOps` = 4: write, crash, load, load again.
  `MaxOps` = 3 for LSTB, whose reader keeps nothing between two reads.
- *MCCore*: `MaxParts` = 6 caps what a list that is never closed collects; no
  list of a whole text is as long.

## 4. Fairness

The interpreter is one thread that nothing can block: it runs until the process
exits. LazyEval, HostRuntime and CoreTools have `WF_vars(Next)`, which only
excludes stopping in the middle of a computation; no property depends on a
choice being made fairly. LstiImage has the same, where `Next` includes
operations that need not begin and restarts: both are bounded by `MaxOps`, so that
what is under way must go on in the end. PreludePlugin has `WF_vars(Step)`: the
process goes on, the disk changes or does not. The other modules state no fairness and no
liveness.

When LazyEval, HostRuntime or CoreTools has halted it stutters (`Stopped`,
`Ended`, `Done`), so deadlock checking is on in their runs, and a state in which
the C code would have a case the model does not would be reported as a deadlock.
`MCPatBuild` switches it off, building a pattern is one step; `MCImage` and
`MCLstb` do, since operations are bounded and the process then is idle; and
`MCPrelude` does, where a session is over when its programs are.

## 5. What is proved

### The evaluator

`LazyEvalProofs`, for **every** set of programs and every bound:

- `InvHolds`: `Spec => []IInv`
- `TypeCorrect`: `Spec => []TypeOK`
- `ResultsAreValues`: `Spec => []WhnfIsValue`

Assumptions: the bounds are positive (`BoundsAssumption`) and the programs are
well built (`ProgramsAssumption`: pattern nodes and thunks have the number of
parts their kind asks for, references lead into the program). TLC evaluates both
for all programs of each run, and the programs are the output of the modelled
builders.

The argument. `TypeOK` and `WhnfIsValue` are not inductive: that `Update` stores a
value depends on the call it returns from having returned one, that `ArithRhs`
may look at a result depends on the frame's argument list having been long
enough when the frame was pushed, possibly thousands of steps earlier. `IInv`
(module LazyEvalInv) says what each pending activation relies on when it is
resumed: `Graph` (the heap is typed, every thunk has the parts of its kind,
addresses above `top` are free, memos hold values), `Stack` (`FrameFits` for every
frame: what the saved C locals are), `Ctl` (`ControlFits`: what a call is made with,
and that a return carries NULL or a value), and that the graph built at the start
is unchanged (`BuiltHeapKept`: builtins are found in it by the address the
pattern recorded).

Two facts carry the induction. The heap only grows: a step fills free thunks and
leaves the others alone (`Grows`), so every frame that fitted still fits
(`GrowsValue`, `GrowsStack`, `GrowsControl`) - this is what makes locals saved before a call good
after it. And substitution returns values: copies get distinct fresh addresses
(`CopyOfFits`), each has the shape of its original, and a copy
of a weak head normal form is one. Under them the step theorem has one lemma for
each action or group of actions.

Also in `LazyEvalProofs`, under the same assumptions:

- `EffectsArePaired`: `Spec => []EffectsBalanced`
- `PrintsAreAllowed`: `Spec => PrintsAllowed`
- `BindingsAreScoped`: `Spec => []BindsScoped`

All three are about things that one activation opens and the same activation
closes, with any number of steps of others in between. `EffectInv` counts: the depth is
the number of `Effect` activations on the stack, so that the guard of
`ls_effects_end` always finds it positive, and with `--strict-effects` each `Print`
activation has an `Effect` one below it. `BindInv` says where bindings may be: what
is bound is among the parameters that pending `Match` and `Body` activations own
(`Open`), and so are the parameters below the pattern that is about to be matched,
and below each pattern whose match is pending - counting only activations further out
than that match (`Nested`). Without the last part nothing would say that a
match that is resumed after a sub-pattern forced an evaluation still belongs to an
application that will clear what it binds. Most steps do neither: the *calm*
steps are shown, once for all, to push and pop only activations that open nothing
(`Shifts`), and the two inductions have only the others to deal with one by one.

### The process

`HostRuntimeProofs`, for **every** set of disks and command lines and every depth:

- `HostInvHolds`: `Spec => []HostInv`
- `HostTypeCorrect`: `Spec => []TypeOK`
- `EffectsPair`: `Spec => []DepthPairs`
- `CacheImplemented`: `Spec => ImplementsCache`
- `RequiredFilesPrintOnce`: `Spec => []RequiredOnce`

Assumption (`HostAssumption`, evaluated by TLC in the runs of MCHost): a file that
parses has at least one statement, a plain expression exactly one, and the body of
`main` parses - it is part of a program that has been read.

The argument. `HostInv` is `TypeOK`, `DepthPairs`, the two constants of an execution
(the disk holds what a disk may hold, what is left of the command line is one)
and `Nested`. `Nested` is what makes it inductive: `ProgramReturn` and `EntryReturn`
replace or pop the outermost frame and go on with the next file, which is right only
if no statement can have entered a script in their name. It says that the host
evaluates the outermost script and none other, and that there is a file at the head
of the command line while it does.

`DepthPairs` counts two kinds of begins: those of `require`, init and entry, which
wrap a whole script, and those of chain and bind, which wrap one statement. The
counting lemmas (`OpenPush`, `OpenPop`, `OpenStatement`, `OpenNext`) say how the number
changes when a script is entered or left and when a statement begins or ends;
each action then adds or removes exactly the begin the lemma says.
The one step with two changes at once is where the code is delicate: `require` begins
effects inside a statement whose own begin is still open, so that the depth of a
file required from a required file grows by two per level, and the ends
must come back in the reverse order.

`CacheImplemented` maps the frames of require to the pending evaluations of
ModuleCache. Entering and leaving them are its steps `Start` and `Finish`, at the
innermost position since frames are pushed and popped at the top (`PendingPush`,
`PendingPop`); all other steps leave pending evaluations and cache alone
(`OthersUnseen`), those of the host and of include included.

`RequiredFilesPrintOnce` relates two lines of the output, which may be written
arbitrarily far apart. `OnceInv` says what the scripts under evaluation and the
cache have to do with it. `Chained`: a script on the stack is reached, along
statements that load, by every script below it, so that a path that occurs
twice on the stack is one of a cycle (`TwiceIsCyclic`). `Unloaded`: what require is
evaluating is not in the cache unless it is of a cycle - it was not there when require
looked, and only a second evaluation of the same path could have put it there since. `Accounted`:
a line that a required file has written is of a file in the cache, or of an
evaluation on the stack that is past the statement that wrote it (`PastBy`). So the
statement that writes next has not been accounted for, unless the file reaches itself.
A script that ends in the middle, because a statement gave bottom, enters the cache like
any other: the lines before that statement are accounted for by it.

### The prelude and its libraries

`PreludePluginProofs`, for **every** set of sessions - programs of any size, any
number of them, any sequence of states of the disk - under `SessionsAssumption`
(the heap of a session is a sequence of terms as the parser's constructors build
them, with arguments among the terms, an argument for every application and a body for every lambda, and
nothing that only evaluation makes; programs are terms of the heap):

- `InitialisedOnce`: `Spec => []LoadedOnce`
- `EffectsGuarded`: `Spec => []EffectsInPlace`
- `BindingsStay`: `Spec => NothingRebound`
- `NothingDangles`: `Spec => []Typed`
- `ImportsDecide`: `Spec => []EnvFollowsImports`

The arguments. `LoadedOnce` speaks of the history of initialisations only; `LoadInv` ties
it to the cache: a library that was kept is in the cache, and what is in the cache
is not initialised, because the cache is looked at first. `EffectsInPlace` needs to know
why the depth is positive when the guard lets an effect pass: `StackInv` says that
the depth is the number of pending activations that enabled effects, so that one of them
is on the stack and the effect happens below it. `BindingsStay` is an action
property whose hard part is that heap and namespaces only grow (`GraphInv`): an import
adds thunks and names and leaves the others alone.

`Typed` says that every thunk and every namespace that anything refers to is there: a
thunk its arguments, its memo and the thunk its name was resolved to; the environment, the namespaces
and the cache their members; the calls that are pending their arguments. A frame of a builtin also has
the arguments its handler will read after it was resumed, and that of a namespace
literal the keys that are left (`FrameIn`): these were counted when the frame was
pushed. `ImportsDecide` needs it twice. Names are looked up in the namespaces that
imports gave, which must be there and must be the ones they were then (`Kept`). And
that a name comes from the *last* import that gives it, or from what was registered
when no import does (`Follows`), is kept by one import because it writes all names of
its namespace over whatever had them, and by everything else because namespaces made
later are none of those imported before (`FollowsStays`).

### The hash table

`SupportProofs`, for **every** set of keys and values, every hash and both
capacities, under `TableAssumption` (hashes are natural numbers, capacities
are natural numbers, the first is not 0):

- `TableImplementsMap`: `Spec => ImplementsMap`
- `WalksAreComplete`: `Spec => []WalkComplete`

`TableInv` has two parts beside types. `Sound`: each entry is in the bucket its hash
gives it, and no key is in a chain twice. `Moving`: while a put moves entries, those
moved so far - all buckets before the one at hand, and of that one the entries before the
position at hand - are exactly what the new table has, soundly. From it follows
that moving ends with the same map in a table twice as wide; every step before
stutters on the map, since a lookup cannot come between.

A walk visits buckets, so what it visits is a sequence built chain by chain: between
them its places are those of the first b chains, each once (`WalkOf`, `WalkGoesOn`). That no
key comes twice is from `Sound`, since equal keys have equal hashes. That
`size` is the number of places is a count of its own (`CountInv`), of the old table while
entries move and of the new one after.

### The string pool

`SupportProofs`, for **every** set of texts, every hash and every width at the start, under
`PoolAssumption` (hashes are natural numbers, the width is not 0):

- `OneObjectPerText`: `PoolSpec => []OneObject`
- `ProbingEnds`: `PoolSpec => []ProbesEnd`

`OneObject` is what comparing strings by address relies on, `ProbesEnd` what the loop without a
bound does. `PoolInv` says of the table what open addressing needs (`TableOf`): each
object is in exactly one slot, and probing for its text comes to that slot before it
comes to a free one (`Reached`). With that, a text that probing does not find
has no object. An insertion keeps it because it fills the first free slot of its own probing and frees
none. Growing is a second table, filled by the objects one after the other, for each of which
the same argument holds (`ResizedTable`). That there is a free slot at all is counted: the
objects are fewer than the slots (`FreeSlot`), also after growing (`WidthEnough`).

### The trace stack

`SupportProofs`, without assumptions, for a stack of any size and calls of any
depth:

- `TraceShowsPending`: `TraceSpec => []FramesPending`

`TraceInv`: the numbers of the calls under way ascend, so do those of the frames, and
the frame at position i is that of a call at position i or further in. The last is
the point: a dropped push makes frames and calls differ in number, a pop then takes
the frame of another call than the one that returns, and the statement that one is
tempted to make, that the top frame is the innermost call's, is false. Since there
are never more frames than calls, and each is of a call no further out than its
position, taking one off the end of both keeps it so.

### Integers and literals

`SupportProofs`, for integers of **every** width (`BitsAssumption`: it is positive) and
texts of **every** length over every set of characters (`CodecAssumption`: they are signed
bytes):

- `IntegersKept`: `CodecSpec => []NumbersKept`
- `CutNumbersRefused`: `CodecSpec => []CutIsError`
- `LiteralsKept`: `CodecSpec => []LiteralKept`

Integers. After n turns of a writer what is left is the value shifted by 7n bits, rounded
down, and what is written are the digits below (`DigitsRead`); so it ends within
`MaxBytes` (`UnsignedWritten`, `SignedWritten`), and a reader that adds up the digits has the value
modulo 2^7n after n bytes. If the last byte ends below the width, the reader extends its sign
bit, which the writer made equal to the sign (`SignEnds`); if it ends above, its surplus digits fall out of
the word (`SignedKept`). Every byte but the last says that another follows, so a number
that is cut runs into the end.

Literals. Printing puts a character down in one of four ways: by the letter of an
escape, by two hexadecimal digits, by those of the int a negative one is promoted to, or as
itself (`Ways`). Each is undone by one turn of the reader, whatever follows
(`PrintedRead`), except that of a negative character the reader has only the first two of
eight digits and takes the others for characters: plain ones, so that the literal still ends
where it ended, but the text is another - `LiteralKept` says of those texts only the former. From the closing
quote back to the first character, what is read from the k-th character on is then what
was printed from there on (`EveryTextKept`). The reader is a recursive function along the text, whose existence, which a
definition with CHOOSE leaves open, is `Descends`.

### The images

`LstbImageProofs`, for **every** set of programs, under `ProgramsAssumption` (the memory of a
program is typed, its addresses are addresses of it, an application has something to apply
and a choice one of the three operators, and a thunk without a text has none, as their
constructors see to) and `CStringAssumption` (the empty text is the empty C string):

- `OnlyCompleteFilesRead`: `Spec => ReadIffComplete`
- `ReadGivesTheGraph`: `Spec => RoundTrip`

`LstiImageProofs`, for every set of programs and files, under a `ProgramsAssumption` that
says the same:

- `OnlyCompleteFilesAccepted`: `Spec => []AcceptedIffComplete`
- `LoadGivesTheGraph`: `Spec => RoundTrip`
- `LoadingKeepsOthers`: `Spec => OthersKept`

A process may end between any two steps of a writer, and another that knows nothing of it
reads what it left. In an LSTB file it is the number of parts that tells: the fifth part
says how many thunks there should be, a file that is complete has that many and one part for the roots,
any other has fewer (`FileInv`, `WriterInv`); the reader is always behind the part it
has read or at the end of the file (`ReaderInv`), so it meets the end exactly if the file has not all its parts.

In an LSTI file it is the section table, written last, and in it the roots, its last
entry. That a complete file is accepted is the longer half, since the validator looks at
every offset and index: what the writer has collected must be closed. `WriterInv` says so of the thunks whose
turn has come - their arguments, parameters and texts were collected -, and when the
queue is empty these are all. Texts lie within their blobs whatever else was pooled (`Fits`), and each entry
written is within what was counted before (`GoodEntry`). The loader may be
followed by a write of what it loaded, so it has to leave the memory as well formed as
it was (`MemInv`); `OthersKept` follows since it only adds thunks and then fills those it has added (`LoaderInv`).

That the graph comes back is a second invariant of each format, `GraphInv`, on top of the
first. It follows the graph through all it is turned into. While a file is written, its
thunks have an order without repetition (`Distinct`), each text is in a pool, and each
entry put down so far is one of the thunk at its place in that order (`IsEntry`: same kind and
number, children by their index in the order, and a text that is found where the entry says).
When the write is complete the file is therefore an image of the graph that was there *at
that moment* (`IsImage`, kept in the history variable `wrote`), and stays one whatever
programs load, write or end later. While a file is read, each entry has a thunk of its own
in memory, all different, with what the entry says; wiring gives it the children the entry
names. So order and new thunks are two numberings of the same nodes (`Copied`), and what is
left is a fact on graphs: the pairs <<i-th thunk of one, i-th thunk of the other>> contain the
pairs of roots and are closed under the edges, so every pair that a walk reaches is one of
them (`PairsWithin`), they are one to one since neither numbering repeats a thunk, and they agree
(`CopyIsSame`). Cycles and sharing need no case of their own. `PairsClosed` says that the
walk itself is complete: `SameGraph` walks as many rounds as there are pairs of thunks, and
from a walk that reaches something new in each round the rounds would have more pairs than there are.

The delicate part is where a text is. LSTI concatenates texts, so that several can begin at one
offset: all but one of them are empty, and the loader tells them apart by their length alone
(`TextFound`). It needs that there is only one empty text - `WellFormed` says so of the
programs, `Plain` carries it through pools, files and what the loader makes - and that names of patterns,
which enter the pool with offset 0 after it was written, are never a thunk's text that is
not in the blob (`PooledFound`).

### Only model-checked

Liveness (`Terminates`, `Ends`, `SessionEnds`, `OperationsEnd`, `ToolsEnd`), which the
prover does not do. `Adequate`, the builders' properties and all of Core IR: their
definitions are RECURSIVE operators over syntax trees, and what they say of every tree
(`MeaningKept`, `PipeKeepsMeaning`, `CutNeverRuns`, `StrictEffectsTokened`, `ArmsAgree`,
`UniformAccepted`) would go by induction over trees.
`ParamsBound`, part of `Adequate`, and `EvaluatedOnce` are no properties of the machine alone, which may be
given a program in which a binding needs itself, and are checked of the programs of the
runs. `ParamsKept` would need, besides `GraphInv`, an invariant that follows `pdec` and the
patterns through the loads of a process.

## 6. Where the code and its documents disagree

Four runs show a disagreement; the counterexample TLC finds is the example:

| run | property | what happens |
|---|---|---|
| `MCDoc_reapply` | `ApplicationsIndependent` | `lsthunk_clone` does not copy: the memo of a lambda's body from its first application is the result of every later one (`thunk.c:1669`) |
| `MCDoc_commit` | `MatchedArmCommits` | the comment of `lsthunk_eval_choice` says "Fallback ONLY when the first-parameter match failed" (`thunk.c:1082`, also `docs/90_backlog.md:120`), the code tests the message of the bottom: a mismatch in the body of an arm that has matched, or in what it returns, falls back too (`:1083`) |
| `MCDoc_params` | `ParamsRestored` | `docs/thunk-binary-format.md:293` has the parameter of a lambda restored from the image's `PATTERN_TAB`; `pdec` outlives the load, and the second image of a process gets patterns of the first (`lsti.c:1518`) |
| `MCHost_names` | `RequiredNamesVisible` | the cache of required files outlives the environment: the second FILE of a command line that requires the same path gets `()` and none of its names (`require.c:71`) |

The others were met while modelling. The models do what the code does in each case;
the programs, texts and graphs of the passing runs stay clear of those that
would break a property - a restriction of the *inputs*, never of the machine.

The language:

- A sub-pattern's result is tested with `< 0`, and a failed match is `1`, so
  `(\P a Z -> a) (P 1 2)` is `1` (`thunk.c:655`).
- The name of an as-pattern is never put into the environment (`tpat.c:171`).
- A NULL result reaches an assertion when a constructor is matched against it
  (`thunk.c:586`).
- Substitution stops at let-bound names, whose thunks keep a reference to a
  parameter that is then cleared (`thunk.c:882`); bottoms are not substituted either.
- `x | (x | _)` is accepted though its arms bind different names (`tpat.c:220`).
- `^(e)` evaluates `e` while the graph is built, when no parameter is bound
  (`thunk.c:563`).
- A choice of lambdas that is evaluated before it has an argument is decided too
  early, or falls back, which the comment rules out (`thunk.c:1117`, `:1064`); an
  arm that is a choice itself and whose arms all refuse gives a merged message, so that
  `(l | m) | r` does not come to `r` (`:1053`); a binding that needs itself recurses until the C stack
  ends.

The process:

- The init script is evaluated again for every FILE and never for `-e`; a failing
  entry function is not reported.
- A file that is included from a statement runs under that statement's effects and
  imports into the program's environment, though a comment in `require.c` says it
  does not.
- Whether `lt` is found depends on what was looked up before (`builtins_ns.c:457`).
- `importOpt` answers true or false, where the test `t54`'s comment says `Some ()` and
  `None`.
- A member of a namespace that is first asked for where effects are not allowed
  remembers the refusal as its value (`ns.c:136`).
- A member named `.__set` cannot be reached. Imports can tie a cycle of references
  that recurses until the C stack ends.
- After an overflow of the trace, frames of calls that are pending are lost, and
  warnings of an empty stack follow (`trace.c:9`).
- `println` of a bottom prints a line end and returns `()`. Characters above 127
  are printed as `\xffffffNN`, which is not what is read back, and a numeric escape just
  before the closing quote swallows it.

The images:

- LSTI: the names of patterns enter the pool after it was written, with offset 0
  (`lsti.c:446`); without that pool the name of a pattern is read from nowhere; every reference is bound anew to the prelude, parameters too
  (`:1479`); the children of a constructor pattern have no number, so that it cannot be
  written (`:541`).
- LSTB: writing a cyclic graph does not end (`thunk.c:1981`); the related thunks of a
  bottom are not collected (`:2310`); a text is cut at a NUL (`:2018`); memory of the
  collector is released with `free` (`:2598`).

Core IR:

- No effect is lowered to a token (`cir_lower.c:467`), the evaluator never reads its
  token flag (`cir_eval.c:444`), and a lambda applied to more than one argument is `()`
  (`:401`).
- A symbol as an argument is a NULL in the lowered program (`cir_lower.c:510`).
- The reader accepts a keyword where a word begins with it (`cir_text_reader.c:249`), reads
  for ever when a call is not closed (`:346`), skips the header as a comment before it looks
  for its version (`:595`), and stores cases of a match in a form that the evaluator takes
  for another (`:241`).

## 7. What is abstracted, and what is left out

In LazyEval: trace ids, locations, message formatting, the deep printing of
constructor arguments, 32-bit overflow of `add` and `sub`, the late lookup of a name
through its captured environment (PreludePlugin has it); `dump`, `to_str`, `eq` (they
evaluate and format an argument the way `print` does). In ThunkBuild: `^(e)` is
built for data, names and nested `^(e)`, for which evaluation during construction is
a constant.

In HostRuntime: the evaluation of a statement (its outcome is given); loading
the prelude is assumed to succeed; `LAZYSCRIPT_INIT` is the option `--init` by
another name; the search along `LAZYSCRIPT_PATH` is one lookup; the check of Core
IR effects in strict mode is the flag `undisciplined` of a script; `main` is a lambda.

In PreludePlugin: lambdas ignore their parameter; every library that loads exports
the same two functions; of the prelude's pure operations only `lt` is
there, whose lookup has a history: `nslit0`, `strcat`, `to_str`, `add`, `sub`, `seq`,
`trace`, `force` and `traceForce` are left out; libraries are named, not given by a path with
a slash.

In HashTable: keys are texts that are equal or not; `lshash_remove` has no
caller. In StringPool: strings are only added; the finalizer that would remove one is
registered on objects the pool itself keeps reachable. In TraceStack: thunks without a
trace id, which are not pushed, are left out, and the calls of the others are numbered.

In the images: texts are members of a small set, in LSTB also one with a NUL; an
offset is that of an entry; a crash comes between two entries of LSTI or two parts of
LSTB, not inside one; `mmap` succeeds.
In Core IR: integers are unbounded, words are tokens, printing of results is the result.

Not modelled:

- Parser and lexer: generated from a grammar; their product, the syntax tree, is
  where the models begin.
- Printers and formatter: layout of trees and thunks. The one conversion that is read back by
  the program, text literals, is module Literal.
- `coreir_clean.c`, `prelude_plugin.c`: not part of any build; `cir_*.c` and
  `builtins_ns.c`, which are built in their place, are modelled.
- Calling conventions and LLVM text of Core IR: a fixed text, or one line for each form,
  for other programs.
- Support library (lists, arrays, I/O streams), the demo plugin, the standard library
  and examples (programs *in* the language), the editor extension.

## 8. Plan

Done in this order: evaluator, matcher and builders with the reference meaning;
pattern checks; host process and module cache; prelude, namespaces and loader; hash
table, string pool, trace stack; both images; Core IR and its tools; with proofs of the
core of each component whose definitions are not recursive.

Left, by importance:

1. *One machine*: LazyEval with the environments of PreludePlugin, so that an import
   can come between the lookups of one closure, and `^(e)` with any `e`.
2. *Integers with their width* in LazyEval and Core IR, once the code says what
   overflow should be.
3. *Proofs*: of the action properties of Core IR's evaluator, once its lowering is a
   recursive function.
