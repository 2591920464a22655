----------------------------- MODULE CoreTools -----------------------------
(***************************************************************************)
(* The programs that use Core IR: lazyscript -c and lscoreir --from-ls     *)
(* lower a program and evaluate it; lazyscriptc lowers it and prints it,   *)
(* and lscoreir reads the text and evaluates it; -t checks it. With        *)
(* --strict-effects each validates first and refuses a program with        *)
(* errors. A behaviour takes one program through all of them, in turn.     *)
(* The compiler may be killed while it writes: lscoreir then reads what    *)
(* there is, up to where the pipe was closed.                              *)
(***************************************************************************)
EXTENDS CoreEval, CoreText

CONSTANTS Sources,    \* syntax trees
          Texts,      \* texts of Core IR that no compiler has written
          StrictModes,\* with and without --strict-effects
          CutSources  \* those of Sources whose compiler may be killed

ASSUME CutSourcesAreSources == CutSources \subseteq Sources
ASSUME StrictModesAreBoolean == StrictModes \subseteq BOOLEAN

VARIABLES phase,   \* what runs
          strict,  \* --strict-effects
          source,  \* the syntax tree, Null when there is only a text
          cir,     \* the program in Core IR
          text,    \* what the compiler wrote
          whole,   \* the compiler wrote all of it (history)
          written, \* the program it wrote (history)
          report   \* the outcome of each tool so far

vars == <<ev, rd, phase, strict, source, cir, text, whole, written, report>>

NoReport == [check |-> Null, direct |-> Null, piped |-> Null]
Refused == [k |-> "refused"]
NoProgram == [k |-> "no program"]
Crash == [k |-> "crash"]

Init ==
    /\ strict \in StrictModes
    /\ \/ source \in Sources /\ phase = "lower" /\ text = <<>> /\ whole = FALSE
       \/ text \in Texts /\ phase = "read" /\ source = Null /\ whole = TRUE
    /\ cir = Null /\ written = Null
    /\ report = NoReport
    /\ ev = NoEval /\ rd = NoReader

Lowered == [e \in Sources |-> Lower(e)]

LowerProg ==
    /\ phase = "lower"
    /\ cir' = Lowered[source]
    /\ phase' = "typecheck"
    /\ UNCHANGED <<ev, rd, strict, source, text, whole, written, report>>

(* lazyscript -t, with either option about effects.                        *)
Check ==
    /\ phase = "typecheck"
    /\ \E kindWarn, kindError \in BOOLEAN :
           report' = [report EXCEPT !.check = IF strict /\ Errors(cir, FALSE) > 0 THEN Refused
                                              ELSE [k |-> Typecheck(cir, kindWarn, kindError)]]
    /\ phase' = "direct"
    /\ UNCHANGED <<ev, rd, strict, source, cir, text, whole, written>>

(* cir_validate_expr looks at the kind of every token it comes to.         *)
RECURSIVE TokenMissing(_)
TokenMissing(e) ==
    CASE e.k = "lam" -> TokenMissing(e.body)
      [] e.k = "nslit" -> \E i \in DOMAIN e.args : TokenMissing(e.args[i])
      [] e.k = "let" -> TokenMissing(e.bind) \/ TokenMissing(e.body)
      [] e.k = "app" -> TokenMissing(e.func) \/ \E i \in DOMAIN e.args : TokenMissing(e.args[i])
      [] e.k = "if" -> TokenMissing(e.cond) \/ TokenMissing(e.then) \/ TokenMissing(e.else)
      [] e.k = "effapp" -> \/ e.token = Null \/ TokenMissing(e.func)
                           \/ \E i \in DOMAIN e.args : TokenMissing(e.args[i])
      [] OTHER -> FALSE

(* The start of lscir_eval, after --strict-effects: a program without a    *)
(* root is ().                                                             *)
Run(tool, next) ==
    IF strict /\ TokenMissing(cir)
    THEN report' = [report EXCEPT ![tool] = Crash] /\ phase' = next /\ UNCHANGED ev
    ELSE IF strict /\ Errors(cir, FALSE) > 0
    THEN report' = [report EXCEPT ![tool] = Refused] /\ phase' = next /\ UNCHANGED ev
    ELSE IF ev.do = "idle" THEN ev' = Evaluate(cir) /\ UNCHANGED <<report, phase>>
    ELSE /\ ev.do = "fault" \/ (ev.do = "return" /\ ev.lets = <<>>)
         /\ report' = [report EXCEPT ![tool] = IF ev.do = "fault" THEN Crash ELSE Shown(ev.val)]
         /\ ev' = NoEval
         /\ phase' = next

RunDirect ==
    /\ phase = "direct"
    /\ Run("direct", "print")
    /\ UNCHANGED <<rd, strict, source, cir, text, whole, written>>

(* lazyscriptc; it validates as the others do, and prints nothing then.    *)
Compile ==
    /\ phase = "print"
    /\ LET out == IF strict /\ Errors(cir, FALSE) > 0 THEN <<>> ELSE Text(cir) IN
       \E n \in IF source \in CutSources THEN 0..Len(out) ELSE {Len(out)} :
           text' = SubSeq(out, 1, n) /\ whole' = (n = Len(out))
    /\ written' = cir /\ cir' = Null
    /\ phase' = "read"
    /\ UNCHANGED <<ev, rd, strict, source, report>>

Read ==
    /\ phase = "read"
    /\ StartRead(text)
    /\ phase' = "reading"
    /\ UNCHANGED <<ev, strict, source, cir, text, whole, written, report>>

Reading ==
    /\ phase = "reading" /\ ReadStep
    /\ UNCHANGED <<ev, phase, strict, source, cir, text, whole, written, report>>

ReadEnd ==
    /\ phase = "reading" /\ HasRead
    /\ cir' = rd.ret
    /\ rd' = NoReader
    /\ phase' = IF rd.ret = Null THEN "done" ELSE "piped"
    /\ report' = IF rd.ret = Null THEN [report EXCEPT !.piped = NoProgram] ELSE report
    /\ UNCHANGED <<ev, strict, source, text, whole, written>>

RunPiped ==
    /\ phase = "piped"
    /\ Run("piped", "done")
    /\ UNCHANGED <<rd, strict, source, cir, text, whole, written>>

Running ==
    /\ phase \in {"direct", "piped"} /\ EvalStep
    /\ UNCHANGED <<rd, phase, strict, source, cir, text, whole, written, report>>

Done == phase = "done" /\ UNCHANGED vars

Next ==
    \/ LowerProg \/ Check \/ RunDirect \/ Compile \/ Read \/ Reading \/ ReadEnd \/ RunPiped
    \/ Running
    \/ Done

Spec == Init /\ [][Next]_vars /\ WF_vars(Next)

-----------------------------------------------------------------------------
(* Properties *)

(* Nothing in the program could not be lowered.                            *)
RECURSIVE NullFree(_)
NullFree(e) ==
    CASE e.k = "null" -> FALSE
      [] e.k = "lam" -> NullFree(e.body)
      [] e.k \in {"con", "nslit"} -> \A i \in DOMAIN e.args : NullFree(e.args[i])
      [] e.k = "let" -> NullFree(e.bind) /\ NullFree(e.body)
      [] e.k = "app" -> NullFree(e.func) /\ \A i \in DOMAIN e.args : NullFree(e.args[i])
      [] e.k = "if" -> NullFree(e.cond) /\ NullFree(e.then) /\ NullFree(e.else)
      [] OTHER -> TRUE

(* What lscoreir makes of the text is what the compiler had: the pipe      *)
(* gives the result the program has without it.                            *)
PipeKeepsMeaning ==
    phase = "done" /\ source # Null /\ whole /\ NullFree(written) => report.piped = report.direct

(* A text that was cut short is never run: whatever the reader makes of    *)
(* it, it is not a program.                                                *)
CutNeverRuns ==
    phase = "piped" /\ source # Null => whole /\ (NullFree(written) => cir = written)

(* With --strict-effects an effect is performed only while a token is in   *)
(* scope, also in a lambda that is applied where none is: the static check *)
(* is enough for an evaluator that does not look.                          *)
StrictEffectsTokened == strict => ev.untokened = 0

(* The reader is in a loop that only a parenthesis ends, and there is      *)
(* nothing left to read.                                                   *)
Unclosed == rd.toks = <<>> /\ rd.stack # <<>> /\ Loops(rd.stack[Len(rd.stack)].h)

(* What comes to its end: every tool, on every text, but for a text that   *)
(* was cut where a call or a constructor was not closed.                   *)
ToolsEnd == <>(phase = "done" \/ (phase = "reading" /\ ~whole /\ Unclosed))
=============================================================================
