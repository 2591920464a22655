--------------------------- MODULE MCLazyEvalDocs ---------------------------
(***************************************************************************)
(* Programs whose evaluation disagrees with what a test or a comment of    *)
(* the repository says: one function applied twice, and arms of a choice   *)
(* that are committed to. Each property fails.                             *)
(***************************************************************************)
EXTENDS MCLazyEval

\* f = \v -> add v 1; add (f 1) (f 2)
AppliedTwice ==
    Let(PRef("f"), Lam(PRef("v"), F2("add", ERef("v"), EInt(1))),
        F2("add", F1("f", EInt(1)), F1("f", EInt(2))))

DocPrograms == {WithBuiltins(AppliedTwice, FALSE)}

\* A function applied to different arguments gives different results, as
\* test/t53_list_basic.out expects of map.
ApplicationsIndependent == Done => Result = Reference!Meaning(prog.expr, Meanings)

\* (\l -> l) | ... and (\_ -> (\Z -> 7) 3) | ..., with an argument or two.
CommittedPrograms == {Pure(e) : e \in LateMismatches}

\* Once the first parameter of a left arm has matched, the right arm is not
\* evaluated: "Fallback ONLY when the first-parameter match failed" is the
\* comment of lsthunk_eval_choice.
MatchedArmCommits == Done => Result = Reference!Meaning(prog.expr, Meanings)
=============================================================================
