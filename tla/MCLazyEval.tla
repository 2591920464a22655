----------------------------- MODULE MCLazyEval -----------------------------
(***************************************************************************)
(* The programs LazyEval is checked on, and what the call-by-name meaning  *)
(* (CallByName) says their results are.  A program is written as a syntax  *)
(* tree and built into a thunk graph by ThunkBuild.                        *)
(*                                                                         *)
(* Where the machine disagrees with the meaning the programs are listed as *)
(* Meaningless or LateMismatches; those the repository itself says         *)
(* something else of are in MCLazyEvalDocs, with a lambda applied twice    *)
(* while its first result is remembered.                                   *)
(***************************************************************************)
EXTENDS LazyEvalInv, Syntax

Building == INSTANCE ThunkBuild
Reference == INSTANCE CallByName

\* A lambda, a constructor without arguments, names.
Lam(q, e) == ELambda(q, e)
App(f, a) == EApp(f, <<a>>)
Z == ECon("Z", <<>>)
S(e) == ECon("S", <<e>>)
P(e1, e2) == ECon("P", <<e1, e2>>)
PZ == PCon("Z", <<>>)
PS(q) == PCon("S", <<q>>)
PT(q) == PCon("T", <<q>>)
PP(q1, q2) == PCon("P", <<q1, q2>>)
Vx == ERef("x")
Vy == ERef("y")
Let(q, e, body) == EClosure(<<q>>, <<e>>, body)

Pairs(s, t) ==
    [i \in 1..(Len(s) * Len(t)) |->
        <<s[((i - 1) \div Len(t)) + 1], t[((i - 1) % Len(t)) + 1]>>]
Each(s, Op(_)) == [i \in 1..Len(s) |-> Op(s[i])]

-----------------------------------------------------------------------------
(* Matching: one lambda applied to one argument, observed in several ways. *)

MatchPats ==
    <<PRef("x"), PWild, PInt(1), PStr("s"), PZ, PS(PRef("x")), PP(PRef("x"), PWild),
      PP(PWild, PRef("x")), POr(PS(PRef("x")), PT(PRef("x"))),
      POr(PP(PRef("x"), PRef("y")), PP(PRef("y"), PRef("x"))),
      POr(PInt(2), PWild), PCaret(PRef("x")), PCaret(PWild)>>
Mismatched == App(Lam(PZ, EInt(7)), EInt(3))
MatchArgs ==
    <<EInt(1), EStr("s"), Z, S(EInt(1)), ECon("T", <<Z>>), P(EInt(1), Z),
      ERaise(EInt(3)), Mismatched, App(Lam(PRef("y"), S(Vy)), Z), ERef("u"),
      App(ECon("S", <<>>), EInt(1)), EChoice("expr", Mismatched, S(Z)),
      Let(PRef("z"), S(Z), P(ERef("z"), ERef("z")))>>
MatchBodies ==
    <<EInt(0), Vx, P(Vx, Vx), Lam(PRef("w"), P(Vx, ERef("w"))),
      App(Lam(PRef("w"), P(ERef("w"), Vx)), S(Vx)), EChoice("expr", Vx, EInt(9))>>

First(e) == App(Lam(PP(PRef("a"), PWild), ERef("a")), e)
MatchPrograms ==
    Each(Pairs(Pairs(MatchPats, MatchArgs), MatchBodies),
         LAMBDA c : App(Lam(c[1][1], c[2]), c[1][2]))
FirstPrograms ==
    Each(Pairs(Pairs(MatchPats, MatchArgs),
               <<P(Vx, Vx), App(Lam(PRef("w"), P(ERef("w"), Vx)), S(Vx))>>),
         LAMBDA c : First(App(Lam(c[1][1], c[2]), c[1][2])))
AppliedPrograms ==
    Each(Pairs(MatchPats, MatchArgs),
         LAMBDA c : EApp(Lam(c[1], Lam(PRef("w"), P(Vx, ERef("w")))), <<c[2], Z>>))

-----------------------------------------------------------------------------
(* Choices: every kind, between lambdas that accept, refuse or fail. *)

ChoiceArms(v) ==
    <<Lam(PRef(v), ERef(v)), Lam(PZ, EInt(1)), Lam(PS(PRef(v)), ERef(v)),
      Lam(PCaret(PRef(v)), P(EInt(4), ERef(v))), Lam(PWild, Mismatched),
      Lam(PWild, ERaise(EInt(8))),
      Lam(PWild, Lam(PS(PWild), EInt(2)))>>
ChoiceArgs == <<Z, S(Z), EInt(1), ERaise(Z), Mismatched>>
ChoicePrograms ==
    Each(Pairs(<<"lambda", "expr", "catch">>,
               Pairs(Pairs(ChoiceArms("l"), ChoiceArms("r")), ChoiceArgs)),
         LAMBDA c : App(EChoice(c[1], c[2][1][1], c[2][1][2]), c[2][2]))
Choice2Programs ==
    Each(Pairs(<<"lambda", "expr", "catch">>,
               Pairs(Pairs(ChoiceArms("l"), ChoiceArms("r")), <<Z, EInt(1)>>)),
         LAMBDA c : EApp(EChoice(c[1], c[2][1][1], c[2][1][2]), <<c[2][2], S(Z)>>))
    \o Each(ChoiceArms("r"), \* the second argument is refused, as in test/t86
            LAMBDA r : EApp(EChoice("lambda", Lam(PWild, Lam(PS(PWild), EInt(2))), r), <<S(Z), Z>>))

\* Three arms, and a choice that is passed on before it is applied.
RefusingArms(v) ==
    <<Lam(PZ, EInt(1)), Lam(PS(PRef(v)), ERef(v)), Lam(PCaret(PRef(v)), P(EInt(4), ERef(v))),
      Lam(PP(PRef(v), PWild), ERaise(EInt(8)))>>
ThreeArmsArgs == <<Z, S(Z), P(S(Z), Z), EInt(1), ERaise(Z)>>
Choice3Programs ==
    Each(Pairs(Pairs(RefusingArms("l"), Pairs(RefusingArms("m"), RefusingArms("r"))), ThreeArmsArgs),
         LAMBDA c : App(EChoice("lambda", c[1][1], EChoice("lambda", c[1][2][1], c[1][2][2])), c[2]))
    \o Each(Pairs(Pairs(RefusingArms("l"), RefusingArms("r")), ThreeArmsArgs),
            LAMBDA c : App(Lam(PRef("f"), App(ERef("f"), c[2])), EChoice("lambda", c[1][1], c[1][2])))

-----------------------------------------------------------------------------
(* Bindings: let with one or two names, used early, late, twice or never. *)

LetPats == <<PRef("x"), PS(PRef("x")), PP(PRef("x"), PRef("y")), PAs("a", PS(PRef("x"))),
             POr(PS(PRef("x")), PT(PRef("x")))>>
LetArgs == <<Z, S(Z), P(S(Z), EInt(2)), Mismatched, ERaise(Z), App(Lam(PRef("v"), S(ERef("v"))), Z),
             EChoice("expr", Mismatched, S(EInt(3)))>>
LetBodies == <<EInt(0), Vx, P(Vx, Vx), App(Lam(PS(PRef("w")), ERef("w")), Vx),
               EApp(Lam(PRef("v"), Lam(PWild, P(ERef("v"), Vx))), <<Vx, Vx>>),
               EChoice("expr", Vx, EInt(1))>>
Function1 == Lam(POr(PZ, PWild), Lam(PRef("w"), P(Z, ERef("w"))))
LetPrograms ==
    Each(Pairs(Pairs(LetPats, LetArgs), LetBodies),
         LAMBDA c : Let(c[1][1], c[1][2], c[2]))
    \o <<Let(PRef("x"), S(Vx), App(Lam(PS(PRef("w")), ERef("w")), Vx)),
         EClosure(<<PRef("x"), PRef("y")>>, <<S(Vy), ECon("T", <<Vx>>)>>,
                  App(Lam(PS(PT(PRef("w"))), ERef("w")), Vx)),
         EClosure(<<PRef("x"), PRef("y")>>, <<Vy, S(Z)>>, P(Vx, Vy)),
         Let(PRef("x"), EInt(1), Let(PRef("x"), EInt(2), Vx)),
         Let(PRef("x"), Function1, EApp(Vx, <<Z, EInt(1)>>)),
         Let(PRef("x"), Function1, Let(PRef("y"), App(Vx, EInt(1)), App(Vy, EInt(2))))>>

-----------------------------------------------------------------------------
(* Builtins.  pprint, pseq and pbind are registered as the prelude plugin   *)
(* registers them, with LSBATTR_EFFECT; the others as the core module does. *)

B(name, tag, effect) == [name |-> name, tag |-> tag, effect |-> effect]
CoreBuiltins ==
    <<B("print", "print", FALSE), B("seq", "seq", FALSE), B("seqc", "seqc", FALSE),
      B("chain", "chain", FALSE), B("bind", "bind", FALSE),
      B("return", "return", FALSE), B("add", "add", FALSE), B("sub", "sub", FALSE),
      B("lt", "lt", FALSE), B("five", "getter", FALSE),
      B("pprint", "print", TRUE), B("pseq", "seq", TRUE)>>
F1(f, e) == EApp(ERef(f), <<e>>)
F2(f, e1, e2) == EApp(ERef(f), <<e1, e2>>)
Printed(n) == F1("print", EInt(n))
Stuck == App(EInt(1), EInt(2))

Firsts == <<EInt(4), Printed(1), F1("pprint", EInt(1)), Mismatched,
            F2("seq", Printed(1), EInt(2)), F2("seq", Printed(1), Mismatched),
            F2("bind", Printed(1), ERef("print")), F1("return", Printed(1)),
            F2("add", Printed(1), EInt(2)), EChoice("expr", F2("seq", Printed(1), Mismatched), Printed(2)),
            Let(PRef("x"), Printed(1), F2("seq", Vx, Vx))>>
Seconds == <<EInt(5), Printed(3), F1("pprint", EInt(3)), ERef("five"),
             F2("seq", Printed(3), Printed(4))>>
EffectPrograms ==
    Each(Pairs(<<"seq", "pseq", "seqc">>, Pairs(Firsts, Seconds)),
         LAMBDA c : F2(c[1], c[2][1], c[2][2]))
    \o Each(Pairs(<<"chain", "bind">>, Pairs(Firsts, Seconds)),
            LAMBDA c : F2(c[1], c[2][1], Lam(PWild, c[2][2])))
    \o Each(Firsts, LAMBDA e : F2("bind", e, Lam(PRef("v"), F1("print", ERef("v")))))
    \o Each(Firsts, LAMBDA e : EApp(ERef("seqc"), <<e, Printed(6), Printed(7)>>))
    \o Each(Pairs(Firsts, Seconds), LAMBDA c : F2("add", c[1], c[2]))
    \o Each(Pairs(<<"sub", "lt", "add">>, <<EInt(3), EInt(4), Mismatched, Z, ERef("five")>>),
            LAMBDA c : F2(c[1], EInt(4), c[2]))
    \o <<Let(PRef("x"), F1("add", EInt(1)), App(Vx, EInt(2))),
         EApp(ERef("return"), <<Lam(PRef("v"), S(ERef("v"))), EInt(3)>>),
         EApp(ERef("chain"), <<Printed(1), Lam(PWild, Lam(PRef("v"), ERef("v"))), Printed(2)>>),
         EApp(ERef("seq"), <<Printed(1), Lam(PRef("v"), ERef("v")), Printed(2)>>),
         F1("add", EInt(1)), F2("bind", F1("add", EInt(1)), Lam(PRef("v"), App(ERef("v"), EInt(2)))),
         App(Lam(PRef("v"), EApp(ERef("v"), <<Printed(3)>>)), F2("seq", Printed(1), F1("seq", Printed(2)))),
         EApp(ERef("lt"), <<EInt(1), EInt(2), Z>>), ERef("five"), ERef("seq")>>

-----------------------------------------------------------------------------
(* Programs that go wrong: no value where one is needed, names that are not *)
(* bound when they are used, an assertion of the evaluator that fails.      *)

OneSided == POr(PRef("x"), POr(PRef("x"), PWild))
Escaped == App(Lam(PRef("x"), Let(PRef("y"), S(Vx), P(Vy, Vy))), EInt(1))
ErrorPrograms ==
    Each(<<"expr", "catch">>, LAMBDA k : EChoice(k, Stuck, Lam(PWild, Stuck)))
    \o Each(<<"lambda", "expr", "catch">>,
            LAMBDA k : App(EChoice(k, EInt(1), Lam(PCaret(PWild), Stuck)), EInt(2)))
    \o Each(Pairs(<<"lambda", "expr", "catch">>, ChoiceArms("l")),
            LAMBDA c : App(EChoice(c[1], c[2], Lam(PS(PRef("r")), ERef("r"))), EInt(1)))
    \o <<App(Lam(PZ, EInt(0)), Stuck), App(Lam(PCaret(PWild), EInt(0)), Stuck),
         App(Lam(PRef("x"), Stuck), EInt(1)), Let(OneSided, ERaise(EInt(1)), Vx), Let(OneSided, EInt(1), Vx),
         Let(PP(OneSided, PWild), P(ERaise(EInt(1)), Z), Vx)>>

(* Programs that have no meaning, or not the one the machine gives them: a  *)
(* builtin goes on with an argument without a value, a name is looked up   *)
(* when it is bound no more, a choice of lambdas falls back before it has   *)
(* an argument.                                                             *)
MeaninglessPrograms ==
    Each(Pairs(<<"seq", "add", "bind", "chain", "seqc">>,
               <<Stuck, F2("seq", Stuck, EInt(1)), F1("print", Stuck), F1("pprint", Stuck)>>),
         LAMBDA c : F2(c[1], c[2], Printed(1)))
    \o <<F2("add", EInt(1), Stuck), F2("lt", Stuck, EInt(1)),
         App(Lam(PP(OneSided, PWild), Vx), P(ERaise(EInt(1)), Z)),
         App(Lam(PP(PRef("a"), PWild), App(Lam(PS(PRef("b")), ERef("b")), ERef("a"))), Escaped),
         App(Lam(PAs("a", PS(PWild)), ERef("a")), S(Z)),
         App(Lam(PRef("x"), ERaise(Vx)), EInt(3)),
         App(Lam(PP(PRef("a"), PZ), ERef("a")), P(EInt(1), EInt(2))),
         EChoice("lambda", Stuck, Lam(PWild, Stuck)),
         Let(PRef("x"), EChoice("lambda", Mismatched, S(EInt(3))), Vx)>>
Meaningless == {MeaninglessPrograms[i] : i \in 1..Len(MeaninglessPrograms)}

-----------------------------------------------------------------------------
(* The programs without builtins, and those with.                           *)
PureSources ==
    MatchPrograms \o FirstPrograms \o AppliedPrograms
        \o ChoicePrograms \o Choice2Programs \o Choice3Programs \o LetPrograms
EffectSources == EffectPrograms \o ErrorPrograms \o MeaninglessPrograms

Meanings == [x \in {CoreBuiltins[i].name : i \in 1..Len(CoreBuiltins)} |->
                Reference!Builtin(
                    CoreBuiltins[CHOOSE i \in 1..Len(CoreBuiltins) : CoreBuiltins[i].name = x].tag)]

\* --strict-effects is an option of the programs that have effects.
Pure(e) == Building!BuildProgram(e, <<>>, FALSE, MaxPat)
WithBuiltins(e, strict) == Building!BuildProgram(e, CoreBuiltins, strict, MaxPat)
MCPrograms ==
    LET pure == PureSources
        effects == EffectSources
    IN  {Pure(pure[i]) : i \in 1..Len(pure)}
            \cup {WithBuiltins(effects[i], strict) : i \in 1..Len(effects), strict \in BOOLEAN}

(* Programs in which the left arm of l | r takes the argument and then      *)
(* comes to a mismatch of its own: the machine knows a mismatch by its      *)
(* message only, and evaluates r, see MCLazyEvalDocs.                       *)
LateMismatches ==
    LET src == PureSources \o EffectSources
        arms(e) == e.e = "APPL" /\ e.sub[1].e = "CHOICE" /\ e.sub[1].x = "lambda"
        left(e) == App(e.sub[1].sub[1], e.sub[2])
    IN  {e \in {src[i] : i \in 1..Len(src)} :
            arms(e) /\ Reference!ComesToMismatch(left(e), Meanings)}

Done == ctl.m = "halt" /\ ctl.r = "done"
Result ==
    IF ctl.a = Null THEN Reference!Shape("NULL", "", 0, 0)
    ELSE LET t == heap[ctl.a]
         IN  Reference!Shape(t.type, t.tag, t.num, Len(t.kids))

\* What the machine with its shared bindings, memos and substitutions returns
\* is what the call-by-name meaning of the syntax tree says: the same failure,
\* or a value with the same head and as many arguments; and on its way there
\* it meets no parameter that is not bound, which could be forgotten again in
\* an argument nobody looks at.
Adequate ==
    ~prog.strict /\ prog.expr \notin Meaningless \cup LateMismatches =>
        /\ ParamsBound
        /\ Done => Result = Reference!Meaning(prog.expr, Meanings)
=============================================================================
