------------------------------- MODULE MCCore -------------------------------
(***************************************************************************)
(* Programs for CoreTools, as syntax trees and as texts of Core IR.        *)
(***************************************************************************)
EXTENDS CoreTools, Syntax

Ref == INSTANCE CoreReference

(* What was lowered without leaving anything out has the meaning of its    *)
(* source: names made up on the way capture nothing, arguments are bound   *)
(* in an order in which they mean what they did.                           *)
NoNames == [x \in {} |-> Null]
MeaningKept ==
    phase = "print" /\ NullFree(cir) /\ report.direct # Refused =>
        LET v == Ref!Meaning(source, NoNames) IN
        v # Ref!Stuck => report.direct = Shown(v)

-----------------------------------------------------------------------------
x == ERef("x")
y == ERef("y")
Z == ECon("Z", <<>>)
P(a, b) == ECon("P", <<a, b>>)
Lam(v, e) == ELambda(PRef(v), e)
App1(f, a) == EApp(f, <<a>>)
Let2(e1, e2, body) == EClosure(<<PRef("x"), PRef("y")>>, <<e1, e2>>, body)
If(c, a, b) == EApp(ERef("ifthenelse"), <<c, a, b>>)
Id == Lam("x", x)
Ns(names, es) == [e |-> "NSLIT", names |-> names, sub |-> es]

Atoms == {EInt(0), EStr("s"), Z, x, ERef("false")}
Funcs == {Id, Lam("x", EInt(1)), Lam("y", P(x, y)), Lam("x", Lam("y", P(x, y))), Lam("x", App1(x, EInt(2)))}
Calls == {App1(f, a) : f \in Funcs, a \in Atoms \cup {Id}}
Curried == {App1(App1(f, a), b) : f \in Funcs, a \in {Id, EInt(0), Z, App1(Id, EInt(1))}, b \in {y, Z, App1(Id, Z)}}
Nested == {App1(f, App1(g, a)) : f, g \in Funcs, a \in {Z, x, Id}}
Lets == {Let2(a, b, c) : a \in {EInt(1), Id, App1(Id, Z)}, b \in {x, App1(x, x), P(x, x), ERef("x")},
                         c \in {P(x, y), App1(x, y), App1(App1(Id, x), y), Lam("x", P(x, y)), y}}
Ifs == {If(c, a, b) : c \in {EInt(0), ERef("true"), ERef("false"), App1(Id, ERef("false")), Z, x},
                      a \in {Z, App1(Id, EInt(1))}, b \in {EInt(2), App1(Lam("x", P(x, x)), Z)}}
Others ==
    {EApp(Id, <<Z, Z>>), EChoice("expr", App1(Id, Z), Z), EChoice("lambda", Z, App1(Id, Z)), EChoice("catch", Id, Id),
     ERaise(Z), P(App1(Id, Z), Z), Ns(<<"a", "b">>, <<EInt(1), Id>>), Ns(<<"a">>, <<ERaise(Z)>>),
     EClosure(<<PWild>>, <<Z>>, Z), EApp(ERef("f"), <<App1(Id, Z), App1(Id, EInt(1))>>),
     ECon(":", <<EInt(1), ECon(":", <<Z, ECon("[]", <<>>)>>)>>), ECon(":", <<EInt(1), Z>>),
     EApp(App1(App1(ERef("prelude"), ESymbol(".env")), ESymbol(".add")), <<EInt(1), App1(Id, EInt(2))>>),
     EApp(App1(ERef("prelude"), ERef("add")), <<EInt(1), EInt(2)>>),
     EApp(App1(ERef("prelude"), ECon("add", <<>>)), <<EInt(1)>>),
     EApp(App1(ERef("prelude"), App1(App1(ERef("e"), ECon(".env", <<>>)), ECon(".add", <<>>))), <<Z>>),
     EApp(App1(ERef("prelude"), EInt(1)), <<Z>>), App1(Id, ERaise(Z)), If(x, ERaise(Z), Z)}
Programs == Atoms \cup Calls \cup Curried \cup Nested \cup Lets \cup Ifs \cup Others

(* One program for every kind of list, to be cut at every token. *)
CutPrograms ==
    {EInt(0), Let2(App1(Id, Z), EStr("s"), If(x, P(x, Z), App1(Lam("y", y), EInt(1)))), Ns(<<"a", "b">>, <<EInt(1), Id>>),
     EApp(ERef("f"), <<App1(Id, Z), ECon("P", <<Z, Z>>)>>), App1(Id, ERaise(Z))}

(* Texts: effects under tokens, in branches, lambdas, members. *)
Tok == ValVar("t")
Eff(tok) == ExpEff(ValVar("print"), tok, <<ValInt(1)>>)
Scoped(e) == ExpLet("t", ExpToken, e)
Effects ==
    LET bodies == {Eff(Tok), ValLam("x", Eff(Tok)), ValLam("x", Scoped(Eff(Tok))), ValInt(0), Eff(ValInt(1))}
        some == bodies \cup {Scoped(e) : e \in bodies}
    IN  some \cup {ExpLet("f", e, c) : e \in some, c \in {ExpApp(ValVar("f"), <<ValInt(0)>>), Eff(Tok), Scoped(ExpApp(ValVar("f"), <<ValInt(0)>>))}}
             \cup {Scoped(ExpIf(ValInt(1), e, Eff(Tok))) : e \in some}
             \cup {Scoped(ExpApp(ValLam("x", e), <<ValNs(<<"m">>, <<ValLam("x", Eff(Tok))>>)>>)) : e \in some}

OddTexts ==
    {<<>>, <<Comment(Header)>>,
     <<Open, Word("match"), Open, Word("int"), Word("1"), Close, Open, Word("_"), Word("->"), Word("a"), Close, Close>>,
     <<Open, Word("match"), Word("a"), Open, Open, Word("P"), Word("b"), Open, Word("_"), Close, Close, Word("->"), Word("b"), Close,
       Open, Open, Word("int"), Word("2"), Close, Word("->"), Word("c"), Close, Close>>,
     <<Open, Word("match"), Word("a"), Open, Word("b"), Word("c"), Close, Close>>,
     <<Open, Word("match"), Word("a"), Close>>,
     <<Open, Word("nslit"), Open, Word("a"), Word("b"), Word("c"), Close, Close>>,
     <<Open, Word("app"), Word("f"), Open, Open, Close, Close, Close>>,
     <<Open, Word("effapp"), Word("f"), Close>>, <<Open, Word("str"), Close>>, <<Open, Word("int"), Close>>}

MCSources == Programs \cup CutPrograms
MCTexts == {Printed(e) : e \in Effects} \cup OddTexts
=============================================================================
