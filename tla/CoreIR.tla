------------------------------- MODULE CoreIR -------------------------------
(***************************************************************************)
(* Core IR (coreir/coreir.h): its values and expressions, the check of     *)
(* --strict-effects, the check of --typecheck, and how an expression of    *)
(* the language is lowered to it. Names are TLA+ strings. A value is an    *)
(* expression (LCIR_EXP_VAL); Null is the NULL a translation or a parse    *)
(* leaves behind.                                                          *)
(***************************************************************************)
EXTENDS Integers, Sequences, TLC

Null == [k |-> "null"]

ValInt(n) == [k |-> "int", n |-> n]
ValStr(s) == [k |-> "str", s |-> s]
ValVar(x) == [k |-> "var", x |-> x]
ValCon(c, args) == [k |-> "con", x |-> c, args |-> args]
ValLam(x, body) == [k |-> "lam", x |-> x, body |-> body]
ValNs(names, args) == [k |-> "nslit", names |-> names, args |-> args]

ExpLet(x, bind, body) == [k |-> "let", x |-> x, bind |-> bind, body |-> body]
ExpApp(func, args) == [k |-> "app", func |-> func, args |-> args]
ExpIf(cond, then, else) == [k |-> "if", cond |-> cond, then |-> then, else |-> else]
ExpEff(func, token, args) == [k |-> "effapp", func |-> func, token |-> token, args |-> args]
ExpToken == [k |-> "token"]
ExpMatch(scrut, cases) == [k |-> "match", scrut |-> scrut, cases |-> cases]

PatWild == [k |-> "wild"]
PatVar(x) == [k |-> "var", x |-> x]
PatCon(c, subs) == [k |-> "con", x |-> c, args |-> subs]

-----------------------------------------------------------------------------
(* Effects: what --strict-effects refuses, and what --typecheck calls IO. *)

RECURSIVE Errors(_, _), SumErrors(_, _)
SumErrors(es, token) ==
    IF es = <<>> THEN 0 ELSE Errors(Head(es), token) + SumErrors(Tail(es), token)

OpensToken(e) == e.bind.k = "token"

ErrorsLexical(e, token) ==
    CASE e.k = "lam" -> Errors(e.body, token)
      [] e.k = "nslit" -> SumErrors(e.args, token)
      [] e.k = "let" -> Errors(e.bind, token) + Errors(e.body, token \/ OpensToken(e))
      [] e.k = "app" -> SumErrors(<<e.func>> \o e.args, token)
      [] e.k = "if" -> SumErrors(<<e.cond, e.then, e.else>>, token)
      [] e.k = "match" -> Errors(e.scrut, token)
      [] e.k = "effapp" ->
           (IF token THEN 0 ELSE 1) + (IF e.token.k = "var" THEN 0 ELSE 1) + SumErrors(<<e.func>> \o e.args, token)
      [] OTHER -> 0

(* cir_validate_expr, cir_validate_val: how many errors. A lambda is on    *)
(* its own; the arguments of a constructor are not looked at. A match has  *)
(* come from a text, which is read into an array of pointers where an      *)
(* array of cases is expected: what stands for a body is no expression.    *)
Errors(e, token) ==
    CASE e.k = "lam" -> Errors(e.body, FALSE)
      [] e.k = "nslit" -> SumErrors(e.args, token)
      [] e.k = "let" -> Errors(e.bind, token) + Errors(e.body, token \/ OpensToken(e))
      [] e.k = "app" -> SumErrors(<<e.func>> \o e.args, token)
      [] e.k = "if" -> SumErrors(<<e.cond, e.then, e.else>>, token)
      [] e.k = "match" -> Errors(e.scrut, token)
      [] e.k = "effapp" ->
           (IF token THEN 0 ELSE 1) + (IF e.token.k = "var" THEN 0 ELSE 1) + SumErrors(<<e.func>> \o e.args, token)
      [] OTHER -> 0

(* expr_has_effects: the function of an application is not looked at.      *)
RECURSIVE HasEffects(_)
HasEffects(e) ==
    CASE e.k = "lam" -> HasEffects(e.body)
      [] e.k = "let" -> HasEffects(e.bind) \/ HasEffects(e.body)
      [] e.k = "app" -> \E i \in DOMAIN e.args : e.args[i].k = "lam" /\ HasEffects(e.args[i])
      [] e.k = "if" -> HasEffects(e.then) \/ HasEffects(e.else)
      [] e.k = "match" -> \E i \in DOMAIN e.cases : HasEffects(e.cases[i].body)
      [] OTHER -> e.k = "effapp"

(* lscir_typecheck: what it says, and whether the process fails. The check *)
(* of the arity knows no function and finds no error.                      *)
Typecheck(e, kindWarn, kindError) ==
    LET io == e # Null /\ HasEffects(e) IN
    CASE io /\ kindError -> "kind error"
      [] io /\ kindWarn /\ ~kindError -> "OK, with a warning"
      [] OTHER -> "OK"

-----------------------------------------------------------------------------
(* Lowering. What lowers an expression returns the result and the count of *)
(* names made up so far: cir_gensym, whose names no source can contain.    *)

With(e, n) == [e |-> e, n |-> n]
Made(prefix, n) == prefix \o ToString(n)

RECURSIVE LowerValue(_, _), LowerExpr(_, _), LowerAll(_, _), LowerArgs(_, _), LowerBinds(_, _, _), LowerLets(_, _, _)

(* Values in order, as the arguments of one; Null as soon as one is Null.  *)
LowerAll(es, n) ==
    IF es = <<>> THEN With(ValCon("", <<>>), n)
    ELSE LET first == LowerValue(Head(es), n) IN
         IF first.e = Null THEN first
         ELSE LET rest == LowerAll(Tail(es), first.n) IN
              IF rest.e = Null THEN rest ELSE [rest EXCEPT !.e.args = <<first.e>> \o @]

ParamName(pat) == IF pat.p = "REF" THEN pat.x ELSE IF pat.p = "WILDCARD" THEN "_" ELSE "(pattern)"

LowerValue(e, n) ==
    CASE e.e = "INT" -> With(ValInt(e.num), n)
      [] e.e = "STR" -> With(ValStr(e.x), n)
      [] e.e = "REF" -> With(ValVar(e.x), n)
      [] e.e = "ALGE" -> LET args == LowerAll(e.sub, n) IN
                         IF args.e = Null THEN args ELSE With(ValCon(e.x, args.e.args), args.n)
      [] e.e = "LAMBDA" -> LET body == LowerExpr(e.sub[1], n) IN
                           IF body.e = Null THEN body ELSE With(ValLam(ParamName(e.pat), body.e), body.n)
      [] e.e = "NSLIT" -> LET vals == LowerAll(e.sub, n) IN
                          IF vals.e = Null THEN vals ELSE With(ValNs(e.names, vals.e.args), vals.n)
      [] OTHER -> With(Null, n)

(* Arguments: those that are no value get a name, to be bound around the   *)
(* application; hoisted: these names and expressions.                      *)
LowerArgs(es, n) ==
    IF es = <<>> THEN [vals |-> <<>>, hoisted |-> <<>>, n |-> n]
    ELSE LET v == LowerValue(Head(es), n)
             x == Made("a$", v.n + 1)
             rest == LowerArgs(Tail(es), IF v.e = Null THEN v.n + 1 ELSE v.n)
         IN  IF v.e = Null
             THEN [rest EXCEPT !.vals = <<ValVar(x)>> \o @,
                               !.hoisted = << [x |-> x, e |-> Head(es)] >> \o @]
             ELSE [rest EXCEPT !.vals = <<v.e>> \o @]

(* The lets around an expression, the last one first.                      *)
LowerLets(hoisted, core, n) ==
    IF hoisted = <<>> THEN With(core, n)
    ELSE LET h == hoisted[Len(hoisted)]
             bind == LowerExpr(h.e, n)
         IN  LowerLets(SubSeq(hoisted, 1, Len(hoisted) - 1), ExpLet(h.x, bind.e, core), bind.n)

LowerBindsReversed(e, core, n) ==
    IF e.rhss = <<>> THEN With(core, n)
    ELSE LET rhs == LowerExpr(Head(e.rhss), n) IN
         LowerBinds([e EXCEPT !.pats = Tail(@), !.rhss = Tail(@)], ExpLet(Head(e.pats).x, rhs.e, core), rhs.n)

(* lower_closure: one let in the other, the first binding outermost.       *)
LowerBinds(e, core, n) ==
    IF e.rhss = <<>> \/ core = Null THEN With(core, n)
    ELSE LET last == Len(e.rhss)
             rhs == LowerExpr(e.rhss[last], n)
         IN  IF e.pats[last].p # "REF" THEN With(Null, n)
             ELSE IF rhs.e = Null THEN rhs
             ELSE LowerBinds([e EXCEPT !.pats = SubSeq(@, 1, last - 1), !.rhss = SubSeq(@, 1, last - 1)],
                             ExpLet(e.pats[last].x, rhs.e, core), rhs.n)

IsRef(e, x) == e.e = "REF" /\ e.x = x
IsApp1(e) == e.e = "APPL" /\ Len(e.sub) = 2
IsConst(e) == e.e = "SYMBOL" \/ (e.e = "ALGE" /\ e.sub = <<>>)
Undotted(s) == IF SubSeq(s, 1, 1) = "." THEN SubSeq(s, 2, Len(s)) ELSE s

(* The name that (~prelude a) selects, "" when it is none of the forms     *)
(* lower_expr looks for: ((~prelude .env) .name), (~prelude ~name),        *)
(* (~prelude Name), (~prelude ((_ .env) .name)).                           *)
PreludeName(func) ==
    IF ~IsApp1(func) THEN ""
    ELSE LET head == func.sub[1]  a == func.sub[2] IN
         CASE IsRef(head, "prelude") /\ a.e = "REF" -> a.x
           [] IsRef(head, "prelude") /\ a.e = "ALGE" /\ a.sub = <<>> -> a.x
           [] IsRef(head, "prelude") /\ IsApp1(a) /\ IsApp1(a.sub[1]) ->
                IF IsConst(a.sub[1].sub[2]) /\ a.sub[1].sub[2].x = ".env" /\ IsConst(a.sub[2])
                THEN Undotted(a.sub[2].x) ELSE ""
           [] IsApp1(head) -> IF IsRef(head.sub[1], "prelude") /\ IsConst(head.sub[2])
                                 /\ head.sub[2].x = ".env" /\ IsConst(a)
                              THEN Undotted(a.x) ELSE ""
           [] OTHER -> ""

(* ifthenelse c a b; a condition that is no value gets a name.             *)
LowerIf(e, n) ==
    LET v == LowerValue(e.sub[2], n)
        x == Made("c$", v.n + 1)
        then == LowerExpr(e.sub[3], IF v.e = Null THEN v.n + 1 ELSE v.n)
        else == LowerExpr(e.sub[4], then.n)
    IN  IF v.e # Null THEN With(ExpIf(v.e, then.e, else.e), else.n)
        ELSE LowerLets(<< [x |-> x, e |-> e.sub[2]] >>, ExpIf(ValVar(x), then.e, else.e), else.n)

LowerApp(e, n) ==
    LET args == LowerArgs(Tail(e.sub), n)
        name == PreludeName(e.sub[1])
        f == IF name # "" THEN With(ValVar(name), args.n) ELSE LowerValue(e.sub[1], args.n)
        x == Made("f$", f.n + 1)
    IN  IF f.e # Null THEN LowerLets(args.hoisted, ExpApp(f.e, args.vals), f.n)
        ELSE LowerLets(<< [x |-> x, e |-> e.sub[1]] >> \o args.hoisted, ExpApp(ValVar(x), args.vals), f.n + 1)

LowerChoice(e, n) ==
    LET l == LowerValue(e.sub[1], n)
        r == LowerValue(e.sub[2], l.n)
        ln == IF l.e = Null THEN r.n + 1 ELSE r.n
        rn == IF r.e = Null THEN ln + 1 ELSE ln
        hoist(v, i, k) == IF v.e = Null THEN << [x |-> Made("c$", k), e |-> e.sub[i]] >> ELSE <<>>
        val(v, k) == IF v.e = Null THEN ValVar(Made("c$", k)) ELSE v.e
    IN  LowerLets(hoist(l, 1, ln) \o hoist(r, 2, rn),
                  ExpApp(ValVar("choice." \o e.x), <<val(l, ln), val(r, rn)>>), rn)

LowerExpr(e, n) ==
    CASE e.e = "APPL" /\ IsRef(e.sub[1], "ifthenelse") /\ Len(e.sub) = 4 -> LowerIf(e, n)
      [] e.e = "APPL" /\ ~(IsRef(e.sub[1], "ifthenelse") /\ Len(e.sub) = 4) -> LowerApp(e, n)
      [] e.e = "CHOICE" -> LowerChoice(e, n)
      [] e.e = "CLOSURE" -> LET body == LowerExpr(e.sub[1], n) IN LowerBinds(e, body.e, body.n)
      [] OTHER -> LowerValue(e, n)

(* lscir_lower_prog, of a process that has lowered nothing before.         *)
Lower(e) == LowerExpr(e, 0).e
=============================================================================
