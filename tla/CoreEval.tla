------------------------------ MODULE CoreEval ------------------------------
(***************************************************************************)
(* The evaluator of Core IR (coreir/cir_eval_runtime.c): strict, with an   *)
(* environment of values and a flag that says whether an effect token is   *)
(* in scope. It recurses in C only for the binding of a let; everything    *)
(* else is the last thing a call does, so the C stack is the stack of the  *)
(* lets whose binding is evaluated.                                        *)
(***************************************************************************)
EXTENDS CoreIR

VARIABLE ev   \* the evaluator

(* do: "eval" e, "return" val, "idle" or "fault" (NULL was followed).      *)
(* performed: how many effects were performed, and how many of them with   *)
(* no token in scope (history).                                            *)
NoEval == [do |-> "idle", e |-> Null, env |-> <<>>, token |-> FALSE, lets |-> <<>>, val |-> Null,
           performed |-> 0, untokened |-> 0]

Unit == [k |-> "unit"]
TokenValue == [k |-> "token"]
SymbolValue(x) == [k |-> "sym", x |-> x]
Closure(x, body, env) == [k |-> "closure", x |-> x, body |-> body, env |-> env]
Bottom(arg) == [k |-> "bottom", arg |-> arg]

Bound(env, x) == {i \in DOMAIN env : env[i].x = x}
Lookup(env, x) ==
    IF Bound(env, x) = {} THEN SymbolValue(x)
    ELSE env[CHOOSE i \in Bound(env, x) : \A j \in Bound(env, x) : j <= i].val

(* eval_value. What a name not bound stands for is a symbol.               *)
RECURSIVE ValueOf(_, _)
ValueOf(v, env) ==
    CASE v.k = "var" -> Lookup(env, v.x)
      [] v.k = "con" /\ v.x = "()" /\ v.args = <<>> -> Unit
      [] v.k = "con" /\ ~(v.x = "()" /\ v.args = <<>>) ->
           ValCon(v.x, [i \in DOMAIN v.args |-> ValueOf(v.args[i], env)])
      [] v.k = "lam" -> Closure(v.x, v.body, env)
      [] v.k = "nslit" -> Unit
      [] OTHER -> v

RECURSIVE HasNull(_)
HasNull(v) == v = Null \/ (v.k \in {"con", "nslit"} /\ \E i \in DOMAIN v.args : HasNull(v.args[i]))

Truthy(v) ==
    CASE v.k = "int" -> v.n # 0
      [] v.k = "sym" -> v.x # "false"
      [] OTHER -> v # Unit

-----------------------------------------------------------------------------
(* print_value. Inside a constructor only what is atomic is shown, except  *)
(* for the elements of a list, which are shown up to its end.              *)

Atom(v) == IF v.k \in {"int", "str", "sym", "unit"} THEN v ELSE [k |-> "<v>"]
IsNil(v) == v.k = "con" /\ v.x \in {"[]", "Nil"} /\ v.args = <<>>
IsCons(v) == v.k = "con" /\ v.x \in {":", "Cons"} /\ Len(v.args) = 2

RECURSIVE Elements(_)
Elements(v) == IF IsCons(v) THEN <<Atom(v.args[1])>> \o Elements(v.args[2]) ELSE <<>>

RECURSIVE EndsInNil(_)
EndsInNil(v) == IF IsCons(v) THEN EndsInNil(v.args[2]) ELSE IsNil(v)

RECURSIVE Inline(_)
Inline(v) ==
    CASE v.k = "con" -> ValCon(v.x, [i \in DOMAIN v.args |-> Inline(v.args[i])])
      [] v.k = "bottom" -> Bottom(Inline(v.arg))
      [] OTHER -> Atom(v)

Shown(v) ==
    CASE v.k = "closure" -> [k |-> "<lam>"]
      [] EndsInNil(v) -> [k |-> "list", args |-> Elements(v)]
      [] v.k = "con" /\ ~EndsInNil(v) -> ValCon(v.x, [i \in DOMAIN v.args |-> Atom(v.args[i])])
      [] v.k = "bottom" -> Inline(v)
      [] OTHER -> v

-----------------------------------------------------------------------------
(* Steps of eval_expr *)

Evaluate(e) == [NoEval EXCEPT !.do = "eval", !.e = e]
Return(v) == [ev EXCEPT !.do = "return", !.val = v]
Fault == [NoEval EXCEPT !.do = "fault"]
At(kinds) == ev.do = "eval" /\ ev.e.k \in kinds

EvalValue ==
    /\ At({"int", "str", "var", "con", "lam", "nslit"})
    /\ ev' = IF HasNull(ev.e) THEN Fault ELSE Return(ValueOf(ev.e, ev.env))

EvalNullAgain == At({"null"}) /\ ev' = [ev EXCEPT !.e = Null]

(* A NULL expression is ().                                                *)
EvalNull == At({"null"}) /\ ev' = Return(Unit)

EvalToken == At({"token"}) /\ ev' = Return(TokenValue)

EvalLet ==
    /\ At({"let"})
    /\ ev' = [ev EXCEPT !.e = ev.e.bind,
                        !.lets = Append(@, [x |-> ev.e.x, body |-> ev.e.body, env |-> ev.env,
                                            token |-> ev.token \/ OpensToken(ev.e)])]

(* The binding of the innermost let is there: its body.                    *)
BindLet ==
    /\ ev.do = "return" /\ ev.lets # <<>>
    /\ LET l == ev.lets[Len(ev.lets)] IN
       ev' = [ev EXCEPT !.do = "eval", !.e = l.body, !.val = Null,
                        !.env = Append(l.env, [x |-> l.x, val |-> ev.val]), !.token = l.token,
                        !.lets = SubSeq(@, 1, Len(@) - 1)]

EvalIf ==
    /\ At({"if"})
    /\ ev' = IF HasNull(ev.e.cond) THEN Fault
             ELSE [ev EXCEPT !.e = IF Truthy(ValueOf(ev.e.cond, ev.env)) THEN ev.e.then ELSE ev.e.else]

AnyNull(vals) == \E i \in DOMAIN vals : HasNull(vals[i])

(* apply: a lambda with one argument; anything else gives (). The body has *)
(* the token of the caller.                                                *)
EvalApp ==
    /\ At({"app"})
    /\ LET f == ValueOf(ev.e.func, ev.env) IN
       ev' = IF AnyNull(<<ev.e.func>> \o ev.e.args) THEN Fault
             ELSE IF f.k = "closure" /\ Len(ev.e.args) = 1
             THEN [ev EXCEPT !.e = f.body,
                             !.env = Append(f.env, [x |-> f.x, val |-> ValueOf(ev.e.args[1], ev.env)])]
             ELSE Return(Unit)

(* An effect gives (); the token is not asked for.                         *)
EvalEff ==
    /\ At({"effapp"})
    /\ ev' = IF AnyNull(<<ev.e.func>> \o ev.e.args) THEN Fault
             ELSE [Return(Unit) EXCEPT !.performed = @ + 1,
                                       !.untokened = @ + (IF ev.token THEN 0 ELSE 1)]

(* A match comes from a text, whose reader leaves an array of pointers to  *)
(* cases where this reads an array of cases: what it takes for a pattern   *)
(* may look like one that takes everything, and what it takes for the      *)
(* first body is the second case, or nothing, or whatever lies behind.     *)
EvalMatch ==
    /\ At({"match"})
    /\ IF HasNull(ev.e.scrut) THEN ev' = Fault
       ELSE ev' \in {Return(Bottom(ValueOf(ev.e.scrut, ev.env)))} \cup
                    (IF ev.e.cases = <<>> THEN {} ELSE {Return(Unit), Fault})

EvalStep ==
    \/ EvalValue \/ EvalNull \/ EvalToken \/ EvalLet \/ BindLet
    \/ EvalIf \/ EvalApp \/ EvalEff \/ EvalMatch
=============================================================================
