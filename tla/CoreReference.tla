--------------------------- MODULE CoreReference ---------------------------
(***************************************************************************)
(* What an expression of the language means when arguments are evaluated   *)
(* before a function is applied: the definition that lowering to Core IR   *)
(* and evaluating it is compared with. Stuck is the meaning of what the    *)
(* fragment leaves out: several arguments, applying what is no lambda,     *)
(* parameters that are no names, choices, ~prelude.                        *)
(***************************************************************************)
EXTENDS Integers, Sequences

Stuck == [k |-> "stuck"]

RECURSIVE Meaning(_, _)

Bind(env, x, v) == [y \in DOMAIN env \cup {x} |-> IF y = x THEN v ELSE env[y]]

Apply(f, v) ==
    IF f.k # "closure" \/ v = Stuck THEN Stuck ELSE Meaning(f.body, Bind(f.env, f.x, v))

Meanings(es, env) == [i \in DOMAIN es |-> Meaning(es[i], env)]

RECURSIVE Lets(_, _, _)
Lets(e, i, env) ==
    IF i > Len(e.rhss) THEN Meaning(e.sub[1], env)
    ELSE LET v == Meaning(e.rhss[i], env) IN
         IF v = Stuck \/ e.pats[i].p # "REF" THEN Stuck ELSE Lets(e, i + 1, Bind(env, e.pats[i].x, v))

Branches(e) == e.sub[1].e = "REF" /\ e.sub[1].x = "ifthenelse" /\ Len(e.sub) = 4

False(v) == v \in {[k |-> "sym", x |-> "false"], [k |-> "unit"], [k |-> "int", n |-> 0]}

Meaning(e, env) ==
    CASE e.e = "INT" -> [k |-> "int", n |-> e.num]
      [] e.e = "STR" -> [k |-> "str", s |-> e.x]
      [] e.e = "REF" -> IF e.x \in DOMAIN env THEN env[e.x]
                        ELSE IF e.x = "prelude" THEN Stuck ELSE [k |-> "sym", x |-> e.x]
      [] e.e = "ALGE" -> LET vs == Meanings(e.sub, env) IN
                         IF \E i \in DOMAIN vs : vs[i] = Stuck THEN Stuck
                         ELSE [k |-> "con", x |-> e.x, args |-> vs]
      [] e.e = "LAMBDA" -> IF e.pat.p = "REF" THEN [k |-> "closure", x |-> e.pat.x, body |-> e.sub[1], env |-> env]
                           ELSE Stuck
      [] e.e = "APPL" /\ Branches(e) ->
           LET c == Meaning(e.sub[2], env) IN
           IF c = Stuck THEN Stuck ELSE Meaning(e.sub[IF False(c) THEN 4 ELSE 3], env)
      [] e.e = "APPL" /\ ~Branches(e) /\ Len(e.sub) = 2 ->
           LET f == Meaning(e.sub[1], env) IN Apply(f, Meaning(e.sub[2], env))
      [] e.e = "CLOSURE" -> Lets(e, 1, env)
      [] e.e = "NSLIT" -> [k |-> "unit"]
      [] OTHER -> Stuck
=============================================================================
