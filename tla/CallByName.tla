----------------------------- MODULE CallByName -----------------------------
(***************************************************************************)
(* What an expression means: call-by-name evaluation of the syntax tree to *)
(* weak head normal form, with environments and closures.  Nothing is      *)
(* shared, memoised, bound in place or substituted, so none of the ways in *)
(* which the graph evaluator could confuse two uses of a thunk or of a     *)
(* parameter exist here.  It follows src/docs/03_semantics.md,             *)
(* src/docs/spec/bottom-and-caret.md, and for choices the comment of       *)
(* lsthunk_eval_choice and src/docs/90_backlog.md: only the first          *)
(* parameter of an arm decides between arms.                               *)
(*                                                                         *)
(* A closure is [e, env]; env maps a name to a closure.  A value is        *)
(* [type, tag, num, args, fn, refused]: args are closures (constructor      *)
(* arguments, related arguments of a bottom, arguments a builtin waits     *)
(* with), fn is the closure of a lambda or choice, and refused marks the   *)
(* failure of a function whose own first parameter does not match.         *)
(***************************************************************************)
EXTENDS Syntax, TLC

Closure(e, env) == [e |-> e, env |-> env]
NoEnv == [x \in {} |-> 0]
Value(type, tag, num, args) ==
    [type |-> type, tag |-> tag, num |-> num, args |-> args,
     fn |-> Closure(EInt(0), NoEnv), refused |-> FALSE]
Function(type, e, env) ==
    [type |-> type, tag |-> "", num |-> 0, args |-> <<>>,
     fn |-> Closure(e, env), refused |-> FALSE]
Failure(msg, related) == Value("BOTTOM", msg, 0, related)
\* An integer, a string or a symbol was applied to arguments.
NoValue == Value("NULL", "", 0, <<>>)
Mismatch == "lambda match failure"

\* The closure of a value that is already known.
Known(v) == Closure([e |-> "KNOWN", v |-> v, sub |-> <<>>], NoEnv)
Builtin(tag) == Known(Value("BUILTIN", tag, 0, <<>>))

\* A variable or _ refuses an argument that is a bottom as it stands; an
\* argument not yet evaluated is accepted as it is.
IsBottomArg(c) ==
    c.e.e = "RAISE" \/ (c.e.e = "KNOWN" /\ c.e.v.type = "BOTTOM")
\* A literal pattern looks at the argument as it stands.
IsLiteralArg(c, type, x, n) ==
    \/ c.e.e = type /\ c.e.x = x /\ c.e.num = n
    \/ c.e.e = "KNOWN" /\ c.e.v.type = type /\ c.e.v.tag = x /\ c.e.v.num = n

NoMatch == [ok |-> FALSE, binds |-> NoEnv]
Binds(f) == [ok |-> TRUE, binds |-> f]

BuiltinNames == [add |-> 2, sub |-> 2, lt |-> 2, seq |-> 2, seqc |-> 2,
                 chain |-> 2, bind |-> 2, return |-> 1, print |-> 1, getter |-> 0]

RECURSIVE NamesOf(_)
NamesOf(q) == (IF q.p \in {"REF", "AS"} THEN {q.x} ELSE {})
                  \cup UNION {NamesOf(q.sub[i]) : i \in 1..Len(q.sub)}

\* let: each name stands for the projection of its binding, in scope of all.
LetEnv(let, env) ==
    LET at(x) == CHOOSE i \in 1..Len(let.pats) : x \in NamesOf(let.pats[i])
        names == UNION {NamesOf(let.pats[i]) : i \in 1..Len(let.pats)}
    IN  [x \in names |-> Closure([e |-> "PROJECT", x |-> x, num |-> at(x),
                                  let |-> let, sub |-> <<>>], env)] @@ env

\* An expression that is a value as it stands.
Parts(c) == [i \in 1..Len(c.e.sub) |-> Closure(c.e.sub[i], c.env)]
ValueForms == {"KNOWN", "INT", "STR", "SYMBOL", "ALGE", "LAMBDA", "CHOICE"}
AsItStands(c) ==
    CASE c.e.e = "KNOWN" -> c.e.v
      [] c.e.e \in {"INT", "STR", "SYMBOL"} -> Value(c.e.e, c.e.x, c.e.num, <<>>)
      [] c.e.e = "ALGE" -> Value("ALGE", c.e.x, 0, Parts(c))
      [] c.e.e \in {"LAMBDA", "CHOICE"} -> Function(c.e.e, c.e, c.env)

RECURSIVE Eval(_, _), Choose(_, _), Apply(_, _), MatchPat(_, _), MatchAll(_, _), Call(_, _)

\* The value of closure c applied to the closures args.
Eval(c, args) ==
    LET e == c.e
        sub == Parts(c)
    IN  CASE e.e \in ValueForms -> Apply(AsItStands(c), args)
          [] e.e = "APPL" -> Eval(sub[1], Tail(sub) \o args)
          [] e.e = "RAISE" ->
                 LET v == Eval(sub[1], <<>>)
                 IN  IF v.type = "BOTTOM" THEN v ELSE Failure("raise", <<sub[1]>>)
          [] e.e = "REF" ->
                 IF e.x \in DOMAIN c.env THEN Eval(c.env[e.x], args)
                 ELSE Failure("undefined reference", <<>>)
          [] e.e = "CLOSURE" -> Eval(Closure(e.sub[1], LetEnv(e, c.env)), args)
          [] e.e = "PROJECT" ->
                 LET m == MatchPat(e.let.pats[e.num],
                                   Closure(e.let.rhss[e.num], LetEnv(e.let, c.env)))
                 IN  IF m.ok THEN Eval(m.binds[e.x], args)
                     ELSE Failure("ref match failure", <<>>)

IsFunction(v) == v.type \in {"LAMBDA", "CHOICE", "BUILTIN"}
Arm(f, i) == Closure(f.fn.e.sub[i], f.fn.env)

\* What a function came to after its first parameter had matched.
Committed(v) == [v EXCEPT !.refused = FALSE]
Merged(l, r) ==
    IF l.type = "BOTTOM" /\ r.type = "BOTTOM"
    THEN [Failure("merged", l.args \o r.args) EXCEPT !.refused = l.refused /\ r.refused]
    ELSE r

\* l | r is l where l does not refuse the first argument, whatever l then
\* makes of it; without an argument there is nothing to decide yet. l || r is
\* r where l comes to no value, l ^| r applies r to the failure of l.
Choose(v, args) ==
    LET byArm == v.fn.e.x = "lambda"
        left == Eval(Arm(v, 1), IF byArm THEN <<>> ELSE args)
        l == IF byArm /\ args # <<>> THEN Apply(left, <<args[1]>>) ELSE left
        right(as) == Apply(Eval(Arm(v, 2), <<>>), as)
    IN  CASE args = <<>> /\ IsFunction(l) -> v
          [] byArm ->
                 IF args = <<>> THEN l
                 ELSE IF l.refused \/ l.type = "NULL" THEN Merged(l, right(args))
                 ELSE Apply(l, Tail(args))
          [] l.type \notin {"NULL", "BOTTOM"} -> l
          [] v.fn.e.x = "expr" -> Committed(Merged(l, right(args)))
          [] v.fn.e.x = "catch" ->
                 Committed(right(<<Known(IF l.type = "NULL" THEN Failure("null", <<>>) ELSE l)>>))

Apply(v, args) ==
    CASE v.type = "CHOICE" -> Choose(v, args)
      [] v.type \in {"BOTTOM", "NULL"} -> Committed(v)
      [] v.type = "ALGE" -> [v EXCEPT !.args = @ \o args]
      [] v.type \in {"INT", "STR", "SYMBOL"} ->
             IF args = <<>> THEN v ELSE NoValue
      [] v.type = "LAMBDA" ->
             IF args = <<>> THEN v
             ELSE LET m == MatchPat(v.fn.e.pat, args[1])
                  IN  IF m.ok
                      THEN Committed(Eval(Closure(v.fn.e.sub[1], m.binds @@ v.fn.env), Tail(args)))
                      ELSE [Failure(Mismatch, <<args[1]>>) EXCEPT !.refused = TRUE]
      [] v.type = "BUILTIN" ->
             LET all == v.args \o args
                 n == BuiltinNames[v.tag]
             IN  IF Len(all) < n THEN [v EXCEPT !.args = all]
                 ELSE Committed(Apply(Call(v.tag, SubSeq(all, 1, n)), SubSeq(all, n + 1, Len(all))))

\* Match closure c against pattern q: does it, and what do the names stand for?
MatchPat(q, c) ==
    CASE q.p = "REF" -> IF IsBottomArg(c) THEN NoMatch ELSE Binds(q.x :> c)
      [] q.p = "WILDCARD" -> IF IsBottomArg(c) THEN NoMatch ELSE Binds(NoEnv)
      [] q.p \in {"INT", "STR"} ->
             IF IsLiteralArg(c, q.p, q.x, q.num) THEN Binds(NoEnv) ELSE NoMatch
      [] q.p = "ALGE" ->
             LET v == Eval(c, <<>>)
             IN  IF v.type = "ALGE" /\ v.tag = q.x /\ Len(v.args) = Len(q.sub)
                 THEN MatchAll(q.sub, v.args) ELSE NoMatch
      [] q.p = "AS" ->
             LET m == MatchPat(q.sub[1], c)
             IN  IF m.ok THEN Binds((q.x :> c) @@ m.binds) ELSE NoMatch
      [] q.p = "OR" ->
             LET l == MatchPat(q.sub[1], c)
             IN  IF l.ok THEN l ELSE MatchPat(q.sub[2], c)
      [] q.p = "CARET" ->
             LET v == Eval(c, <<>>)
                 in == q.sub[1]
             IN  IF v.type # "BOTTOM" THEN NoMatch
                 ELSE IF in.p = "WILDCARD" THEN Binds(NoEnv)
                 ELSE IF in.p = "REF" /\ v.args # <<>> THEN Binds(in.x :> v.args[1])
                 ELSE NoMatch

MatchAll(qs, cs) ==
    IF qs = <<>> THEN Binds(NoEnv)
    ELSE LET m == MatchPat(Head(qs), Head(cs))
             ms == MatchAll(Tail(qs), Tail(cs))
         IN  IF ~m.ok THEN NoMatch
             ELSE IF ~ms.ok THEN NoMatch ELSE Binds(ms.binds @@ m.binds)

Unit == Value("ALGE", "()", 0, <<>>)

\* A builtin with all its arguments.
Call(tag, cs) ==
    LET v == Eval(cs[1], <<>>)
        w == Eval(cs[2], <<>>)
    IN  CASE tag = "getter" -> Value("INT", "", 5, <<>>)
          [] tag = "return" -> Eval(cs[1], <<>>)
          [] v.type = "BOTTOM" -> v
          [] v.type # "BOTTOM" /\ tag = "print" -> v
          [] v.type # "BOTTOM" /\ tag = "seq" -> w
          [] v.type # "BOTTOM" /\ tag = "seqc" -> Value("BUILTIN", "seqc", 0, <<cs[2]>>)
          [] v.type # "BOTTOM" /\ tag = "chain" -> Eval(cs[2], <<Known(Unit)>>)
          [] v.type # "BOTTOM" /\ tag = "bind" -> Eval(cs[2], <<Known(v)>>)
          [] v.type # "BOTTOM" /\ tag \in {"add", "sub", "lt"} ->
                 IF w.type = "BOTTOM" THEN w
                 ELSE IF v.type # "INT" \/ w.type # "INT" THEN Failure("invalid type", <<>>)
                 ELSE IF tag = "add" THEN Value("INT", "", v.num + w.num, <<>>)
                 ELSE IF tag = "sub" THEN Value("INT", "", v.num - w.num, <<>>)
                 ELSE Value("ALGE", IF v.num < w.num THEN "true" ELSE "false", 0, <<>>)

\* What can be told of a value without applying it: functions look alike.
Shape(type, tag, num, n) ==
    IF type \in {"LAMBDA", "CHOICE", "BUILTIN", "APPL"}
    THEN [type |-> "FUNCTION", tag |-> "", num |-> 0, n |-> 0]
    ELSE [type |-> type, tag |-> tag, num |-> num, n |-> n]

ShapeOf(v) == Shape(v.type, v.tag, v.num, Len(v.args))

\* The meaning of expression e where names stands for builtins.
Meaning(e, names) == ShapeOf(Eval(Closure(e, names), <<>>))

\* Expression e comes to a mismatch after its function took its argument.
ComesToMismatch(e, names) ==
    [Eval(Closure(e, names), <<>>) EXCEPT !.args = <<>>] = Failure(Mismatch, <<>>)
=============================================================================
