------------------------------- MODULE Syntax -------------------------------
(***************************************************************************)
(* The syntax trees of src/src/expr and src/src/pat: what the parser       *)
(* builds and the thunk construction reads.  Names, constructors and       *)
(* strings are TLA+ strings that are only compared.                        *)
(***************************************************************************)
EXTENDS Integers, Sequences, Functions

\* Patterns (lsptype_t).
PRef(x) == [p |-> "REF", x |-> x, num |-> 0, sub |-> <<>>]
PWild == [p |-> "WILDCARD", x |-> "", num |-> 0, sub |-> <<>>]
PInt(n) == [p |-> "INT", x |-> "", num |-> n, sub |-> <<>>]
PStr(s) == [p |-> "STR", x |-> s, num |-> 0, sub |-> <<>>]
PCon(c, ps) == [p |-> "ALGE", x |-> c, num |-> 0, sub |-> ps]
PAs(x, q) == [p |-> "AS", x |-> x, num |-> 0, sub |-> <<q>>]
POr(l, r) == [p |-> "OR", x |-> "", num |-> 0, sub |-> <<l, r>>]
PCaret(q) == [p |-> "CARET", x |-> "", num |-> 0, sub |-> <<q>>]

\* Expressions (lsetype_t).  x: name, constructor, string or choice kind.
EInt(n) == [e |-> "INT", x |-> "", num |-> n, sub |-> <<>>]
EStr(s) == [e |-> "STR", x |-> s, num |-> 0, sub |-> <<>>]
ESymbol(s) == [e |-> "SYMBOL", x |-> s, num |-> 0, sub |-> <<>>]
ERef(x) == [e |-> "REF", x |-> x, num |-> 0, sub |-> <<>>]
ECon(c, es) == [e |-> "ALGE", x |-> c, num |-> 0, sub |-> es]
EApp(f, es) == [e |-> "APPL", x |-> "", num |-> 0, sub |-> <<f>> \o es]
EChoice(kind, l, r) == [e |-> "CHOICE", x |-> kind, num |-> 0, sub |-> <<l, r>>]
ERaise(arg) == [e |-> "RAISE", x |-> "", num |-> 0, sub |-> <<arg>>]
ELambda(q, body) == [e |-> "LAMBDA", pat |-> q, sub |-> <<body>>]
\* let p1 = e1; ... in body
EClosure(pats, rhss, body) ==
    [e |-> "CLOSURE", pats |-> pats, rhss |-> rhss, sub |-> <<body>>]
=============================================================================
