----------------------------- MODULE MCPatBuild -----------------------------
(***************************************************************************)
(* Every small parameter pattern is built once (PatBuild) and what its OR  *)
(* patterns bind is compared with what the code of a lambda relies on.     *)
(***************************************************************************)
EXTENDS PatBuild

VARIABLES q, result
vars == <<q, result>>
Unbuilt == [id |-> -1]

Leaves == {PRef("x"), PRef("y"), PWild, PCon("Z", <<>>)}
Ors(ls, rs) == {POr(l, r) : l \in ls, r \in rs}
Pairs(ls, rs) == {PCon("P", <<l, r>>) : l \in ls, r \in rs}
Flat == Leaves \cup Pairs(Leaves, Leaves) \cup {PCaret(l) : l \in Leaves}
Small == {PRef("x"), PRef("y"), PWild, PCon("P", <<PRef("x"), PRef("y")>>),
          PCon("P", <<PRef("y"), PRef("x")>>)}
Patterns ==
    Flat \cup Ors(Flat, Flat) \cup Ors(Ors(Small, Small), Small)
        \cup Pairs(Leaves, Ors(Flat, Flat)) \cup Ors(Small, Ors(Small, Small))

Init == q \in Patterns /\ result = Unbuilt
New == result = Unbuilt /\ result' = BuildPattern(q) /\ UNCHANGED q
Next == New
Spec == Init /\ [][Next]_vars

-----------------------------------------------------------------------------
RECURSIVE Bound(_, _)
\* The sets of names a successful match can bind: one for each way to match.
Bound(pats, id) ==
    LET node == pats[id]
        Combine(f) == UNION {f[i] : i \in DOMAIN f}
    IN  CASE node.type = "REF" -> {{id}}
          [] node.type = "OR" -> Bound(pats, node.sub[1]) \cup Bound(pats, node.sub[2])
          [] node.sub = <<>> -> {{}}
          [] OTHER ->
                 LET ways == [i \in DOMAIN node.sub |-> Bound(pats, node.sub[i])]
                 IN  {Combine(f) : f \in {g \in [DOMAIN node.sub -> UNION Range(ways)] :
                                             \A i \in DOMAIN g : g[i] \in ways[i]}}

Accepted == result # Unbuilt /\ result.id # 0

\* "all variables bound on the left": whichever arms of an accepted pattern
\* match, every name of the pattern is bound, so that the body never meets an
\* unbound parameter.  (lstpat_new_pat, the checks on LSPTYPE_OR.)  An OR in
\* the right arm of an OR escapes the check: x | (x | _) is accepted.
OrInRightArm == q.p = "OR" /\ q.sub[2].p = "OR"
ArmsAgree ==
    Accepted /\ ~OrInRightArm =>
        LET pats == result.st.pats
        IN  \A names \in Bound(pats, result.id) : names = pats[result.id].refs

RECURSIVE NamesIn(_), Uniform(_)
NamesIn(p) == IF p.p = "REF" THEN {p.x} ELSE UNION {NamesIn(p.sub[i]) : i \in DOMAIN p.sub}
Uniform(p) ==
    /\ p.p = "OR" => NamesIn(p.sub[1]) = NamesIn(p.sub[2])
    /\ \A i \in DOMAIN p.sub : Uniform(p.sub[i])

\* The check refuses nothing it need not: a pattern whose arms name the same
\* variables is accepted.
UniformAccepted == result # Unbuilt /\ Uniform(q) => Accepted
=============================================================================
