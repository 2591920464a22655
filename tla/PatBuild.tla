------------------------------ MODULE PatBuild ------------------------------
(***************************************************************************)
(* src/src/thunk/tpat.c: how the pattern of a lambda or of a binding       *)
(* becomes a graph of pattern nodes, and which OR patterns are refused.    *)
(*                                                                         *)
(* A builder state is [pats, self]: the nodes allocated so far and the     *)
(* names registered in the innermost environment (lstenv_get_self).  A     *)
(* result also has the new node, 0 when construction fails.                *)
(***************************************************************************)
EXTENDS Syntax, TLC, FiniteSets

\* A pattern node; refs are the REF nodes below it, which lstpat_clear_binds
\* and the marking walks visit.  org, root and rhs are filled in later.
PatNode(type, tag, num, sub, refs) ==
    [type |-> type, tag |-> tag, num |-> num, sub |-> sub, refs |-> refs,
     org |-> "NONE", root |-> 0, rhs |-> 0]

Fail(st) == [st |-> st, id |-> 0]
\* Allocate a node; refs of a REF node is the node itself.
AllocPat(st, node) ==
    LET id == Len(st.pats) + 1
        own == IF node.type = "REF" THEN {id} ELSE {}
    IN  [st |-> [st EXCEPT !.pats = Append(@, [node EXCEPT !.refs = @ \cup own])],
         id |-> id]
Inner(st, type, tag, sub) ==
    AllocPat(st, PatNode(type, tag, 0, sub,
                         UNION {st.pats[sub[i]].refs : i \in 1..Len(sub)}))

RECURSIVE NamesWalked(_)
\* The names lspat_walk_mark_right looks up in the right arm of an OR.
NamesWalked(q) ==
    (IF q.p \in {"REF", "AS"} THEN {q.x} ELSE {})
        \cup UNION {NamesWalked(q.sub[i]) : i \in 1..Len(q.sub)}

\* Mutants: the left names are not required; an arm must bind something.
MutNewNamesOnly(st, l, right) == NamesWalked(right) \subseteq DOMAIN st.self
MutBindSomething(st, l, right) ==
    LET names == NamesWalked(right)
    IN  /\ names \subseteq DOMAIN st.self
        /\ st.pats[l].refs \subseteq {st.self[x] : x \in names}
        /\ st.pats[l].refs # {}

\* lstpat_mark_refs_present, lspat_walk_mark_right and lstpat_any_mark_present:
\* the right arm names only registered names, and every name of the left.
RightArmAllowed(st, l, right) ==
    LET names == NamesWalked(right)
    IN  /\ names \subseteq DOMAIN st.self
        /\ st.pats[l].refs \subseteq {st.self[x] : x \in names}

RECURSIVE Build(_, _, _), BuildEach(_, _, _, _)
\* lstpat_new_pat; with reuse TRUE, lstpat_new_pat_reuse_only.
Build(q, reuse, st) ==
    CASE q.p \in {"INT", "STR", "WILDCARD"} ->
             AllocPat(st, PatNode(q.p, q.x, q.num, <<>>, {}))
      [] q.p = "REF" ->
             IF q.x \in DOMAIN st.self THEN [st |-> st, id |-> st.self[q.x]]
             ELSE IF reuse THEN Fail(st)
             ELSE LET new == AllocPat(st, PatNode("REF", q.x, 0, <<>>, {}))
                  IN  [new EXCEPT !.st.self = @ @@ (q.x :> new.id)]
      [] q.p = "AS" ->
             IF reuse
             THEN LET in == Build(q.sub[1], reuse, st)
                  IN  IF q.x \notin DOMAIN st.self \/ in.id = 0 THEN Fail(st)
                      ELSE Inner(in.st, "AS", "", <<st.self[q.x], in.id>>)
             \* the name is a fresh node that no environment knows
             ELSE LET ref == AllocPat(st, PatNode("REF", q.x, 0, <<>>, {}))
                      in == Build(q.sub[1], reuse, ref.st)
                  IN  IF in.id = 0 THEN Fail(in.st)
                      ELSE Inner(in.st, "AS", "", <<ref.id, in.id>>)
      [] q.p = "OR" ->
             LET l == Build(q.sub[1], reuse, st)
                 r == Build(q.sub[2], TRUE, l.st)
             IN  IF l.id = 0 \/ (~reuse /\ ~RightArmAllowed(l.st, l.id, q.sub[2]))
                    \/ r.id = 0
                 THEN Fail(l.st)
                 ELSE Inner(r.st, "OR", "", <<l.id, r.id>>)
      [] q.p = "CARET" ->
             LET in == Build(q.sub[1], reuse, st)
             IN  IF in.id = 0 THEN Fail(in.st)
                 ELSE Inner(in.st, "CARET", "", <<in.id>>)
      [] q.p = "ALGE" ->
             LET each == BuildEach(q.sub, reuse, st, <<>>)
             IN  IF Len(each.ids) < Len(q.sub) THEN Fail(each.st)
                 ELSE Inner(each.st, "ALGE", q.x, each.ids)

\* The sub-patterns of a constructor, left to right, until one fails.
BuildEach(qs, reuse, st, ids) ==
    IF qs = <<>> THEN [st |-> st, ids |-> ids]
    ELSE LET b == Build(Head(qs), reuse, st)
         IN  IF b.id = 0 THEN [st |-> b.st, ids |-> ids]
             ELSE BuildEach(Tail(qs), reuse, b.st, Append(ids, b.id))

NewScope(pats) == [pats |-> pats, self |-> [x \in {} |-> 0]]
BuildPattern(q) == Build(q, FALSE, NewScope(<<>>))
=============================================================================
