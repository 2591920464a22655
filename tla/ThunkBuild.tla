----------------------------- MODULE ThunkBuild -----------------------------
(***************************************************************************)
(* lsthunk_new_expr of src/src/thunk/thunk.c: from a syntax tree to the    *)
(* thunk graph the evaluator starts from.                                  *)
(*                                                                         *)
(* A state is [heap, pats]; names resolve against vis, which maps every    *)
(* visible name to its pattern node (lstenv_get along the parents).  The   *)
(* address of a thunk is allocated when its kids are complete.             *)
(***************************************************************************)
EXTENDS PatBuild

Node(type, tag, num, kids) ==
    [type |-> type, tag |-> tag, num |-> num, kids |-> kids]
Alloc(st, node) == [st |-> [st EXCEPT !.heap = Append(@, node)],
                    id |-> Len(st.heap) + 1]

\* What introduced the names of the pattern root, and the right-hand side.
SetOrigin(pats, org, root, rhs) ==
    [q \in 1..Len(pats) |->
        IF q \in pats[root].refs
        THEN [pats[q] EXCEPT !.org = org, !.root = root, !.rhs = rhs]
        ELSE pats[q]]

\* ^(e) evaluates e while the graph is being built: the parameters of the
\* lambdas around it are never bound then.  Modelled for arguments that are
\* data, a name without a binding to follow, or another ^(e).
RaisedThunk(t, id, param) ==
    IF t.type = "BOTTOM" THEN t
    ELSE IF t.type = "REF" /\ t.num = 0
    THEN Node("BOTTOM", "undefined reference", 0, <<>>)
    ELSE IF t.type = "REF" /\ param
    THEN Node("BOTTOM", "unbound lambda param", 0, <<>>)
    ELSE Node("BOTTOM", "raise", 0, <<id>>)

RECURSIVE BuildExpr(_, _, _), BuildExprs(_, _, _, _), BuildLhss(_, _, _, _),
          BuildRhss(_, _, _, _, _)

BuildExprs(es, vis, st, ids) ==
    IF es = <<>> THEN [st |-> st, ids |-> ids]
    ELSE LET b == BuildExpr(Head(es), vis, st)
         IN  BuildExprs(Tail(es), vis, b.st, Append(ids, b.id))

\* The left-hand sides share one scope and are built before any right-hand
\* side, so that the bindings see each other.
BuildLhss(qs, scope, ids, n) ==
    IF n > Len(qs) THEN [scope |-> scope, ids |-> ids]
    ELSE LET b == Build(qs[n], FALSE, scope)
         IN  BuildLhss(qs, b.st, Append(ids, b.id), n + 1)

BuildRhss(es, vis, st, roots, n) ==
    IF n > Len(es) THEN st
    ELSE LET b == BuildExpr(es[n], vis, st)
         IN  BuildRhss(es, vis,
                       [b.st EXCEPT !.pats = SetOrigin(@, "BIND", roots[n], b.id)],
                       roots, n + 1)

BuildExpr(e, vis, st) ==
    CASE e.e \in {"INT", "STR", "SYMBOL"} ->
             Alloc(st, Node(e.e, e.x, e.num, <<>>))
      [] e.e = "REF" ->
             Alloc(st, Node("REF", e.x, IF e.x \in DOMAIN vis THEN vis[e.x] ELSE 0,
                            <<>>))
      [] e.e \in {"ALGE", "APPL", "CHOICE"} ->
             LET kids == BuildExprs(e.sub, vis, st, <<>>)
             IN  Alloc(kids.st, Node(e.e, e.x, 0, kids.ids))
      [] e.e = "RAISE" ->
             LET arg == BuildExpr(e.sub[1], vis, st)
                 t == arg.st.heap[arg.id]
                 param == t.type = "REF" /\ t.num # 0
                              /\ arg.st.pats[t.num].org = "LAMBDA"
             IN  Alloc(arg.st, RaisedThunk(t, arg.id, param))
      [] e.e = "LAMBDA" ->
             LET b == Build(e.pat, FALSE, NewScope(st.pats))
                 inner == BuildExpr(e.sub[1], b.st.self @@ vis,
                              [st EXCEPT !.pats =
                                  SetOrigin(b.st.pats, "LAMBDA", b.id, 0)])
             IN  Alloc(inner.st, Node("LAMBDA", "", b.id, <<inner.id>>))
      [] e.e = "CLOSURE" ->
             LET lhs == BuildLhss(e.pats, NewScope(st.pats), <<>>, 1)
                 vis2 == lhs.scope.self @@ vis
                 st2 == BuildRhss(e.rhss, vis2, [st EXCEPT !.pats = lhs.scope.pats],
                                  lhs.ids, 1)
             IN  BuildExpr(e.sub[1], vis2, st2)

RECURSIVE PutBuiltins(_, _, _)
\* lstenv_put_builtin for each [name, tag, effect] of the environment.  A
\* getter captures thunk 1.
PutBuiltins(bs, vis, st) ==
    IF bs = <<>> THEN [vis |-> vis, st |-> st]
    ELSE LET b == Head(bs)
             data == IF b.tag = "getter" THEN <<1>> ELSE <<>>
             t == Alloc(st, Node("BUILTIN", b.tag, IF b.effect THEN 1 ELSE 0, data))
             q == AllocPat([pats |-> st.pats],
                           [PatNode("REF", b.name, 0, <<>>, {}) EXCEPT
                               !.org = "BUILTIN", !.rhs = t.id])
         IN  PutBuiltins(Tail(bs), (b.name :> q.id) @@ vis,
                         [t.st EXCEPT !.pats = q.st.pats])

\* The graph of expression e in an environment of builtins bs: what
\* lsprog_eval starts from.  Unused pattern numbers hold wildcards.
BuildProgram(e, bs, strict, maxPat) ==
    LET env == PutBuiltins(bs, [x \in {} |-> 0],
                           [heap |-> <<Node("INT", "", 5, <<>>)>>, pats |-> <<>>])
        root == BuildExpr(e, env.vis, env.st)
        pats == root.st.pats
    IN  [expr |-> e, heap |-> root.st.heap, root |-> root.id, strict |-> strict,
         pats |-> pats \o [i \in 1..(maxPat - Len(pats)) |->
                              PatNode("WILDCARD", "", 0, <<>>, {})]]
=============================================================================
