---------------------------- MODULE ThunkGraph ----------------------------
(***************************************************************************)
(* The graph of thunks as the writers and readers of thunk images see it:  *)
(* thunks and parameter patterns by address, their kinds, texts and edges. *)
(* A program holds roots of it.                                            *)
(***************************************************************************)
EXTENDS Integers, Sequences, FiniteSets, SequencesExt

Kinds == {"int", "str", "symbol", "alge", "appl", "choice", "lambda", "ref", "builtin", "bottom"}
PatKinds == {"alge", "as", "int", "str", "ref", "wild", "or", "caret"}

(* A text is a name and a length: what a pool of texts tells apart. NoText *)
(* is the text of a thunk that has none.                                   *)
Text(name, len) == [name |-> name, len |-> len]
NoText == Text("", 0)

NULL == 0       \* addresses start at 1
Prelude == -1   \* the target of a name the environment resolves

(* kids: the arguments of ALGE, function and arguments of APPL, left and   *)
(* right of CHOICE, the body of LAMBDA, the related thunks of BOTTOM. num: *)
(* the value of INT, the operator of CHOICE. pat: the parameter of LAMBDA. *)
(* tgt: the pattern a REF is bound by, Prelude, or NULL.                   *)
Thunk(kind, text, num, kids) ==
    [kind |-> kind, text |-> text, num |-> num, kids |-> kids, pat |-> NULL, tgt |-> NULL]
Pat(kind, text, num, kids) == [kind |-> kind, text |-> text, num |-> num, kids |-> kids]

ThunkRecords == [kind : Kinds, text : [name : STRING, len : Nat], num : Int, kids : Seq(Nat), pat : Nat, tgt : Int]

(* What the constructors of thunks see to: addresses are of thunks, an     *)
(* application has a function, a choice one of its three operators. A      *)
(* thunk of a kind that has no text has NoText, and so has an empty text.  *)
TextKinds == {"str", "bottom", "symbol", "alge", "ref", "builtin"}
WellFormed(th, t) ==
    /\ Range(t.kids) \subseteq DOMAIN th \cup {NULL}
    /\ t.kind = "appl" => t.kids # <<>>
    /\ t.kind = "choice" => t.num \in 1..3
    /\ t.kind \notin TextKinds \/ t.text.len = 0 => t.text = NoText

Memory(th, pat) == [th |-> th, pat |-> pat]
NoMemory == Memory(<<>>, <<>>)

(* A sequence of addresses with another one, if it is not yet there.       *)
Known(nodes, a) == IF a \in Range(nodes) THEN nodes ELSE Append(nodes, a)

(* The addresses a thunk leads to, where it leads anywhere, all known.     *)
Numbered(nodes, addrs) ==
    LET upto[i \in 0..Len(addrs)] ==
            IF i = 0 THEN nodes
            ELSE IF addrs[i] = NULL THEN upto[i - 1] ELSE Known(upto[i - 1], addrs[i])
    IN  upto[Len(addrs)]

(* The index of an address, 0 when it has none.                            *)
IdOf(nodes, a) ==
    IF a \in Range(nodes) THEN CHOOSE i \in DOMAIN nodes : nodes[i] = a ELSE 0

IdsOf(nodes, addrs) == [i \in DOMAIN addrs |-> IdOf(nodes, addrs[i])]

-----------------------------------------------------------------------------
(* When two graphs are the same: walking both from their roots along the   *)
(* same edges pairs each thunk of one with one thunk of the other (sharing *)
(* and cycles included), and paired thunks agree.                          *)

EdgePairs(g, h, pair) ==
    LET a == g.th[pair[1]].kids  b == h.th[pair[2]].kids IN
    {<<a[i], b[i]>> : i \in DOMAIN a \cap DOMAIN b}

RootPairs(gRoots, hRoots) == {<<gRoots[i], hRoots[i]>> : i \in DOMAIN gRoots \cap DOMAIN hRoots}

(* One edge further in both. A pair that is none of thunks leads nowhere.  *)
AllPairs(g, h) == (DOMAIN g.th) \X (DOMAIN h.th)
Further(g, h, pairs) == pairs \cup UNION {EdgePairs(g, h, p) : p \in pairs \cap AllPairs(g, h)}

(* Every pair that is reached at all is reached by as many edges as there  *)
(* are pairs.                                                              *)
Pairs(g, gRoots, h, hRoots) ==
    LET n == Cardinality(AllPairs(g, h))
        reached[i \in 0..n] == IF i = 0 THEN RootPairs(gRoots, hRoots) ELSE Further(g, h, reached[i - 1])
    IN  reached[n]

OneToOne(pairs) == \A p, q \in pairs : p[1] = q[1] <=> p[2] = q[2]

(* A builtin is saved by its name, as a reference.                         *)
SavedKind(kind) == IF kind = "builtin" THEN "ref" ELSE kind

Agree(a, b) ==
    /\ SavedKind(a.kind) = SavedKind(b.kind)
    /\ a.text = b.text /\ a.num = b.num
    /\ Len(a.kids) = Len(b.kids)

ParamPairs(g, h, pairs) ==
    {<<g.th[p[1]].pat, h.th[p[2]].pat>> : p \in {q \in pairs : g.th[q[1]].kind = "lambda"}}

SameGraph(g, gRoots, h, hRoots) ==
    LET pairs == Pairs(g, gRoots, h, hRoots) IN
    /\ Len(gRoots) = Len(hRoots)
    /\ pairs \subseteq AllPairs(g, h)
    /\ OneToOne(pairs)
    /\ \A p \in pairs : Agree(g.th[p[1]], h.th[p[2]])

(* The parameters of paired lambdas are the same pattern.                  *)
SameParams(g, gRoots, h, hRoots) ==
    LET params == ParamPairs(g, h, Pairs(g, gRoots, h, hRoots)) IN
    /\ OneToOne(params)
    /\ \A p \in params : g.pat[p[1]] = h.pat[p[2]]

(* Paired references lead to paired parameters, or both to the prelude.    *)
SameTargets(g, gRoots, h, hRoots) ==
    LET pairs == Pairs(g, gRoots, h, hRoots) IN
    \A p \in pairs : g.th[p[1]].kind = "ref" =>
        LET t == g.th[p[1]].tgt  u == h.th[p[2]].tgt IN
        t = u \/ <<t, u>> \in ParamPairs(g, h, pairs)
=============================================================================
