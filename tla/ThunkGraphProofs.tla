-------------------------- MODULE ThunkGraphProofs --------------------------
(***************************************************************************)
(* What the operators of ThunkGraph give: indices of addresses, and when   *)
(* two graphs are the same. For a pairing of the thunks of two graphs that *)
(* is one to one, leads from edges to edges and has thunks that agree,     *)
(* the walk from the roots stays within the pairing.                       *)
(***************************************************************************)
EXTENDS ThunkGraph, SharedLemmas, SequenceTheorems, TLAPS

-----------------------------------------------------------------------------
(* Addresses and their indices *)

\* An index of an address leads to it.
LEMMA IdOfKnown ==
    ASSUME NEW ns, Sequence(ns), NEW a \in Range(ns)
    PROVE  IdOf(ns, a) \in 1..Len(ns) /\ ns[IdOf(ns, a)] = a
<1>1. DOMAIN ns = 1..Len(ns)
  BY SequenceProperties
<1>2. \E i \in DOMAIN ns : ns[i] = a
  BY DEF Range
<1>. QED  BY <1>1, <1>2 DEF IdOf

LEMMA IdsOfKnown ==
    ASSUME NEW ns, Sequence(ns), NEW addrs, Sequence(addrs), Range(addrs) \subseteq Range(ns)
    PROVE  IdsOf(ns, addrs) \in Seq(1..Len(ns)) /\ Len(IdsOf(ns, addrs)) = Len(addrs)
<1>1. DOMAIN addrs = 1..Len(addrs) /\ Len(addrs) \in Nat
  BY SequenceProperties
<1>2. ASSUME NEW i \in 1..Len(addrs) PROVE IdOf(ns, addrs[i]) \in 1..Len(ns)
  <2>1. addrs[i] \in Range(ns)
    BY <1>1 DEF Range
  <2>. QED  BY <2>1, IdOfKnown
<1>3. IdsOf(ns, addrs) \in [1..Len(addrs) -> 1..Len(ns)]
  BY <1>1, <1>2 DEF IdsOf
<1>. QED  BY <1>1, <1>3, SeqDef, LenProperties

\* An address that becomes known leaves the others where they are.
LEMMA KnownHas ==
    ASSUME NEW ns, Sequence(ns), NEW a
    PROVE  Sequence(Known(ns, a)) /\ Prolongs(Known(ns, a), ns) /\ a \in Range(Known(ns, a))
<1>1. Len(ns) \in Nat
  BY SequenceProperties
<1>2. CASE a \in Range(ns)
  BY <1>1, <1>2 DEF Known, Prolongs
<1>3. CASE a \notin Range(ns)
  <2>1. Known(ns, a) = Append(ns, a)
    BY <1>3 DEF Known
  <2>. DEFINE t == Append(ns, a)
  <2>2. Sequence(t) /\ Len(t) = Len(ns) + 1 /\ (\A i \in 1..Len(ns) : t[i] = ns[i])
    BY ElementAppended
  <2>3. t[Len(ns) + 1] = a
    BY AppendProperties, <1>1 DEF Sequence
  <2>. HIDE DEF t
  <2>4. Len(ns) + 1 \in 1..Len(t)
    BY <1>1, <2>2
  <2>5. a \in Range(t)
    BY <2>2, <2>3, <2>4, InRange
  <2>6. Prolongs(t, ns)
    BY <1>1, <2>2 DEF Prolongs
  <2>. QED  BY <2>1, <2>2, <2>5, <2>6 DEF t
<1>. QED  BY <1>2, <1>3

LEMMA KnownIn ==
    ASSUME NEW S, NEW ns \in Seq(S), NEW a \in S
    PROVE  Known(ns, a) \in Seq(S)
BY AppendProperties DEF Known

\* No element occurs twice.
Distinct(s) == \A i, j \in 1..Len(s) : s[i] = s[j] => i = j

\* Then its index is where an element is.
LEMMA IdOfAt ==
    ASSUME NEW ns, Sequence(ns), Distinct(ns), NEW i \in 1..Len(ns)
    PROVE  IdOf(ns, ns[i]) = i
<1>1. ns[i] \in Range(ns)
  BY InRange
<1>2. IdOf(ns, ns[i]) \in 1..Len(ns) /\ ns[IdOf(ns, ns[i])] = ns[i]
  BY <1>1, IdOfKnown
<1>. QED  BY <1>2 DEF Distinct

LEMMA DistinctAppended ==
    ASSUME NEW ns, Sequence(ns), Distinct(ns), NEW a, a \notin Range(ns)
    PROVE  Distinct(Append(ns, a))
<1>. DEFINE t == Append(ns, a)  n == Len(ns)
<1>1. n \in Nat /\ Len(t) = n + 1 /\ t[n + 1] = a /\ \A i \in 1..n : t[i] = ns[i]
  BY ElementAppended, SequenceProperties, AppendProperties DEF Sequence
<1>2. \A i \in 1..n : ns[i] # a
  BY InRange
<1>. HIDE DEF t
<1>3. \A i \in 1..n + 1 : i \in 1..n \/ i = n + 1
  BY <1>1
<1>4. ASSUME NEW i \in 1..n + 1, NEW j \in 1..n + 1, t[i] = t[j] PROVE i = j
  BY <1>1, <1>2, <1>3, <1>4 DEF Distinct
<1>5. Distinct(t)
  BY <1>1, <1>4 DEF Distinct
<1>. QED  BY <1>5 DEF t

LEMMA KnownDistinct ==
    ASSUME NEW ns, Sequence(ns), Distinct(ns), NEW a
    PROVE  Distinct(Known(ns, a))
BY DistinctAppended DEF Known

\* Numbering makes every address known that is not NULL.
LEMMA NumberedHas ==
    ASSUME NEW S, NEW ns \in Seq(S), NEW addrs \in Seq(S \cup {NULL})
    PROVE  /\ Numbered(ns, addrs) \in Seq(S)
           /\ Prolongs(Numbered(ns, addrs), ns)
           /\ Range(addrs) \subseteq Range(Numbered(ns, addrs)) \cup {NULL}
           /\ Distinct(ns) => Distinct(Numbered(ns, addrs))
<1>. DEFINE n == Len(addrs)
            V == Seq(S)
            next(t, i) == IF addrs[i] = NULL THEN t ELSE Known(t, addrs[i])
            H == [x \in V \X (1..n) |-> next(x[1], x[2])]
            Is(g) == g = [i \in 0..Len(addrs) |->
                             IF i = 0 THEN ns
                             ELSE IF addrs[i] = NULL THEN g[i - 1] ELSE Known(g[i - 1], addrs[i])]
            upto == CHOOSE g : Is(g)
<1>1. n \in Nat /\ DOMAIN addrs = 1..n /\ \A i \in 1..n : addrs[i] \in S \cup {NULL}
  OBVIOUS
<1>2. Numbered(ns, addrs) = upto[n]
  BY DEF Numbered
<1>3. \A t \in V, i \in 1..n : next(t, i) \in V
  BY <1>1, KnownIn
<1>4. \E g : Is(g) /\ g \in [0..n -> V]
  <2>1. H \in [V \X (1..n) -> V]
    BY <1>3
  <2>2. \A t \in V, i \in 1..n : H[<<t, i>>] = next(t, i)
    OBVIOUS
  <2>. HIDE DEF H
  <2>3. \E g : GoesOn(g, n, V, ns, H)
    BY <1>1, <2>1, Iterates
  <2>4. PICK g \in [0..n -> V] : g[0] = ns /\ \A i \in 1..n : g[i] = H[<<g[i - 1], i>>]
    BY <2>3 DEF GoesOn
  <2>5. ASSUME NEW i \in 1..n PROVE g[i] = next(g[i - 1], i)
    <3>1. i - 1 \in 0..n
      BY <1>1
    <3>. HIDE DEF n, V
    <3>2. g[i - 1] \in V
      BY <3>1
    <3>. QED  BY <2>2, <2>4, <3>2
  <2>6. \A i \in 0..n : g[i] = IF i = 0 THEN ns ELSE next(g[i - 1], i)
    BY <1>1, <2>4, <2>5
  <2>7. Is(g)
    BY <2>6
  <2>. QED  BY <2>7
<1>5. Is(upto)
  <2>. HIDE DEF Is
  <2>. QED  BY <1>4
<1>. HIDE DEF upto
<1>6. upto[0] = ns /\ \A i \in 1..n : upto[i] = next(upto[i - 1], i)
  <2>1. \A i \in 0..n : upto[i] = IF i = 0 THEN ns ELSE next(upto[i - 1], i)
    BY <1>5
  <2>2. 0 \in 0..n /\ \A i \in 1..n : i \in 0..n /\ i # 0
    BY <1>1
  <2>. HIDE DEF next
  <2>. QED  BY <2>1, <2>2
<1>. HIDE DEF Is
<1>. DEFINE T == {i \in Nat : /\ upto[i] \in V
                              /\ Prolongs(upto[i], ns)
                              /\ \A k \in 1..i : addrs[k] \in Range(upto[i]) \cup {NULL}
                              /\ Distinct(ns) => Distinct(upto[i])}
<1>7. 0 \in T
  <2>1. Prolongs(ns, ns)
    BY LenProperties DEF Prolongs
  <2>. QED  BY <1>6, <2>1
<1>8. ASSUME NEW i \in 1..n, i - 1 \in T PROVE i \in T
  <2>. DEFINE t == upto[i - 1]  u == upto[i]
  <2>1. /\ t \in V /\ Prolongs(t, ns) /\ \A k \in 1..(i - 1) : addrs[k] \in Range(t) \cup {NULL}
        /\ Distinct(ns) => Distinct(t)
    BY <1>8
  <2>2. u = next(t, i)
    BY <1>6
  <2>. HIDE DEF t, u
  <2>3. u \in V
    BY <1>3, <2>1, <2>2
  <2>4. Prolongs(u, t) /\ addrs[i] \in Range(u) \cup {NULL}
    <3>1. Sequence(t)
      BY <2>1, SequenceOf
    <3>2. Prolongs(t, t)
      BY <2>1, LenProperties DEF Prolongs
    <3>3. CASE addrs[i] = NULL
      BY <2>2, <3>2, <3>3
    <3>4. CASE addrs[i] # NULL
      <4>1. u = Known(t, addrs[i])
        BY <2>2, <3>4
      <4>. QED  BY <3>1, <4>1, KnownHas
    <3>. QED  BY <3>3, <3>4
  <2>5. Sequence(ns) /\ Sequence(t) /\ Sequence(u)
    BY <2>1, <2>3, SequenceOf
  <2>6. Prolongs(u, ns)
    BY <2>1, <2>4, <2>5, ProlongsTransitive
  <2>7. Range(t) \subseteq Range(u)
    BY <2>4, <2>5, ProlongsRange
  <2>8. ASSUME NEW k \in 1..i PROVE addrs[k] \in Range(u) \cup {NULL}
    <3>1. CASE k = i
      BY <2>4, <3>1
    <3>2. CASE k # i
      <4>1. k \in 1..(i - 1)
        BY <3>2
      <4>. QED  BY <2>1, <2>7, <4>1
    <3>. QED  BY <3>1, <3>2
  <2>9. Distinct(t) => Distinct(u)
    BY <2>2, <2>5, KnownDistinct
  <2>. QED  BY <2>1, <2>3, <2>6, <2>8, <2>9 DEF u
<1>. HIDE DEF T
<1>9. n \in T
  <2>1. \A i \in 0..n : i \in T
    BY <1>1, <1>7, <1>8, UpTo
  <2>. QED  BY <1>1, <2>1
<1>10. /\ upto[n] \in V /\ Prolongs(upto[n], ns) /\ \A k \in 1..n : addrs[k] \in Range(upto[n]) \cup {NULL}
       /\ Distinct(ns) => Distinct(upto[n])
  BY <1>9 DEF T
<1>11. Range(addrs) \subseteq Range(upto[n]) \cup {NULL}
  BY <1>1, <1>10 DEF Range
<1>. QED  BY <1>2, <1>10, <1>11

-----------------------------------------------------------------------------
(* When two graphs are the same *)

\* pairs has the roots, and with a pair the pairs its edges lead to.
Closed(g, gRoots, h, hRoots, pairs) ==
    /\ RootPairs(gRoots, hRoots) \subseteq pairs
    /\ \A p \in pairs \cap AllPairs(g, h) : EdgePairs(g, h, p) \subseteq pairs

\* r has the rounds of Pairs, each going on from the one before.
AreRounds(r, n, g, gRoots, h, hRoots) ==
    /\ n \in Nat
    /\ r[0] = RootPairs(gRoots, hRoots)
    /\ \A i \in 1..n : r[i] = Further(g, h, r[i - 1])
    /\ Pairs(g, gRoots, h, hRoots) = r[n]

LEMMA Rounds ==
    ASSUME NEW g, NEW gRoots, NEW h, NEW hRoots, IsFiniteSet(AllPairs(g, h))
    PROVE  \E r : AreRounds(r, Cardinality(AllPairs(g, h)), g, gRoots, h, hRoots)
<1>. DEFINE n == Cardinality(AllPairs(g, h))
            base == RootPairs(gRoots, hRoots)
            next(S) == Further(g, h, S)
            edges == UNION {EdgePairs(g, h, p) : p \in AllPairs(g, h)}
            V == SUBSET (base \cup edges)
            H == [x \in V \X (1..n) |-> next(x[1])]
            Is(r) == r = [i \in 0..n |-> IF i = 0 THEN base ELSE next(r[i - 1])]
            reached == CHOOSE r : Is(r)
<1>1. n \in Nat
  BY FS_CardinalityType
<1>2. Pairs(g, gRoots, h, hRoots) = reached[n]
  BY DEF Pairs
<1>3. \A S \in V : next(S) \in V
  BY DEF Further
<1>4. base \in V
  OBVIOUS
<1>5. \E r : Is(r)
  <2>1. H \in [V \X (1..n) -> V]
    BY <1>3
  <2>2. \A S \in V, i \in 1..n : H[<<S, i>>] = next(S)
    OBVIOUS
  <2>. HIDE DEF H, V, base, next, n
  <2>3. \E r : GoesOn(r, n, V, base, H)
    BY <1>1, <1>4, <2>1, Iterates
  <2>4. PICK r : r \in [0..n -> V] /\ r[0] = base /\ \A i \in 1..n : r[i] = H[<<r[i - 1], i>>]
    BY <2>3 DEF GoesOn
  <2>5. ASSUME NEW i \in 1..n PROVE r[i] = next(r[i - 1])
    <3>1. i - 1 \in 0..n
      BY <1>1
    <3>2. r[i - 1] \in V
      BY <2>4, <3>1
    <3>. QED  BY <2>2, <2>4, <3>2
  <2>6. \A i \in 0..n : r[i] = IF i = 0 THEN base ELSE next(r[i - 1])
    BY <1>1, <2>4, <2>5
  <2>7. r = [i \in 0..n |-> r[i]]
    BY <2>4
  <2>8. Is(r)
    BY <2>6, <2>7
  <2>. QED  BY <2>8
<1>6. Is(reached)
  <2>. HIDE DEF Is
  <2>. QED  BY <1>5
<1>. HIDE DEF reached, n, base, next
<1>7. reached[0] = base /\ \A i \in 1..n : reached[i] = next(reached[i - 1])
  <2>1. \A i \in 0..n : reached[i] = IF i = 0 THEN base ELSE next(reached[i - 1])
    BY <1>6
  <2>2. 0 \in 0..n /\ \A i \in 1..n : i \in 0..n /\ i # 0
    BY <1>1
  <2>. QED  BY <2>1, <2>2
<1>8. AreRounds(reached, n, g, gRoots, h, hRoots)
  BY <1>1, <1>2, <1>7 DEF base, next, AreRounds
<1>. QED  BY <1>8 DEF n

\* The walk stays within what is closed.
LEMMA PairsWithin ==
    ASSUME NEW g, NEW gRoots, NEW h, NEW hRoots, IsFiniteSet(AllPairs(g, h)),
           NEW pairs, Closed(g, gRoots, h, hRoots, pairs)
    PROVE  Pairs(g, gRoots, h, hRoots) \subseteq pairs
<1>. DEFINE n == Cardinality(AllPairs(g, h))
<1>1. PICK r : AreRounds(r, n, g, gRoots, h, hRoots)
  BY Rounds
<1>. HIDE DEF n
<1>. DEFINE T == {i \in Nat : r[i] \subseteq pairs}
<1>2. 0 \in T
  BY <1>1 DEF Closed, AreRounds
<1>3. ASSUME NEW i \in 1..n, i - 1 \in T PROVE i \in T
  <2>1. r[i - 1] \subseteq pairs /\ r[i] = Further(g, h, r[i - 1])
    BY <1>1, <1>3 DEF AreRounds
  <2>2. \A p \in r[i - 1] \cap AllPairs(g, h) : EdgePairs(g, h, p) \subseteq pairs
    BY <2>1 DEF Closed
  <2>3. r[i] \subseteq pairs
    BY <2>1, <2>2 DEF Further
  <2>. QED  BY <2>3
<1>. HIDE DEF T
<1>4. \A i \in 0..n : i \in T
  BY <1>1, <1>2, <1>3, UpTo DEF AreRounds
<1>5. n \in T
  BY <1>1, <1>4 DEF AreRounds
<1>. QED  BY <1>1, <1>5 DEF T, AreRounds

\* The walk is closed itself: after as many rounds as there are pairs nothing
\* new is reached, since each round that is not the last adds a pair that leads
\* on. So SameGraph is about everything the roots lead to.
LEMMA PairsClosed ==
    ASSUME NEW g, NEW gRoots, NEW h, NEW hRoots, IsFiniteSet(AllPairs(g, h))
    PROVE  Closed(g, gRoots, h, hRoots, Pairs(g, gRoots, h, hRoots))
<1>. DEFINE all == AllPairs(g, h)
            n == Cardinality(all)
            roots == RootPairs(gRoots, hRoots)
            edges(p) == EdgePairs(g, h, p)
<1>1. PICK r : AreRounds(r, n, g, gRoots, h, hRoots)
  BY Rounds
<1>2. n \in Nat /\ r[0] = roots /\ Pairs(g, gRoots, h, hRoots) = r[n]
  BY <1>1 DEF AreRounds
<1>3. \A i \in 1..n : r[i] = r[i - 1] \cup UNION {edges(p) : p \in r[i - 1] \cap all}
  BY <1>1 DEF AreRounds, Further
<1>. HIDE DEF all, edges, roots
<1>. DEFINE here(i) == r[i] \cap all
            Done(i) == \A p \in here(i) : edges(p) \subseteq r[i]
            T == {i \in Nat : roots \subseteq r[i] /\ (Done(i) \/ Cardinality(here(i)) >= i + 1)}
<1>4. ASSUME NEW i PROVE IsFiniteSet(here(i)) /\ Cardinality(here(i)) \in Nat /\ Cardinality(here(i)) <= n
  <2>1. here(i) \in SUBSET all
    OBVIOUS
  <2>. HIDE DEF here
  <2>. QED  BY <2>1, FS_Subset, FS_CardinalityType DEF all
<1>5. 0 \in T
  <2>1. CASE here(0) = {}
    BY <1>2, <2>1
  <2>2. CASE here(0) # {}
    <3>1. Cardinality(here(0)) # 0
      <4>. HIDE DEF here
      <4>. QED  BY <1>4, <2>2, FS_EmptySet
    <3>2. Cardinality(here(0)) >= 0 + 1
      <4>. HIDE DEF here
      <4>. QED  BY <1>4, <3>1
    <3>. QED  BY <1>2, <3>2
  <2>. QED  BY <2>1, <2>2
<1>6. ASSUME NEW i \in 1..n, i - 1 \in T PROVE i \in T
  <2>1. roots \subseteq r[i - 1] /\ r[i - 1] \subseteq r[i] /\ i \in Nat
    BY <1>2, <1>3, <1>6
  <2>2. \A p \in here(i - 1) : edges(p) \subseteq r[i]
    BY <1>3
  <2>3. CASE Done(i - 1)
    <3>1. r[i] = r[i - 1]
      BY <1>3, <2>3
    <3>. QED  BY <2>1, <2>3, <3>1
  <2>4. CASE here(i) = here(i - 1)
    BY <2>1, <2>2, <2>4
  <2>5. CASE ~ Done(i - 1) /\ here(i) # here(i - 1)
    <3>1. Cardinality(here(i - 1)) >= i
      BY <1>6, <2>5
    <3>2. here(i - 1) \subseteq here(i) /\ here(i - 1) # here(i)
      BY <2>1, <2>5
    <3>. HIDE DEF here
    <3>3. Cardinality(here(i - 1)) < Cardinality(here(i))
      BY <1>4, <3>2, FS_Subset
    <3>4. Cardinality(here(i)) >= i + 1
      BY <1>4, <3>1, <3>3
    <3>. QED  BY <2>1, <3>4
  <2>. QED  BY <2>3, <2>4, <2>5
<1>. HIDE DEF T
<1>7. n \in T
  <2>1. \A i \in 0..n : i \in T
    BY <1>2, <1>5, <1>6, UpTo
  <2>. QED  BY <1>2, <2>1
<1>8. Done(n)
  <2>1. ~ (Cardinality(here(n)) >= n + 1)
    <3>. HIDE DEF here
    <3>. QED  BY <1>2, <1>4
  <2>. QED  BY <1>7, <2>1 DEF T
<1>9. roots \subseteq r[n]
  BY <1>7 DEF T
<1>. QED  BY <1>2, <1>8, <1>9 DEF Closed, roots, edges, all

\* o lists thunks of one graph, nodes as many of another, one for each; edges
\* and roots of the other are those of the first, by the index in the list.
Copied(o, nodes, g, gRoots, h, hRoots) ==
    /\ o \in Seq(DOMAIN g.th) /\ Distinct(o)
    /\ nodes \in Seq(DOMAIN h.th) /\ Distinct(nodes)
    /\ Len(nodes) = Len(o)
    /\ \A i \in 1..Len(o) :
         LET t == g.th[o[i]]  u == h.th[nodes[i]] IN
         /\ SavedKind(u.kind) = SavedKind(t.kind) /\ u.text = t.text /\ u.num = t.num
         /\ Sequence(t.kids) /\ Range(t.kids) \subseteq Range(o)
         /\ u.kids = [k \in DOMAIN t.kids |-> nodes[IdOf(o, t.kids[k])]]
    /\ Sequence(gRoots) /\ Range(gRoots) \subseteq Range(o)
    /\ hRoots = [i \in DOMAIN gRoots |-> nodes[IdOf(o, gRoots[i])]]

\* A function of the indices of a sequence is as long as it is.
LEMMA SameLength ==
    ASSUME NEW s, Sequence(s), NEW t, DOMAIN t = DOMAIN s
    PROVE  Len(t) = Len(s)
<1>1. DOMAIN t = 1..Len(s) /\ Len(s) \in Nat
  BY SequenceProperties
<1>. QED  BY <1>1

LEMMA CopyIsSame ==
    ASSUME NEW o, NEW nodes, NEW g, NEW gRoots, NEW h, NEW hRoots,
           Copied(o, nodes, g, gRoots, h, hRoots), IsFiniteSet(DOMAIN g.th), IsFiniteSet(DOMAIN h.th)
    PROVE  SameGraph(g, gRoots, h, hRoots)
<1>. DEFINE n == Len(o)
            P == {<<o[i], nodes[i]>> : i \in 1..n}
            walk == Pairs(g, gRoots, h, hRoots)
<1>1. /\ Sequence(o) /\ Sequence(nodes) /\ n \in Nat /\ Len(nodes) = n /\ Distinct(o) /\ Distinct(nodes)
      /\ \A i \in 1..n : o[i] \in DOMAIN g.th /\ nodes[i] \in DOMAIN h.th
  BY SequenceOf, LenProperties, ElementOfSeq DEF Copied
<1>2. P \subseteq AllPairs(g, h)
  BY <1>1 DEF AllPairs
<1>3. IsFiniteSet(AllPairs(g, h))
  BY FS_Product DEF AllPairs
\* What is at an index of one list leads to what is at the same index of the other.
<1>4. ASSUME NEW s, Sequence(s), Range(s) \subseteq Range(o), NEW t, t = [k \in DOMAIN s |-> nodes[IdOf(o, s[k])]]
      PROVE  {<<s[k], t[k]>> : k \in DOMAIN s \cap DOMAIN t} \subseteq P
  <2>. SUFFICES ASSUME NEW k \in DOMAIN s PROVE <<s[k], t[k]>> \in P
    BY <1>4
  <2>1. s[k] \in Range(o)
    BY <1>4 DEF Range
  <2>2. IdOf(o, s[k]) \in 1..n /\ o[IdOf(o, s[k])] = s[k]
    BY <1>1, <2>1, IdOfKnown
  <2>3. t[k] = nodes[IdOf(o, s[k])]
    BY <1>4
  <2>. QED  BY <2>2, <2>3
<1>5. Closed(g, gRoots, h, hRoots, P)
  <2>1. RootPairs(gRoots, hRoots) \subseteq P
    <3>. HIDE DEF P
    <3>. QED  BY <1>4 DEF Copied, RootPairs
  <2>2. ASSUME NEW i \in 1..n PROVE EdgePairs(g, h, <<o[i], nodes[i]>>) \subseteq P
    <3>. DEFINE t == g.th[o[i]]  u == h.th[nodes[i]]
    <3>1. Sequence(t.kids) /\ Range(t.kids) \subseteq Range(o) /\ u.kids = [k \in DOMAIN t.kids |-> nodes[IdOf(o, t.kids[k])]]
      BY DEF Copied
    <3>2. EdgePairs(g, h, <<o[i], nodes[i]>>) = {<<t.kids[k], u.kids[k]>> : k \in DOMAIN t.kids \cap DOMAIN u.kids}
      BY DEF EdgePairs
    <3>. HIDE DEF P, t, u
    <3>. DEFINE a == t.kids  b == u.kids
    <3>3. Sequence(a) /\ Range(a) \subseteq Range(o) /\ b = [k \in DOMAIN a |-> nodes[IdOf(o, a[k])]]
      BY <3>1
    <3>. HIDE DEF a, b
    <3>4. {<<a[k], b[k]>> : k \in DOMAIN a \cap DOMAIN b} \subseteq P
      BY <1>4, <3>3
    <3>5. EdgePairs(g, h, <<o[i], nodes[i]>>) = {<<a[k], b[k]>> : k \in DOMAIN a \cap DOMAIN b}
      BY <3>2 DEF a, b
    <3>. QED  BY <3>4, <3>5
  <2>3. \A p \in P \cap AllPairs(g, h) : EdgePairs(g, h, p) \subseteq P
    BY <2>2
  <2>. HIDE DEF P
  <2>. QED  BY <2>1, <2>3 DEF Closed
<1>6. walk \subseteq P
  <2>. HIDE DEF P
  <2>. QED  BY <1>3, <1>5, PairsWithin
<1>7. OneToOne(P)
  BY <1>1 DEF OneToOne, Distinct
<1>8. \A p \in P : Agree(g.th[p[1]], h.th[p[2]])
  <2>. SUFFICES ASSUME NEW i \in 1..n PROVE Agree(g.th[o[i]], h.th[nodes[i]])
    OBVIOUS
  <2>. DEFINE t == g.th[o[i]]  u == h.th[nodes[i]]
  <2>1. /\ SavedKind(u.kind) = SavedKind(t.kind) /\ u.text = t.text /\ u.num = t.num
        /\ Sequence(t.kids) /\ u.kids = [k \in DOMAIN t.kids |-> nodes[IdOf(o, t.kids[k])]]
    BY DEF Copied
  <2>2. Len(u.kids) = Len(t.kids)
    BY <2>1, SameLength
  <2>. QED  BY <2>1, <2>2 DEF Agree
<1>9. Len(gRoots) = Len(hRoots)
  BY SameLength DEF Copied
<1>. HIDE DEF P, walk
<1>10. OneToOne(walk)
  BY <1>6, <1>7 DEF OneToOne
<1>11. walk \subseteq AllPairs(g, h) /\ \A p \in walk : Agree(g.th[p[1]], h.th[p[2]])
  BY <1>2, <1>6, <1>8
<1>. QED  BY <1>9, <1>10, <1>11 DEF SameGraph, walk

=============================================================================
