---------------------------- MODULE SharedLemmas ----------------------------
(***************************************************************************)
(* Facts that proofs about tables and lists stand on. Of numbers: least    *)
(* and greatest ones, going on from one to the next, and that a function   *)
(* defined along them exists; they say of sets what the induction theorems *)
(* of the library say of operators. Of sequences: what the operators on    *)
(* them give, whatever is in them.                                         *)
(***************************************************************************)
EXTENDS Integers, Sequences, FiniteSets, Functions, FiniteSetTheorems, SequenceTheorems,
        WellFoundedInduction, TLAPS

-----------------------------------------------------------------------------
(* Numbers *)

\* A set of numbers that is not empty has a least one: the initial segments of
\* its numbers have a least one.
LEMMA LeastNumber ==
    ASSUME NEW T \in SUBSET Nat, T # {}
    PROVE  \E n \in T : \A m \in T : n <= m
<1>. DEFINE W == {0..n : n \in T}
            R == StrictSubsetOrdering(Nat)
<1>1. W \subseteq FiniteSubsetsOf(Nat)
  <2>. SUFFICES ASSUME NEW n \in T PROVE 0..n \in FiniteSubsetsOf(Nat)
    OBVIOUS
  <2>1. IsFiniteSet(0..n) /\ 0..n \subseteq Nat
    BY FS_Interval
  <2>. QED  BY <2>1 DEF FiniteSubsetsOf
<1>2. PICK x \in W : \A y \in W : ~ (<<y, x>> \in R)
  <2>1. W # {}
    OBVIOUS
  <2>2. IsWellFoundedOn(R, FiniteSubsetsOf(Nat))
    BY FS_StrictSubsetOrderingWellFounded
  <2>. HIDE DEF W, R
  <2>. QED  BY <1>1, <2>1, <2>2, WFMin
<1>3. PICK n \in T : x = 0..n
  OBVIOUS
<1>4. ASSUME NEW m \in T PROVE n <= m
  <2>1. <<0..m, 0..n>> \notin R
    BY <1>2, <1>3
  <2>2. 0..m \in SUBSET Nat /\ 0..n \in SUBSET Nat
    OBVIOUS
  <2>3. ~ (0..m \subseteq 0..n /\ 0..m # 0..n)
    BY <2>1, <2>2 DEF StrictSubsetOrdering
  <2>4. ASSUME m < n PROVE FALSE
    <3>1. 0..m \subseteq 0..n /\ n \in 0..n /\ n \notin 0..m
      BY <2>4
    <3>. QED  BY <2>3, <3>1
  <2>. QED  BY <2>4
<1>. QED  BY <1>4

\* A set of numbers up to n that is not empty has a greatest one.
LEMMA GreatestNumber ==
    ASSUME NEW n \in Nat, NEW T \in SUBSET (1..n), T # {}
    PROVE  \E i \in T : \A j \in T : j <= i
<1>. DEFINE U == {u \in Nat : \A t \in T : t <= u}
<1>1. n \in U /\ U \in SUBSET Nat
  OBVIOUS
<1>2. PICK u \in U : \A v \in U : u <= v
  BY <1>1, LeastNumber
<1>3. PICK t \in T : TRUE
  OBVIOUS
<1>4. u \in Nat /\ t \in Nat /\ t >= 1 /\ t <= u
  BY <1>2, <1>3
<1>5. ASSUME u \notin T PROVE u - 1 \in U
  BY <1>4, <1>5
<1>6. u \in T
  BY <1>2, <1>4, <1>5
<1>. QED  BY <1>2, <1>6

\* What holds of 0 and is handed on from each number to the next holds up to n.
LEMMA UpTo ==
    ASSUME NEW n \in Nat, NEW S, 0 \in S, \A i \in 1..n : i - 1 \in S => i \in S
    PROVE  \A i \in 0..n : i \in S
<1>. DEFINE T == {i \in 0..n : i \notin S}
<1>1. ASSUME T # {} PROVE FALSE
  <2>1. T \in SUBSET Nat
    OBVIOUS
  <2>2. \E t \in T : \A m \in T : t <= m
    <3>. HIDE DEF T
    <3>. QED  BY <1>1, <2>1, LeastNumber
  <2>3. PICK t \in T : \A m \in T : t <= m
    BY <2>2
  <2>4. t \in 1..n /\ t \notin S
    BY <2>3
  <2>5. t - 1 \in 0..n /\ t - 1 \notin S
    BY <2>4
  <2>. QED  BY <2>3, <2>4, <2>5
<1>. QED  BY <1>1

\* g begins with base and goes on by H.
GoesOn(g, n, V, base, H) ==
    g \in [0..n -> V] /\ g[0] = base /\ \A i \in 1..n : g[i] = H[<<g[i - 1], i>>]

\* A function that begins with base and goes on by H exists.
LEMMA Iterates ==
    ASSUME NEW n \in Nat, NEW V, NEW base \in V, NEW H \in [V \X (1..n) -> V]
    PROVE  \E g : GoesOn(g, n, V, base, H)
<1>. DEFINE Is(g, m) == g[0] = base /\ \A i \in 1..m : g[i] = H[<<g[i - 1], i>>]
            S == {m \in 0..n : \E g \in [0..m -> V] : Is(g, m)}
<1>1. 0 \in S
  <2>. DEFINE f == [i \in 0..0 |-> base]
  <2>1. f \in [0..0 -> V] /\ Is(f, 0)
    OBVIOUS
  <2>2. 0 \in 0..n
    OBVIOUS
  <2>. HIDE DEF f, Is
  <2>. QED  BY <2>1, <2>2
<1>2. ASSUME NEW m \in 1..n, m - 1 \in S PROVE m \in S
  <2>1. PICK g \in [0..(m - 1) -> V] : Is(g, m - 1)
    BY <1>2
  <2>2. g[m - 1] \in V /\ H[<<g[m - 1], m>>] \in V
    BY <2>1
  <2>. DEFINE last == H[<<g[m - 1], m>>]
              f == [i \in 0..m |-> IF i = m THEN last ELSE g[i]]
  <2>3. f \in [0..m -> V]
    BY <2>2
  <2>4. \A i \in 0..m : f[i] = IF i = m THEN last ELSE g[i]
    OBVIOUS
  <2>5. m # 0 /\ 0 \in 0..m
    OBVIOUS
  <2>6. f[0] = base
    BY <2>1, <2>4, <2>5
  <2>7. \A i \in 1..m : f[i] = H[<<f[i - 1], i>>]
    <3>. HIDE DEF f
    <3>. TAKE i \in 1..m
    <3>1. i - 1 \in 0..m /\ i \in 0..m /\ i - 1 # m
      OBVIOUS
    <3>2. f[i - 1] = g[i - 1]
      BY <2>4, <3>1
    <3>3. CASE i = m
      BY <2>4, <3>1, <3>2, <3>3
    <3>4. CASE i # m
      <4>1. i \in 1..(m - 1)
        BY <3>4
      <4>. QED  BY <2>1, <2>4, <3>1, <3>2, <3>4, <4>1
    <3>. QED  BY <3>3, <3>4
  <2>8. m \in 0..n
    OBVIOUS
  <2>. HIDE DEF f
  <2>. QED  BY <2>3, <2>6, <2>7, <2>8
<1>. HIDE DEF S
<1>3. n \in S
  BY <1>1, <1>2, UpTo
<1>. QED  BY <1>3 DEF S, GoesOn

\* A function from low to high that takes its value at a number from one at a
\* greater number, next[i], exists.
GoesBack(g, low, high, V, base, next, H) ==
    /\ g \in [low..high -> V]
    /\ \A i \in low..high : g[i] = H[<<i, IF next[i] \in i + 1 .. high THEN g[next[i]] ELSE base>>]

LEMMA Descends ==
    ASSUME NEW low \in Nat, NEW high \in Nat, low <= high + 1, NEW V, NEW base \in V, NEW next,
           NEW H \in [(low..high) \X V -> V]
    PROVE  \E g : GoesBack(g, low, high, V, base, next, H)
<1>. DEFINE n == high + 1 - low
            first(k) == high + 1 - k
            S == {k \in 0..n : \E g : GoesBack(g, first(k), high, V, base, next, H)}
<1>1. 0 \in S
  <2>. DEFINE f == [i \in first(0)..high |-> base]
  <2>1. first(0)..high = {}
    OBVIOUS
  <2>2. GoesBack(f, first(0), high, V, base, next, H)
    <3>. HIDE DEF first
    <3>. QED  BY <2>1 DEF GoesBack
  <2>3. 0 \in 0..n
    OBVIOUS
  <2>. HIDE DEF f
  <2>. QED  BY <2>2, <2>3
<1>2. ASSUME NEW k \in 1..n, k - 1 \in S PROVE k \in S
  <2>. DEFINE j == first(k)
  <2>1. first(k - 1) = j + 1 /\ j \in low..high /\ k \in 0..n /\ j \in Nat
    OBVIOUS
  <2>2. PICK g : GoesBack(g, j + 1, high, V, base, next, H)
    BY <1>2, <2>1
  <2>. HIDE DEF first, n
  <2>. DEFINE rest == IF next[j] \in j + 1 .. high THEN g[next[j]] ELSE base
              new == H[<<j, rest>>]
              f == [i \in j..high |-> IF i = j THEN new ELSE g[i]]
  <2>. HIDE DEF j
  <2>3. g \in [j + 1 .. high -> V] /\ \A i \in j + 1 .. high : g[i] = H[<<i, IF next[i] \in i + 1 .. high THEN g[next[i]] ELSE base>>]
    BY <2>2 DEF GoesBack
  <2>4. rest \in V
    BY <2>3
  <2>5. new \in V
    <3>. HIDE DEF rest
    <3>. QED  BY <2>1, <2>4
  <2>. HIDE DEF new
  <2>6. f \in [j..high -> V] /\ f[j] = new /\ \A i \in j + 1 .. high : f[i] = g[i]
    <3>1. \A i \in j..high : i = j \/ i \in j + 1 .. high
      BY <2>1
    <3>2. j \in j..high /\ \A i \in j + 1 .. high : i # j /\ i \in j..high
      BY <2>1
    <3>. QED  BY <2>3, <2>5, <3>1, <3>2
  <2>. HIDE DEF f
  <2>7. ASSUME NEW i \in j..high
        PROVE  f[i] = H[<<i, IF next[i] \in i + 1 .. high THEN f[next[i]] ELSE base>>]
    <3>1. \A m \in i + 1 .. high : m \in j + 1 .. high
      BY <2>1
    <3>2. \A m \in i + 1 .. high : f[m] = g[m]
      BY <2>6, <3>1
    <3>3. CASE i = j
      BY <2>6, <3>2, <3>3 DEF new
    <3>4. CASE i # j
      <4>1. i \in j + 1 .. high
        BY <2>1, <3>4
      <4>. QED  BY <2>3, <2>6, <3>2, <4>1
    <3>. QED  BY <3>3, <3>4
  <2>8. GoesBack(f, first(k), high, V, base, next, H)
    BY <2>6, <2>7 DEF GoesBack, j
  <2>. QED  BY <2>1, <2>8
<1>3. n \in Nat /\ first(n) = low
  OBVIOUS
<1>. HIDE DEF S, n, first
<1>4. \A k \in 0..n : k \in S
  BY <1>1, <1>2, <1>3, UpTo
<1>. QED  BY <1>3, <1>4 DEF S

\* A number is made of its quotient and its remainder.
LEMMA Remainder ==
    ASSUME NEW a \in Int, NEW m \in Nat, m >= 1
    PROVE  a = m * (a \div m) + (a % m) /\ a \div m \in Int /\ a % m \in 0 .. m - 1
OBVIOUS

\* The quotient and the remainder are the only ones.
LEMMA OnlyRemainder ==
    ASSUME NEW m \in Nat, m >= 1, NEW q \in Int, NEW r \in 0 .. m - 1
    PROVE  (m * q + r) % m = r
<1>. DEFINE a == m * q + r  b == a % m  d == a \div m
<1>1. a \in Int
  OBVIOUS
<1>. HIDE DEF a
<1>2. a = m * d + b /\ d \in Int /\ b \in 0 .. m - 1
  BY <1>1, Remainder
<1>. HIDE DEF b, d
<1>3. m * q + r = m * d + b
  BY <1>2 DEF a
<1>4. ASSUME q <= d - 1 PROVE FALSE
  <2>1. m * (d - 1 - q) >= 0
    BY <1>2, <1>4
  <2>2. m * (d - 1 - q) = m * d - m - m * q
    BY <1>2
  <2>3. m * d \in Int /\ m * q \in Int
    BY <1>2
  <2>. QED  BY <1>2, <1>3, <2>1, <2>2, <2>3
<1>5. ASSUME d <= q - 1 PROVE FALSE
  <2>1. m * (q - 1 - d) >= 0
    BY <1>2, <1>5
  <2>2. m * (q - 1 - d) = m * q - m - m * d
    BY <1>2
  <2>3. m * d \in Int /\ m * q \in Int
    BY <1>2
  <2>. QED  BY <1>2, <1>3, <2>1, <2>2, <2>3
<1>6. q = d
  BY <1>2, <1>4, <1>5
<1>7. m * q \in Int
  OBVIOUS
<1>8. b = r
  BY <1>2, <1>3, <1>6, <1>7
<1>. QED  BY <1>8 DEF a, b

\* Where a number lies tells what is left of it.
LEMMA LeftBetween ==
    ASSUME NEW p \in Nat, p >= 1, NEW w \in 0 .. p - 1, NEW r \in Int, NEW low \in Int, NEW high \in Int,
           p * low <= w + p * r, w + p * r < p * high
    PROVE  low <= r /\ r < high
<1>1. ASSUME r <= low - 1 PROVE FALSE
  <2>1. p * (low - 1 - r) >= 0
    BY <1>1
  <2>2. p * (low - 1 - r) = p * low - p - p * r
    OBVIOUS
  <2>3. p * low \in Int /\ p * r \in Int
    OBVIOUS
  <2>. QED  BY <2>1, <2>2, <2>3
<1>2. ASSUME r >= high PROVE FALSE
  <2>1. p * (r - high) >= 0
    BY <1>2
  <2>2. p * (r - high) = p * r - p * high
    OBVIOUS
  <2>3. p * high \in Int /\ p * r \in Int
    OBVIOUS
  <2>. QED  BY <2>1, <2>2, <2>3
<1>. QED  BY <1>1, <1>2

-----------------------------------------------------------------------------
(* Sequences *)

Sequence(s) == s \in Seq(Range(s))

\* A sequence over a set is one over its own elements.
LEMMA SequenceOf ==
    ASSUME NEW S, NEW s \in Seq(S)
    PROVE  Sequence(s)
<1>1. /\ Len(s) \in Nat
      /\ DOMAIN s = 1..Len(s)
      /\ s = [i \in 1..Len(s) |-> s[i]]
  OBVIOUS
<1>2. \A i \in 1..Len(s) : s[i] \in Range(s)
  BY <1>1 DEF Range
<1>3. s \in [1..Len(s) -> Range(s)]
  BY <1>1, <1>2
<1>. QED  BY <1>1, <1>3, SeqDef DEF Sequence

\* Its indices are the numbers up to its length.
LEMMA SequenceProperties ==
    ASSUME NEW s, Sequence(s)
    PROVE  Len(s) \in Nat /\ DOMAIN s = 1..Len(s)
BY LenProperties DEF Sequence

\* One more element: the others stay where they were.
LEMMA ElementAppended ==
    ASSUME NEW s, Sequence(s), NEW e
    PROVE  /\ Sequence(Append(s, e))
           /\ Len(Append(s, e)) = Len(s) + 1
           /\ \A i \in 1..Len(s) : Append(s, e)[i] = s[i]
<1>. DEFINE S == Range(s) \cup {e}
<1>1. s \in Seq(S)
  <2>1. s \in [1..Len(s) -> Range(s)] /\ Len(s) \in Nat
    BY LenProperties DEF Sequence
  <2>2. s \in [1..Len(s) -> S]
    BY <2>1
  <2>. QED  BY <2>1, <2>2, SeqDef
<1>. HIDE DEF S
<1>2. e \in S
  BY DEF S
<1>3. Append(s, e) \in Seq(S)
  BY <1>1, <1>2, AppendProperties
<1>4. Sequence(Append(s, e))
  BY <1>3, SequenceOf
<1>. QED  BY <1>1, <1>2, <1>4, AppendProperties

\* Two sequences, one behind the other.
LEMMA SequencesJoined ==
    ASSUME NEW s, Sequence(s), NEW t, Sequence(t)
    PROVE  /\ Sequence(s \o t)
           /\ Len(s \o t) = Len(s) + Len(t)
           /\ \A i \in 1..Len(s) : (s \o t)[i] = s[i]
<1>. DEFINE S == Range(s) \cup Range(t)
<1>1. s \in Seq(S) /\ t \in Seq(S)
  <2>1. /\ s \in [1..Len(s) -> Range(s)] /\ Len(s) \in Nat
        /\ t \in [1..Len(t) -> Range(t)] /\ Len(t) \in Nat
    BY LenProperties DEF Sequence
  <2>2. s \in [1..Len(s) -> S] /\ t \in [1..Len(t) -> S]
    BY <2>1
  <2>. QED  BY <2>1, <2>2, SeqDef
<1>. HIDE DEF S
<1>2. s \o t \in Seq(S)
  BY <1>1, ConcatProperties
<1>3. Len(s) \in Nat /\ Len(t) \in Nat
  BY SequenceProperties
<1>4. \A i \in 1..Len(s) + Len(t) : (s \o t)[i] = IF i <= Len(s) THEN s[i] ELSE t[i - Len(s)]
  BY <1>1, ConcatProperties
<1>5. Sequence(s \o t)
  BY <1>2, SequenceOf
<1>6. Len(s \o t) = Len(s) + Len(t)
  BY <1>1, ConcatProperties
<1>. QED  BY <1>3, <1>4, <1>5, <1>6

\* One element replaced.
LEMMA ElementReplaced ==
    ASSUME NEW s, Sequence(s), NEW i, NEW e
    PROVE  Sequence([s EXCEPT ![i] = e]) /\ Len([s EXCEPT ![i] = e]) = Len(s)
<1>. DEFINE S == Range(s) \cup {e}
            t == [s EXCEPT ![i] = e]
<1>1. s \in [1..Len(s) -> Range(s)] /\ Len(s) \in Nat
  BY LenProperties DEF Sequence
<1>2. t \in [1..Len(s) -> S]
  BY <1>1
<1>. HIDE DEF t, S
<1>3. t \in Seq(S) /\ Len(t) = Len(s)
  BY <1>1, <1>2, SeqDef, LenProperties
<1>4. Sequence(t)
  BY <1>3, SequenceOf
<1>. QED  BY <1>3, <1>4 DEF t

\* All but the first element.
LEMMA TailOf ==
    ASSUME NEW s, Sequence(s), s # <<>>
    PROVE  Sequence(Tail(s)) /\ Len(Tail(s)) = Len(s) - 1 /\ Len(s) > 0
<1>1. Tail(s) \in Seq(Range(s)) /\ Len(Tail(s)) = Len(s) - 1
  BY HeadTailProperties DEF Sequence
<1>2. Len(s) > 0
  BY EmptySeq, LenProperties DEF Sequence
<1>. QED  BY <1>1, <1>2, SequenceOf

\* t is s, and perhaps more behind it.
Prolongs(t, s) == Len(s) <= Len(t) /\ \A i \in 1..Len(s) : t[i] = s[i]

\* What is in a sequence is at an index of it.
LEMMA InRange ==
    ASSUME NEW s, Sequence(s), NEW e
    PROVE  e \in Range(s) <=> \E i \in 1..Len(s) : s[i] = e
<1>1. DOMAIN s = 1..Len(s)
  BY SequenceProperties
<1>. QED  BY <1>1 DEF Range

LEMMA ProlongsTransitive ==
    ASSUME NEW s, Sequence(s), NEW t, Sequence(t), NEW u, Sequence(u), Prolongs(t, s), Prolongs(u, t)
    PROVE  Prolongs(u, s)
<1>1. Len(s) \in Nat /\ Len(t) \in Nat /\ Len(u) \in Nat
  BY SequenceProperties
<1>. QED  BY <1>1 DEF Prolongs

LEMMA ProlongsRange ==
    ASSUME NEW s, Sequence(s), NEW t, Sequence(t), Prolongs(t, s)
    PROVE  Range(s) \subseteq Range(t)
<1>. SUFFICES ASSUME NEW e \in Range(s) PROVE e \in Range(t)
  OBVIOUS
<1>1. Len(s) \in Nat /\ Len(t) \in Nat
  BY SequenceProperties
<1>2. PICK i \in 1..Len(s) : s[i] = e
  BY InRange
<1>3. i \in 1..Len(t) /\ t[i] = e
  BY <1>1, <1>2 DEF Prolongs
<1>. QED  BY <1>3, InRange

\* u is made of s and of t behind it.
IsJoined(u, s, t) ==
    /\ Len(u) = Len(s) + Len(t)
    /\ \A j \in 1..Len(s) : u[j] = s[j]
    /\ \A j \in 1..Len(t) : u[Len(s) + j] = t[j]

LEMMA JoinedAt ==
    ASSUME NEW S, NEW s \in Seq(S), NEW t \in Seq(S)
    PROVE  s \o t \in Seq(S) /\ IsJoined(s \o t, s, t)
<1>1. Len(s) \in Nat /\ Len(t) \in Nat
  OBVIOUS
<1>2. s \o t \in Seq(S) /\ Len(s \o t) = Len(s) + Len(t)
  BY ConcatProperties
<1>3. \A j \in 1 .. Len(s) + Len(t) : (s \o t)[j] = IF j <= Len(s) THEN s[j] ELSE t[j - Len(s)]
  BY ConcatProperties
<1>4. ASSUME NEW j \in 1..Len(s) PROVE (s \o t)[j] = s[j]
  BY <1>1, <1>3
<1>5. ASSUME NEW j \in 1..Len(t) PROVE (s \o t)[Len(s) + j] = t[j]
  <2>1. Len(s) + j \in 1 .. Len(s) + Len(t) /\ ~ (Len(s) + j <= Len(s)) /\ Len(s) + j - Len(s) = j
    BY <1>1
  <2>. QED  BY <1>3, <2>1
<1>. QED  BY <1>2, <1>4, <1>5 DEF IsJoined

\* A sequence over a set is one over a greater set.
LEMMA SeqWithin ==
    ASSUME NEW S, NEW T, S \subseteq T, NEW s \in Seq(S)
    PROVE  s \in Seq(T)
<1>1. s \in [1..Len(s) -> S] /\ Len(s) \in Nat
  BY LenProperties
<1>2. s \in [1..Len(s) -> T]
  BY <1>1
<1>. QED  BY <1>1, <1>2, SeqDef

\* A sequence that is not empty is its first element and what comes behind it.
LEMMA HeadAndTail ==
    ASSUME NEW S, NEW s \in Seq(S), s # <<>>
    PROVE  /\ Head(s) \in S /\ Tail(s) \in Seq(S)
           /\ Len(s) >= 1 /\ Head(s) = s[1]
           /\ Len(Tail(s)) = Len(s) - 1
           /\ \A i \in 1 .. Len(s) - 1 : Tail(s)[i] = s[i + 1]
           /\ Range(s) = {Head(s)} \cup Range(Tail(s))
<1>. DEFINE n == Len(s)
            t == Tail(s)
<1>1. /\ n \in Nat /\ DOMAIN s = 1..n /\ n # 0
      /\ Head(s) \in S /\ t \in Seq(S) /\ Len(t) = n - 1 /\ Head(s) = s[1]
      /\ \A i \in 1..Len(t) : t[i] = s[i + 1]
  BY HeadTailProperties, LenProperties, EmptySeq
<1>2. n >= 1
  BY <1>1
<1>3. Sequence(s) /\ Sequence(t)
  BY <1>1, SequenceOf
<1>. HIDE DEF t, n
<1>4. Range(s) = {s[1]} \cup Range(t)
  <2>1. ASSUME NEW e \in Range(s) PROVE e \in {s[1]} \cup Range(t)
    <3>1. PICK i \in 1..n : s[i] = e
      BY <1>3, <2>1, InRange DEF n
    <3>2. CASE i = 1
      BY <3>1, <3>2
    <3>3. CASE i # 1
      <4>1. i - 1 \in 1..Len(t) /\ (i - 1) + 1 = i
        BY <1>1, <1>2, <3>3
      <4>2. t[i - 1] = e
        BY <1>1, <3>1, <4>1
      <4>. QED  BY <1>3, <4>1, <4>2, InRange
    <3>. QED  BY <3>2, <3>3
  <2>2. s[1] \in Range(s)
    <3>1. 1 \in 1..n
      BY <1>1, <1>2
    <3>. QED  BY <1>3, <3>1, InRange DEF n
  <2>3. ASSUME NEW e \in Range(t) PROVE e \in Range(s)
    <3>1. PICK i \in 1..Len(t) : t[i] = e
      BY <1>3, <2>3, InRange
    <3>2. i + 1 \in 1..n /\ s[i + 1] = e
      BY <1>1, <1>2, <3>1
    <3>. QED  BY <1>3, <3>2, InRange DEF n
  <2>. QED  BY <2>1, <2>2, <2>3
<1>. QED  BY <1>1, <1>2, <1>4 DEF t, n

\* What is in two sequences, one behind the other.
LEMMA RangeJoined ==
    ASSUME NEW S, NEW s \in Seq(S), NEW t \in Seq(S)
    PROVE  s \o t \in Seq(S) /\ Range(s \o t) = Range(s) \cup Range(t)
<1>. DEFINE u == s \o t
<1>1. u \in Seq(S) /\ IsJoined(u, s, t)
  BY JoinedAt
<1>2. Sequence(s) /\ Sequence(t) /\ Sequence(u) /\ Len(s) \in Nat /\ Len(t) \in Nat
  BY <1>1, SequenceOf, LenProperties
<1>. HIDE DEF u
<1>3. ASSUME NEW e \in Range(u) PROVE e \in Range(s) \cup Range(t)
  <2>1. PICK i \in 1..Len(u) : u[i] = e
    BY <1>2, <1>3, InRange
  <2>2. CASE i <= Len(s)
    <3>1. i \in 1..Len(s) /\ s[i] = e
      BY <1>1, <1>2, <2>1, <2>2 DEF IsJoined
    <3>. QED  BY <1>2, <3>1, InRange
  <2>3. CASE ~ (i <= Len(s))
    <3>1. i - Len(s) \in 1..Len(t) /\ Len(s) + (i - Len(s)) = i
      BY <1>1, <1>2, <2>3 DEF IsJoined
    <3>2. t[i - Len(s)] = e
      BY <1>1, <2>1, <3>1 DEF IsJoined
    <3>. QED  BY <1>2, <3>1, <3>2, InRange
  <2>. QED  BY <2>2, <2>3
<1>4. ASSUME NEW e \in Range(s) PROVE e \in Range(u)
  <2>1. PICK i \in 1..Len(s) : s[i] = e
    BY <1>2, <1>4, InRange
  <2>2. i \in 1..Len(u) /\ u[i] = e
    BY <1>1, <1>2, <2>1 DEF IsJoined
  <2>. QED  BY <1>2, <2>2, InRange
<1>5. ASSUME NEW e \in Range(t) PROVE e \in Range(u)
  <2>1. PICK i \in 1..Len(t) : t[i] = e
    BY <1>2, <1>5, InRange
  <2>2. Len(s) + i \in 1..Len(u) /\ u[Len(s) + i] = e
    BY <1>1, <1>2, <2>1 DEF IsJoined
  <2>. QED  BY <1>2, <2>2, InRange
<1>. QED  BY <1>1, <1>3, <1>4, <1>5 DEF u

\* What is in a sequence with one more element.
LEMMA RangeAppended ==
    ASSUME NEW s, Sequence(s), NEW e
    PROVE  /\ Range(Append(s, e)) = Range(s) \cup {e}
           /\ Append(s, e)[Len(s) + 1] = e
<1>. DEFINE t == Append(s, e)  n == Len(s)
<1>1. n \in Nat /\ Sequence(t) /\ Len(t) = n + 1 /\ t[n + 1] = e /\ \A i \in 1..n : t[i] = s[i]
  BY ElementAppended, SequenceProperties, AppendProperties DEF Sequence
<1>. HIDE DEF t
<1>2. \A i \in 1..n + 1 : i \in 1..n \/ i = n + 1
  BY <1>1
<1>3. ASSUME NEW x PROVE x \in Range(t) <=> x \in Range(s) \cup {e}
  <2>1. x \in Range(t) <=> \E i \in 1..n + 1 : t[i] = x
    BY <1>1, InRange
  <2>2. x \in Range(s) <=> \E i \in 1..n : s[i] = x
    BY InRange
  <2>3. n + 1 \in 1..n + 1 /\ \A i \in 1..n : i \in 1..n + 1
    BY <1>1
  <2>. HIDE DEF n
  <2>. QED  BY <1>1, <1>2, <2>1, <2>2, <2>3
<1>. QED  BY <1>1, <1>3 DEF t

=============================================================================
