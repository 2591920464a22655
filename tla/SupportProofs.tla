--------------------------- MODULE SupportProofs ----------------------------
(***************************************************************************)
(* The proofs about the small stateful parts, each for all values of its   *)
(* constants: the hash table implements a map and a walk over it is        *)
(* complete, a text of the pool has one object and probing for it ends,    *)
(* what a stack trace shows is under way, and integers and texts are read  *)
(* back as they were written.                                              *)
(***************************************************************************)
EXTENDS HashTable, StringPool, TraceStack, Codec, SharedLemmas, SequenceTheorems, TLAPS

-----------------------------------------------------------------------------
(* The hash table: what a table is, and the invariant of its growth.       *)

Distinct(chain) == \A i, j \in 1 .. Len(chain) : chain[i].key = chain[j].key => i = j

(* A table: every entry is in the chain of its hash, no key is there twice. *)
Sound(es, c) ==
    /\ c \in Nat \ {0}
    /\ es \in [0 .. c - 1 -> Seq(Entries)]
    /\ \A b \in 0 .. c - 1 :
          Distinct(es[b]) /\ \A j \in 1 .. Len(es[b]) : Home(es[b][j].key, c) = b

PutInto(es, c, key, value) == [es EXCEPT ![Home(key, c)] = PutRaw(@, key, value)]

Moved(key) ==
    LET b == Home(key, capacity)
    IN  /\ Has(entries[b], key)
        /\ b < bucket \/ (b = bucket /\ Position(entries[b], key) < pos)

(* Half way through lshash_rehash the new table holds what was moved.      *)
Moving ==
    /\ Sound(fresh, width)
    /\ bucket \in 0 .. capacity /\ pos \in Nat \ {0}
    /\ bucket = capacity => pos = 1
    /\ \A key \in Keys :
          Find(fresh[Home(key, width)], key)
            = IF Moved(key) THEN Find(entries[Home(key, capacity)], key) ELSE <<>>

TableInv ==
    /\ Sound(entries, capacity)
    /\ size \in Nat /\ count \in Nat
    /\ op = Idle \/ op \in Calls
    /\ op # Idle /\ op.call = "rehash" => Moving
    /\ op = Idle \/ op.call = "insert" => bucket = 0 /\ pos = 1

-----------------------------------------------------------------------------
(* Chains.                                                                 *)

LEMMA HomeInTable ==
    ASSUME NEW key \in Keys, NEW c \in Nat \ {0}
    PROVE  Home(key, c) \in 0 .. c - 1
  <1>1. Hash[key] \in Nat
    BY TableAssumption
  <1>2. QED
    BY <1>1 DEF Home

LEMMA PositionOf ==
    ASSUME NEW chain \in Seq(Entries), Distinct(chain), NEW j \in 1 .. Len(chain)
    PROVE  /\ Has(chain, chain[j].key)
           /\ Position(chain, chain[j].key) = j
           /\ Find(chain, chain[j].key) = <<chain[j].value>>
  <1>1. \A i \in 1 .. j - 1 : chain[i].key # chain[j].key
    BY DEF Distinct
  <1>2. \A i \in 1 .. Len(chain) : chain[i].key = chain[j].key => i = j
    BY DEF Distinct
  <1>3. Position(chain, chain[j].key) = j
    BY <1>1, <1>2 DEF Position
  <1>4. Has(chain, chain[j].key)
    BY DEF Has
  <1>5. QED
    BY <1>3, <1>4 DEF Find

LEMMA FindAbsent ==
    ASSUME NEW chain, NEW key, ~Has(chain, key)
    PROVE  Find(chain, key) = <<>>
  BY DEF Find

(* What a chain finds is nothing just when it does not have the key.       *)
LEMMA FindPresent ==
    ASSUME NEW chain, NEW key
    PROVE  Has(chain, key) <=> Find(chain, key) # <<>>
  BY DEF Find

LEMMA PutChain ==
    ASSUME NEW chain \in Seq(Entries), Distinct(chain), NEW key \in Keys, NEW value \in Values
    PROVE  /\ PutRaw(chain, key, value) \in Seq(Entries)
           /\ Distinct(PutRaw(chain, key, value))
           /\ \A j \in 1 .. Len(PutRaw(chain, key, value)) :
                 \/ PutRaw(chain, key, value)[j].key = key
                 \/ \E i \in 1 .. Len(chain) : chain[i].key = PutRaw(chain, key, value)[j].key
           /\ Find(PutRaw(chain, key, value), key) = <<value>>
           /\ \A k \in Keys : k # key => Find(PutRaw(chain, key, value), k) = Find(chain, k)
  <1> DEFINE e == [key |-> key, value |-> value]
             put == PutRaw(chain, key, value)
  <1>1. e \in Entries /\ e.key = key /\ e.value = value
    BY DEF Entries
  <1>2. CASE Has(chain, key)
    <2>1. PICK p \in 1 .. Len(chain) : chain[p].key = key
      BY <1>2 DEF Has
    <2>2. Position(chain, key) = p
      BY <2>1, PositionOf
    <2>3. put = [chain EXCEPT ![p] = e]
      BY <1>2, <2>2 DEF PutRaw
    <2> HIDE DEF put, e
    <2>4. put \in Seq(Entries) /\ Len(put) = Len(chain)
      BY <2>3, <1>1
    <2>5. \A j \in 1 .. Len(chain) : put[j] = IF j = p THEN e ELSE chain[j]
      BY <2>3
    <2>6. \A j \in 1 .. Len(chain) : put[j].key = chain[j].key
      BY <2>5, <2>1, <1>1
    <2>7. Distinct(put)
      BY <2>6, <2>4 DEF Distinct
    <2>8. Find(put, key) = <<value>>
      <3>1. put[p].key = key /\ put[p].value = value
        BY <2>5, <1>1
      <3>2. QED
        BY <3>1, <2>4, <2>7, PositionOf
    <2>9. ASSUME NEW k \in Keys, k # key PROVE Find(put, k) = Find(chain, k)
      <3>1. CASE Has(chain, k)
        <4>1. PICK q \in 1 .. Len(chain) : chain[q].key = k
          BY <3>1 DEF Has
        <4>2. q # p
          BY <4>1, <2>1, <2>9
        <4>3. put[q] = chain[q]
          BY <4>2, <2>5
        <4>4. Find(put, put[q].key) = <<put[q].value>>
          BY <2>4, <2>7, PositionOf
        <4>5. Find(chain, chain[q].key) = <<chain[q].value>>
          BY PositionOf
        <4>6. QED
          BY <4>1, <4>3, <4>4, <4>5
      <3>2. CASE ~Has(chain, k)
        <4>1. ~Has(put, k)
          BY <3>2, <2>6, <2>4 DEF Has
        <4>2. QED
          BY <4>1, <3>2, FindAbsent
      <3>3. QED
        BY <3>1, <3>2
    <2>10. QED
      BY <2>4, <2>6, <2>7, <2>8, <2>9 DEF put
  <1>3. CASE ~Has(chain, key)
    <2>1. put = Append(chain, e)
      BY <1>3 DEF PutRaw
    <2> HIDE DEF put, e
    <2>2. put \in Seq(Entries) /\ Len(put) = Len(chain) + 1
      BY <2>1, <1>1
    <2>3. put[Len(put)] = e /\ \A j \in 1 .. Len(chain) : put[j] = chain[j]
      BY <2>1, <1>1, <2>2
    <2>4. \A j \in 1 .. Len(chain) : chain[j].key # key
      BY <1>3 DEF Has
    <2>5. Distinct(put)
      BY <2>2, <2>3, <2>4, <1>1 DEF Distinct
    <2>6. Find(put, key) = <<value>>
      <3>1. Len(put) \in 1 .. Len(put)
        BY <2>2
      <3>2. QED
        BY <3>1, <2>2, <2>3, <2>5, <1>1, PositionOf
    <2>7. ASSUME NEW k \in Keys, k # key PROVE Find(put, k) = Find(chain, k)
      <3>1. CASE Has(chain, k)
        <4>1. PICK q \in 1 .. Len(chain) : chain[q].key = k
          BY <3>1 DEF Has
        <4>2. q \in 1 .. Len(put) /\ put[q] = chain[q]
          BY <2>2, <2>3
        <4>3. Find(put, put[q].key) = <<put[q].value>>
          BY <4>2, <2>2, <2>5, PositionOf
        <4>4. Find(chain, chain[q].key) = <<chain[q].value>>
          BY PositionOf
        <4>5. QED
          BY <4>1, <4>2, <4>3, <4>4
      <3>2. CASE ~Has(chain, k)
        <4>1. ~Has(put, k)
          BY <3>2, <2>2, <2>3, <2>7, <1>1 DEF Has
        <4>2. QED
          BY <4>1, <3>2, FindAbsent
      <3>3. QED
        BY <3>1, <3>2
    <2>8. \A j \in 1 .. Len(put) : put[j].key = key \/ \E i \in 1 .. Len(chain) : chain[i].key = put[j].key
      BY <2>2, <2>3, <1>1
    <2>9. QED
      BY <2>2, <2>5, <2>6, <2>7, <2>8 DEF put
  <1>4. QED
    BY <1>2, <1>3

(* One entry put into a table: the table stays sound, that key is found    *)
(* with that value, and every other one as before.                         *)
LEMMA PutIntoTable ==
    ASSUME NEW es, NEW c, Sound(es, c), NEW key \in Keys, NEW value \in Values
    PROVE  LET put == PutInto(es, c, key, value)
           IN  /\ Sound(put, c)
               /\ \A k \in Keys : Find(put[Home(k, c)], k)
                     = IF k = key THEN <<value>> ELSE Find(es[Home(k, c)], k)
  <1> DEFINE b == Home(key, c)
             put == PutInto(es, c, key, value)
  <1>1. c \in Nat \ {0} /\ es \in [0 .. c - 1 -> Seq(Entries)]
    BY DEF Sound
  <1>2. b \in 0 .. c - 1
    BY <1>1, HomeInTable
  <1>3. es[b] \in Seq(Entries) /\ Distinct(es[b])
    BY <1>1, <1>2 DEF Sound
  <1> DEFINE chain == PutRaw(es[b], key, value)
  <1>4. /\ chain \in Seq(Entries)
        /\ Distinct(chain)
        /\ \A j \in 1 .. Len(chain) :
              chain[j].key = key \/ \E i \in 1 .. Len(es[b]) : es[b][i].key = chain[j].key
        /\ Find(chain, key) = <<value>>
        /\ \A k \in Keys : k # key => Find(chain, k) = Find(es[b], k)
    BY <1>3, PutChain
  <1>5. \A j \in 1 .. Len(chain) : Home(chain[j].key, c) = b
    <2>1. \A i \in 1 .. Len(es[b]) : Home(es[b][i].key, c) = b
      BY <1>2 DEF Sound
    <2> HIDE DEF chain
    <2>2. TAKE j \in 1 .. Len(chain)
    <2>3. CASE chain[j].key = key
      BY <2>3
    <2>4. CASE \E i \in 1 .. Len(es[b]) : es[b][i].key = chain[j].key
      <3>1. PICK i \in 1 .. Len(es[b]) : es[b][i].key = chain[j].key
        BY <2>4
      <3>2. QED
        BY <3>1, <2>1
    <2>5. QED
      BY <2>3, <2>4, <1>4
  <1>6. \A d \in 0 .. c - 1 : put[d] = IF d = b THEN chain ELSE es[d]
    BY <1>1, <1>2 DEF PutInto
  <1>7. put \in [0 .. c - 1 -> Seq(Entries)]
    BY <1>1, <1>4 DEF PutInto
  <1> HIDE DEF chain, put
  <1>8. Sound(put, c)
    <2>1. ASSUME NEW d \in 0 .. c - 1
          PROVE  Distinct(put[d]) /\ \A j \in 1 .. Len(put[d]) : Home(put[d][j].key, c) = d
      <3>1. CASE d = b
        BY <3>1, <1>4, <1>5, <1>6
      <3>2. CASE d # b
        BY <3>2, <1>6 DEF Sound
      <3>3. QED
        BY <3>1, <3>2
    <2>2. QED
      BY <1>1, <1>7, <2>1 DEF Sound
  <1>9. Find(put[Home(key, c)], key) = <<value>>
    BY <1>2, <1>4, <1>6
  <1>10. ASSUME NEW k \in Keys, k # key
         PROVE  Find(put[Home(k, c)], k) = Find(es[Home(k, c)], k)
    <2>1. Home(k, c) \in 0 .. c - 1
      BY <1>1, HomeInTable
    <2>2. CASE Home(k, c) = b
      BY <2>2, <2>1, <1>4, <1>6, <1>10
    <2>3. CASE Home(k, c) # b
      BY <2>3, <2>1, <1>6
    <2>4. QED
      BY <2>2, <2>3
  <1>11. QED
    BY <1>8, <1>9, <1>10 DEF put

LEMMA EmptySound ==
    ASSUME NEW c \in Nat \ {0}
    PROVE  /\ Sound(Empty(c), c)
           /\ \A key \in Keys : Find(Empty(c)[Home(key, c)], key) = <<>>
  <1>1. \A b \in 0 .. c - 1 : Empty(c)[b] = <<>>
    BY DEF Empty
  <1>2. Empty(c) \in [0 .. c - 1 -> Seq(Entries)]
    BY DEF Empty
  <1>3. \A b \in 0 .. c - 1 : Len(Empty(c)[b]) = 0
    BY <1>1
  <1>4. Sound(Empty(c), c)
    <2>1. \A b \in 0 .. c - 1 : 1 .. Len(Empty(c)[b]) = {}
      BY <1>3
    <2>2. QED
      BY <1>2, <2>1 DEF Sound, Distinct
  <1>5. ASSUME NEW key \in Keys PROVE Find(Empty(c)[Home(key, c)], key) = <<>>
    <2>1. 1 .. Len(Empty(c)[Home(key, c)]) = {}
      BY <1>3, HomeInTable
    <2>2. ~Has(Empty(c)[Home(key, c)], key)
      BY <2>1 DEF Has
    <2>3. QED
      BY <2>2, FindAbsent
  <1>6. QED
    BY <1>4, <1>5

(* The entry at a place of a sound table is what looking for its key finds. *)
LEMMA EntryFound ==
    ASSUME NEW es, NEW c, Sound(es, c), NEW b \in 0 .. c - 1, NEW j \in 1 .. Len(es[b])
    PROVE  /\ es[b][j] \in Entries
           /\ Home(es[b][j].key, c) = b
           /\ Position(es[b], es[b][j].key) = j
           /\ Has(es[b], es[b][j].key)
           /\ Find(es[b], es[b][j].key) = <<es[b][j].value>>
  <1>1. es[b] \in Seq(Entries) /\ Distinct(es[b])
    BY DEF Sound
  <1>2. es[b][j] \in Entries
    BY <1>1
  <1>3. Home(es[b][j].key, c) = b
    BY DEF Sound
  <1>4. QED
    BY <1>1, <1>2, <1>3, PositionOf

(* Where a key is that a sound table has.                                  *)
LEMMA KeyPlace ==
    ASSUME NEW es, NEW c, Sound(es, c), NEW key \in Keys, Has(es[Home(key, c)], key)
    PROVE  LET b == Home(key, c)
               p == Position(es[b], key)
           IN  b \in 0 .. c - 1 /\ p \in 1 .. Len(es[b]) /\ es[b][p].key = key
  <1> DEFINE b == Home(key, c)
  <1>1. c \in Nat \ {0}
    BY DEF Sound
  <1>2. b \in 0 .. c - 1
    BY <1>1, HomeInTable
  <1>3. PICK j \in 1 .. Len(es[b]) : es[b][j].key = key
    BY DEF Has
  <1>4. Position(es[b], key) = j
    BY <1>2, <1>3, EntryFound
  <1>5. QED
    BY <1>2, <1>3, <1>4

-----------------------------------------------------------------------------
(* The invariant holds at the start and through every action.              *)

LEMMA InitTable ==
    ASSUME Init
    PROVE  TableInv
  <1>1. FirstCapacity \in Nat \ {0}
    BY TableAssumption
  <1>2. Sound(entries, capacity)
    BY <1>1, EmptySound DEF Init
  <1>3. op = Idle /\ bucket = 0 /\ pos = 1 /\ size = 0 /\ count = 0
    BY DEF Init
  <1>4. QED
    BY <1>2, <1>3 DEF TableInv

LEMMA CallKinds ==
    ASSUME NEW key \in Keys, NEW value \in Values, NEW call \in {"rehash", "insert"}
    PROVE  /\ [call |-> call, key |-> key, value |-> value] \in Calls
           /\ [call |-> call, key |-> key, value |-> value] # Idle
  BY DEF Calls, Idle

(* A put that starts to move entries has moved none.                       *)
LEMMA PutTableTable ==
    ASSUME NEW key \in Keys, NEW value \in Values, NEW c \in Nat \ {0}, NEW n \in Nat,
           PutTable(key, value, c, n), bucket = 0, pos = 1, count \in Nat,
           Sound(entries', c)
    PROVE  TableInv'
  <1>1. capacity' = c /\ size' = n /\ count' = count
    BY DEF PutTable, new
  <1>2. CASE 4 * n >= 3 * c
    <2>1. /\ op' = [call |-> "rehash", key |-> key, value |-> value]
          /\ width' = Wider(c, n) /\ fresh' = Empty(Wider(c, n))
          /\ bucket' = 0 /\ pos' = 1
      BY <1>2 DEF PutTable
    <2>2. Wider(c, n) \in Nat \ {0}
      BY DEF Wider
    <2>3. op' \in Calls /\ op' # Idle /\ op'.call = "rehash"
      BY <2>1, CallKinds
    <2>4. Sound(fresh', width') /\ \A k \in Keys : Find(fresh'[Home(k, width')], k) = <<>>
      BY <2>1, <2>2, EmptySound
    <2>5. ASSUME NEW k \in Keys PROVE ~Moved(k)'
      <3>1. CASE ~Has(entries'[Home(k, c)], k)
        BY <3>1, <1>1 DEF Moved
      <3>2. CASE Has(entries'[Home(k, c)], k)
        <4>1. /\ Home(k, c) \in 0 .. c - 1
              /\ Position(entries'[Home(k, c)], k) \in 1 .. Len(entries'[Home(k, c)])
          BY <3>2, KeyPlace
        <4>2. ~(Home(k, c) < 0) /\ ~(Position(entries'[Home(k, c)], k) < 1)
          BY <4>1
        <4>3. QED
          BY <4>2, <2>1, <1>1 DEF Moved
      <3>3. QED
        BY <3>1, <3>2
    <2>6. Moving'
      BY <1>1, <2>1, <2>4, <2>5 DEF Moving
    <2>7. QED
      BY <1>1, <2>3, <2>6 DEF TableInv, Idle
  <1>3. CASE ~(4 * n >= 3 * c)
    <2>1. /\ op' = [call |-> "insert", key |-> key, value |-> value]
          /\ bucket' = 0 /\ pos' = 1
      BY <1>3 DEF PutTable, new
    <2>2. op' \in Calls /\ op' # Idle /\ op'.call = "insert"
      BY <2>1, CallKinds
    <2>3. QED
      BY <1>1, <2>1, <2>2 DEF TableInv
  <1>4. QED
    BY <1>2, <1>3

LEMMA MoveTable ==
    ASSUME TableInv, Move
    PROVE  TableInv'
  <1> DEFINE e == entries[bucket][pos]
             b == Home(e.key, width)
  <1>1. /\ op # Idle /\ op.call = "rehash" /\ bucket < capacity /\ pos <= Len(entries[bucket])
        /\ fresh' = [fresh EXCEPT ![b] = PutRaw(@, e.key, e.value)]
        /\ count' = IF Has(fresh[b], e.key) THEN count ELSE count + 1
        /\ pos' = pos + 1
        /\ UNCHANGED <<entries, size, capacity, op, width, bucket>>
    BY DEF Move
  <1>2. Moving /\ Sound(entries, capacity) /\ count \in Nat
    BY <1>1 DEF TableInv
  <1>3. /\ Sound(fresh, width) /\ bucket \in 0 .. capacity /\ pos \in Nat \ {0}
        /\ capacity \in Nat \ {0}
    BY <1>2 DEF Moving, Sound
  <1>4. bucket \in 0 .. capacity - 1 /\ pos \in 1 .. Len(entries[bucket])
    <2>1. bucket \in 0 .. capacity - 1
      BY <1>1, <1>3
    <2>2. entries[bucket] \in Seq(Entries)
      BY <2>1, <1>2 DEF Sound
    <2>3. QED
      BY <2>1, <2>2, <1>1, <1>3
  <1>5. /\ e \in Entries
        /\ Home(e.key, capacity) = bucket
        /\ Position(entries[bucket], e.key) = pos
        /\ Has(entries[bucket], e.key)
        /\ Find(entries[bucket], e.key) = <<e.value>>
    BY <1>2, <1>4, EntryFound
  <1>6. e.key \in Keys /\ e.value \in Values
    BY <1>5 DEF Entries
  <1> HIDE DEF e
  <1>7. /\ Sound(fresh', width)
        /\ Find(fresh'[Home(e.key, width)], e.key) = <<e.value>>
        /\ \A k \in Keys : k # e.key =>
              Find(fresh'[Home(k, width)], k) = Find(fresh[Home(k, width)], k)
    <2>1. fresh' = PutInto(fresh, width, e.key, e.value)
      BY <1>1 DEF PutInto
    <2> DEFINE put == PutInto(fresh, width, e.key, e.value)
    <2>2. /\ Sound(put, width)
          /\ \A k \in Keys : Find(put[Home(k, width)], k)
                = IF k = e.key THEN <<e.value>> ELSE Find(fresh[Home(k, width)], k)
      BY <1>3, <1>6, PutIntoTable
    <2> HIDE DEF put
    <2>3. fresh' = put
      BY <2>1 DEF put
    <2>4. QED
      BY <2>2, <2>3, <1>6
  <1>8. ASSUME NEW k \in Keys
        PROVE  Find(fresh'[Home(k, width')], k)
                 = IF Moved(k)' THEN Find(entries'[Home(k, capacity')], k) ELSE <<>>
    <2>1. CASE k = e.key
      <3>1. Moved(k)'
        BY <2>1, <1>1, <1>3, <1>5 DEF Moved
      <3>2. QED
        BY <3>1, <2>1, <1>1, <1>5, <1>7
    <2>2. CASE k # e.key
      <3>1. Moved(k)' <=> Moved(k)
        <4>1. CASE ~Has(entries[Home(k, capacity)], k)
          BY <4>1, <1>1 DEF Moved
        <4>2. CASE Has(entries[Home(k, capacity)], k)
          <5> DEFINE h == Home(k, capacity)
                     p == Position(entries[h], k)
          <5>1. h \in 0 .. capacity - 1 /\ p \in 1 .. Len(entries[h]) /\ entries[h][p].key = k
            BY <4>2, <1>2, KeyPlace
          <5>2. h = bucket => p # pos
            BY <5>1, <2>2 DEF e
          <5>3. h = bucket => (p < pos + 1 <=> p < pos)
            BY <5>1, <5>2, <1>3
          <5> HIDE DEF h, p
          <5>4. Moved(k) <=> Has(entries[h], k) /\ (h < bucket \/ (h = bucket /\ p < pos))
            BY DEF Moved, h, p
          <5>5. Moved(k)' <=> Has(entries[h], k) /\ (h < bucket \/ (h = bucket /\ p < pos + 1))
            BY <1>1 DEF Moved, h, p
          <5>6. QED
            BY <5>3, <5>4, <5>5
        <4>3. QED
          BY <4>1, <4>2
      <3>2. Find(fresh[Home(k, width)], k)
              = IF Moved(k) THEN Find(entries[Home(k, capacity)], k) ELSE <<>>
        BY <1>2 DEF Moving
      <3>3. QED
        BY <3>1, <3>2, <2>2, <1>1, <1>7
    <2>3. QED
      BY <2>1, <2>2
  <1>9. Moving'
    <2>1. bucket' \in 0 .. capacity' /\ pos' \in Nat \ {0} /\ bucket' # capacity'
      BY <1>1, <1>3
    <2>2. QED
      BY <2>1, <1>1, <1>7, <1>8 DEF Moving
  <1>10. count' \in Nat
    BY <1>1, <1>2
  <1>11. QED
    BY <1>1, <1>2, <1>9, <1>10 DEF TableInv

LEMMA NextBucketTable ==
    ASSUME TableInv, NextBucket
    PROVE  TableInv'
  <1>1. /\ op # Idle /\ op.call = "rehash" /\ bucket < capacity /\ pos > Len(entries[bucket])
        /\ bucket' = bucket + 1 /\ pos' = 1
        /\ UNCHANGED <<entries, size, capacity, op, fresh, count, width>>
    BY DEF NextBucket
  <1>2. Moving /\ Sound(entries, capacity)
    BY <1>1 DEF TableInv
  <1>3. /\ Sound(fresh, width) /\ bucket \in 0 .. capacity /\ pos \in Nat \ {0}
        /\ capacity \in Nat \ {0}
    BY <1>2 DEF Moving, Sound
  <1>4. ASSUME NEW k \in Keys PROVE Moved(k)' <=> Moved(k)
    <2>1. CASE ~Has(entries[Home(k, capacity)], k)
      BY <2>1, <1>1 DEF Moved
    <2>2. CASE Has(entries[Home(k, capacity)], k)
      <3> DEFINE h == Home(k, capacity)
                 p == Position(entries[h], k)
      <3>1. h \in 0 .. capacity - 1 /\ p \in 1 .. Len(entries[h])
        BY <2>2, <1>2, KeyPlace
      <3>2. entries[h] \in Seq(Entries)
        BY <3>1, <1>2 DEF Sound
      <3>3. h = bucket => p < pos
        <4>1. Len(entries[h]) \in Nat
          BY <3>2
        <4>2. QED
          BY <4>1, <3>1, <1>1, <1>3
      <3>4. ~(p < 1)
        BY <3>1
      <3> HIDE DEF h, p
      <3>5. Moved(k) <=> Has(entries[h], k) /\ (h < bucket \/ (h = bucket /\ p < pos))
        BY DEF Moved, h, p
      <3>6. Moved(k)' <=> Has(entries[h], k) /\ (h < bucket + 1 \/ (h = bucket + 1 /\ p < 1))
        BY <1>1 DEF Moved, h, p
      <3>7. h < bucket + 1 <=> h < bucket \/ h = bucket
        BY <3>1, <1>3
      <3>8. QED
        BY <3>3, <3>4, <3>5, <3>6, <3>7
    <2>3. QED
      BY <2>1, <2>2
  <1>5. Moving'
    <2>1. bucket' \in 0 .. capacity' /\ pos' = 1
      BY <1>1, <1>3
    <2>2. \A k \in Keys :
            Find(fresh'[Home(k, width')], k)
              = IF Moved(k)' THEN Find(entries'[Home(k, capacity')], k) ELSE <<>>
      BY <1>1, <1>2, <1>4 DEF Moving
    <2>3. QED
      BY <2>1, <2>2, <1>1, <1>3 DEF Moving
  <1>6. QED
    BY <1>1, <1>2, <1>5 DEF TableInv

LEMMA RehashedTable ==
    ASSUME TableInv, Rehashed
    PROVE  TableInv'
  <1>1. /\ op # Idle /\ op.call = "rehash" /\ bucket = capacity
        /\ entries' = fresh /\ size' = count /\ capacity' = width
        /\ op' = [op EXCEPT !.call = "insert"]
        /\ count' = 0 /\ bucket' = 0 /\ pos' = 1
    BY DEF Rehashed, NoRehash
  <1>2. Moving /\ op \in Calls /\ count \in Nat
    BY <1>1 DEF TableInv
  <1>3. Sound(entries', capacity')
    BY <1>1, <1>2 DEF Moving
  <1>4. op' \in Calls /\ op'.call = "insert" /\ op' # Idle
    BY <1>1, <1>2 DEF Calls, Idle
  <1>5. QED
    BY <1>1, <1>2, <1>3, <1>4 DEF TableInv

LEMMA InsertTable ==
    ASSUME TableInv, Insert
    PROVE  TableInv'
  <1> DEFINE b == Home(op.key, capacity)
  <1>1. /\ op # Idle /\ op.call = "insert"
        /\ entries' = [entries EXCEPT ![b] = PutRaw(@, op.key, op.value)]
        /\ size' = IF Has(entries[b], op.key) THEN size ELSE size + 1
        /\ op' = Idle
        /\ UNCHANGED <<capacity, count, bucket, pos>>
    BY DEF Insert, new
  <1>2. op.key \in Keys /\ op.value \in Values
    BY <1>1 DEF TableInv, Calls
  <1>3. Sound(entries', capacity)
    <2>1. entries' = PutInto(entries, capacity, op.key, op.value)
      BY <1>1 DEF PutInto
    <2>2. QED
      BY <2>1, <1>2, PutIntoTable DEF TableInv
  <1>4. bucket = 0 /\ pos = 1 /\ size' \in Nat /\ count' \in Nat
    BY <1>1 DEF TableInv
  <1>5. QED
    BY <1>1, <1>3, <1>4 DEF TableInv

(* The invariant of the table, for all keys, hashes and capacities.        *)
LEMMA NextTable ==
    ASSUME TableInv, [Next]_vars
    PROVE  TableInv'
  <1>1. CASE Move
    BY <1>1, MoveTable
  <1>2. CASE NextBucket
    BY <1>2, NextBucketTable
  <1>3. CASE Rehashed
    BY <1>3, RehashedTable
  <1>4. CASE Insert
    BY <1>4, InsertTable
  <1>5. CASE \E key \in Keys : Get(key)
    <2>1. UNCHANGED <<entries, size, capacity, op, fresh, count, width, bucket, pos>>
      BY <1>5 DEF Get, new
    <2>2. QED
      BY <2>1 DEF TableInv, Moving, Moved
  <1>6. ASSUME NEW key \in Keys, NEW value \in Values, Put(key, value)
        PROVE  TableInv'
    <2>1. op = Idle /\ PutTable(key, value, capacity, size) /\ entries' = entries
      BY <1>6 DEF Put
    <2>2. /\ Sound(entries, capacity) /\ size \in Nat /\ count \in Nat
          /\ bucket = 0 /\ pos = 1
      BY <2>1 DEF TableInv
    <2>3. capacity \in Nat \ {0}
      BY <2>2 DEF Sound
    <2>4. QED
      BY <2>1, <2>2, <2>3, PutTableTable
  <1>7. ASSUME NEW key \in Keys, NEW value \in Values, PutCorrupt(key, value)
        PROVE  TableInv'
    <2>1. op = Idle /\ PutTable(key, value, FirstCapacity, 0) /\ entries' = Empty(FirstCapacity)
      BY <1>7 DEF PutCorrupt
    <2>2. count \in Nat /\ bucket = 0 /\ pos = 1
      BY <2>1 DEF TableInv
    <2>3. FirstCapacity \in Nat \ {0}
      BY TableAssumption
    <2>4. Sound(entries', FirstCapacity)
      BY <2>1, <2>3, EmptySound
    <2>5. 0 \in Nat
      OBVIOUS
    <2>6. QED
      BY <2>1, <2>2, <2>3, <2>4, <2>5, PutTableTable
  <1>8. CASE UNCHANGED vars
    <2>1. UNCHANGED <<entries, size, capacity, op, fresh, count, width, bucket, pos>>
      BY <1>8 DEF vars, new
    <2>2. QED
      BY <2>1 DEF TableInv, Moving, Moved
  <1>9. QED
    BY <1>1, <1>2, <1>3, <1>4, <1>5, <1>6, <1>7, <1>8 DEF Next, Continue

-----------------------------------------------------------------------------
(* The table as a map.                                                     *)

FoundIn(key) == Find(entries[Home(key, capacity)], key)

LEMMA LookupFinds ==
    ASSUME NEW key \in Keys
    PROVE  Map!Lookup(key) = FoundIn(key)
  <1> DEFINE chain == entries[Home(key, capacity)]
  <1>1. CASE Has(chain, key)
    <2>1. key \in DOMAIN Contents /\ Contents[key] = Find(chain, key)[1]
      BY <1>1 DEF Contents
    <2>2. Find(chain, key) = <<Find(chain, key)[1]>>
      BY <1>1 DEF Find
    <2>3. QED
      BY <2>1, <2>2 DEF Map!Lookup, FoundIn
  <1>2. CASE ~Has(chain, key)
    <2>1. key \notin DOMAIN Contents
      BY <1>2 DEF Contents
    <2>2. QED
      BY <2>1, <1>2, FindAbsent DEF Map!Lookup, FoundIn
  <1>3. QED
    BY <1>1, <1>2

LEMMA ContentsFound ==
    /\ Contents = [key \in {k \in Keys : FoundIn(k) # <<>>} |-> FoundIn(key)[1]]
    /\ Contents' = [key \in {k \in Keys : FoundIn(k)' # <<>>} |-> FoundIn(key)'[1]]
  <1>1. \A k \in Keys : Has(entries[Home(k, capacity)], k) <=> FoundIn(k) # <<>>
    BY FindPresent DEF FoundIn
  <1>2. \A k \in Keys : Has(entries'[Home(k, capacity')], k) <=> FoundIn(k)' # <<>>
    BY FindPresent DEF FoundIn
  <1>3. Contents = [key \in {k \in Keys : FoundIn(k) # <<>>} |-> FoundIn(key)[1]]
    <2>1. {k \in Keys : Has(entries[Home(k, capacity)], k)} = {k \in Keys : FoundIn(k) # <<>>}
      BY <1>1
    <2>2. QED
      BY <2>1 DEF Contents, FoundIn
  <1>4. Contents' = [key \in {k \in Keys : FoundIn(k)' # <<>>} |-> FoundIn(key)'[1]]
    <2>1. {k \in Keys : Has(entries'[Home(k, capacity')], k)} = {k \in Keys : FoundIn(k)' # <<>>}
      BY <1>2
    <2>2. QED
      BY <2>1 DEF Contents, FoundIn
  <1>5. QED
    BY <1>3, <1>4

LEMMA ContentsKept ==
    ASSUME \A k \in Keys : FoundIn(k)' = FoundIn(k)
    PROVE  Contents' = Contents
  <1>1. {k \in Keys : FoundIn(k)' # <<>>} = {k \in Keys : FoundIn(k) # <<>>}
    OBVIOUS
  <1>2. QED
    BY <1>1, ContentsFound

(* When all entries are moved, the new table finds what the old one found. *)
LEMMA RehashedKeeps ==
    ASSUME TableInv, Rehashed, NEW k \in Keys
    PROVE  FoundIn(k)' = FoundIn(k)
  <1>1. /\ op # Idle /\ op.call = "rehash" /\ bucket = capacity
        /\ entries' = fresh /\ capacity' = width
    BY DEF Rehashed
  <1>2. Moving /\ Sound(entries, capacity)
    BY <1>1 DEF TableInv
  <1>3. FoundIn(k)' = IF Moved(k) THEN FoundIn(k) ELSE <<>>
    BY <1>1, <1>2 DEF Moving, FoundIn
  <1>4. CASE Has(entries[Home(k, capacity)], k)
    <2>1. Home(k, capacity) \in 0 .. capacity - 1 /\ capacity \in Nat
      BY <1>4, <1>2, KeyPlace DEF Sound
    <2>2. Home(k, capacity) < bucket
      BY <2>1, <1>1
    <2>3. QED
      BY <2>2, <1>3, <1>4 DEF Moved
  <1>5. CASE ~Has(entries[Home(k, capacity)], k)
    BY <1>5, <1>3, FindAbsent DEF Moved, FoundIn
  <1>6. QED
    BY <1>4, <1>5

LEMMA InsertPuts ==
    ASSUME TableInv, Insert
    PROVE  Map!Put(op.key, op.value) /\ op.key \in Keys /\ op.value \in Values
  <1>1. /\ op # Idle /\ op.call = "insert"
        /\ entries' = PutInto(entries, capacity, op.key, op.value)
        /\ answer' = FoundIn(op.key)
        /\ capacity' = capacity
    BY DEF Insert, PutInto, FoundIn
  <1>2. op.key \in Keys /\ op.value \in Values /\ Sound(entries, capacity)
    BY <1>1 DEF TableInv, Calls
  <1> DEFINE key == op.key  value == op.value
             put == PutInto(entries, capacity, key, value)
  <1>3. \A k \in Keys : Find(put[Home(k, capacity)], k)
            = IF k = key THEN <<value>> ELSE Find(entries[Home(k, capacity)], k)
    BY <1>2, PutIntoTable
  <1> HIDE DEF put
  <1>4. entries' = put
    BY <1>1 DEF put
  <1>5. \A k \in Keys : FoundIn(k)' = IF k = key THEN <<value>> ELSE FoundIn(k)
    BY <1>1, <1>3, <1>4 DEF FoundIn
  <1>6. answer' = Map!Lookup(key)
    BY <1>1, <1>2, LookupFinds
  <1>7. {k \in Keys : FoundIn(k)' # <<>>} = {k \in Keys : FoundIn(k) # <<>>} \cup {key}
    <2>1. <<value>> # <<>>
      OBVIOUS
    <2>2. \A k \in Keys : FoundIn(k)' # <<>> <=> k = key \/ FoundIn(k) # <<>>
      BY <1>5, <2>1
    <2>3. QED
      BY <1>2, <2>2
  <1>8. DOMAIN Contents = {k \in Keys : FoundIn(k) # <<>>}
    BY ContentsFound
  <1>9. Contents' = [k \in DOMAIN Contents \cup {key} |-> IF k = key THEN value ELSE Contents[k]]
    <2>1. \A k \in DOMAIN Contents \cup {key} :
             FoundIn(k)'[1] = IF k = key THEN value ELSE Contents[k]
      BY <1>2, <1>5, <1>8, ContentsFound
    <2>2. Contents' = [k \in DOMAIN Contents \cup {key} |-> FoundIn(k)'[1]]
      BY <1>7, <1>8, ContentsFound
    <2>3. QED
      BY <2>1, <2>2
  <1>10. QED
    BY <1>2, <1>6, <1>9 DEF Map!Put

LEMMA StepIsMapStep ==
    ASSUME TableInv, [Next]_vars
    PROVE  [capacity <= CorruptAbove => Map!Next]_<<Contents, answer>>
  <1>1. ASSUME UNCHANGED <<entries, capacity, answer>>
        PROVE  UNCHANGED <<Contents, answer>>
    BY <1>1, ContentsKept DEF FoundIn
  <1>2. CASE Move
    BY <1>1, <1>2 DEF Move
  <1>3. CASE NextBucket
    BY <1>1, <1>3 DEF NextBucket
  <1>4. CASE Rehashed
    <2>1. answer' = answer
      BY <1>4 DEF Rehashed
    <2>2. QED
      BY <2>1, <1>4, RehashedKeeps, ContentsKept
  <1>5. CASE Insert
    BY <1>5, InsertPuts DEF Map!Next
  <1>6. ASSUME NEW key \in Keys, Get(key)
        PROVE  Map!Next
    <2>1. answer' = FoundIn(key) /\ UNCHANGED <<entries, capacity>>
      BY <1>6 DEF Get, FoundIn
    <2>2. Contents' = Contents
      BY <2>1, ContentsKept DEF FoundIn
    <2>3. Map!Get(key)
      BY <2>1, <2>2, LookupFinds DEF Map!Get
    <2>4. QED
      BY <2>3 DEF Map!Next
  <1>7. ASSUME NEW key \in Keys, NEW value \in Values, Put(key, value)
        PROVE  UNCHANGED <<Contents, answer>>
    BY <1>1, <1>7 DEF Put, PutTable
  <1>8. ASSUME NEW key \in Keys, NEW value \in Values, PutCorrupt(key, value)
        PROVE  ~(capacity <= CorruptAbove)
    <2>1. capacity > CorruptAbove
      BY <1>8 DEF PutCorrupt
    <2>2. capacity \in Nat
      BY DEF TableInv, Sound
    <2>3. QED
      BY <2>1, <2>2, TableAssumption
  <1>9. CASE UNCHANGED vars
    BY <1>1, <1>9 DEF vars
  <1>10. QED
    BY <1>2, <1>3, <1>4, <1>5, <1>6, <1>7, <1>8, <1>9 DEF Next, Continue

LEMMA InitIsMapInit ==
    ASSUME Init
    PROVE  Map!Init
  <1>1. FirstCapacity \in Nat \ {0}
    BY TableAssumption
  <1>2. \A k \in Keys : FoundIn(k) = <<>>
    BY <1>1, EmptySound DEF Init, FoundIn
  <1>3. {k \in Keys : FoundIn(k) # <<>>} = {}
    BY <1>2
  <1>4. Contents = [k \in {} |-> {}]
    BY <1>3, ContentsFound
  <1>5. QED
    BY <1>4 DEF Init, Map!Init

(* The hash table is a map to those who use it, for every set of keys and  *)
(* every hash: collisions, and entries that move to a wider table, never   *)
(* lose, mix up or bring back a value, as long as the table is not wider   *)
(* than CorruptAbove.                                                      *)
THEOREM TableImplementsMap == Spec => ImplementsMap
  <1>1. Init => TableInv
    BY InitTable
  <1>2. TableInv /\ [Next]_vars => TableInv'
    BY NextTable
  <1>3. TableInv /\ [Next]_vars => [capacity <= CorruptAbove => Map!Next]_<<Contents, answer>>
    BY StepIsMapStep
  <1>4. Init => Map!Init
    BY InitIsMapInit
  <1>5. QED
    BY <1>1, <1>2, <1>3, <1>4, PTL DEF Spec, ImplementsMap

-----------------------------------------------------------------------------
(* The size of a table.                                                    *)

KeysOf(es, c) == {k \in Keys : Has(es[Home(k, c)], k)}

Counted(es, c, n) == IsFiniteSet(KeysOf(es, c)) /\ n = Cardinality(KeysOf(es, c))

(* What is counted as the entries move are the ones that have.             *)
CountInv ==
    /\ Counted(entries, capacity, size)
    /\ op # Idle /\ op.call = "rehash" => Counted(fresh, width, count)
    /\ op = Idle \/ op.call = "insert" => count = 0

LEMMA EmptyCounted ==
    ASSUME NEW c \in Nat \ {0}
    PROVE  Counted(Empty(c), c, 0)
  <1>1. \A k \in Keys : ~Has(Empty(c)[Home(k, c)], k)
    BY EmptySound, FindPresent
  <1>2. KeysOf(Empty(c), c) = {}
    BY <1>1 DEF KeysOf
  <1>3. QED
    BY <1>2, FS_EmptySet DEF Counted

LEMMA PutCounted ==
    ASSUME NEW es, NEW c, Sound(es, c), NEW n, Counted(es, c, n),
           NEW key \in Keys, NEW value \in Values
    PROVE  Counted(PutInto(es, c, key, value), c,
                   IF Has(es[Home(key, c)], key) THEN n ELSE n + 1)
  <1> DEFINE put == PutInto(es, c, key, value)
             old == KeysOf(es, c)
  <1>1. \A k \in Keys : Find(put[Home(k, c)], k)
            = IF k = key THEN <<value>> ELSE Find(es[Home(k, c)], k)
    BY PutIntoTable
  <1> HIDE DEF put
  <1>2. <<value>> # <<>>
    OBVIOUS
  <1>3. \A k \in Keys : Has(put[Home(k, c)], k) <=> k = key \/ Has(es[Home(k, c)], k)
    BY <1>1, <1>2, FindPresent
  <1>4. KeysOf(put, c) = old \cup {key}
    BY <1>3 DEF KeysOf
  <1>5. key \in old <=> Has(es[Home(key, c)], key)
    BY DEF KeysOf
  <1>6. IsFiniteSet(old) /\ n = Cardinality(old)
    BY DEF Counted
  <1> HIDE DEF old
  <1>7. /\ IsFiniteSet(old \cup {key})
        /\ Cardinality(old \cup {key}) = IF key \in old THEN n ELSE n + 1
    BY <1>6, FS_AddElement
  <1>8. Counted(put, c, IF Has(es[Home(key, c)], key) THEN n ELSE n + 1)
    BY <1>4, <1>5, <1>7 DEF Counted
  <1>9. QED
    BY <1>8 DEF put

LEMMA PutTableCount ==
    ASSUME NEW key \in Keys, NEW value \in Values, NEW c \in Nat \ {0}, NEW n \in Nat,
           PutTable(key, value, c, n), count = 0, Counted(entries', c, n)
    PROVE  CountInv'
  <1>1. capacity' = c /\ size' = n /\ count' = 0
    BY DEF PutTable, new
  <1>2. CASE 4 * n >= 3 * c
    <2>1. /\ op' = [call |-> "rehash", key |-> key, value |-> value]
          /\ width' = Wider(c, n) /\ fresh' = Empty(Wider(c, n))
      BY <1>2 DEF PutTable
    <2>2. Wider(c, n) \in Nat \ {0}
      BY DEF Wider
    <2>3. op' # Idle /\ op'.call = "rehash"
      BY <2>1, CallKinds
    <2>4. Counted(fresh', width', 0)
      BY <2>1, <2>2, EmptyCounted
    <2>5. QED
      BY <1>1, <2>3, <2>4 DEF CountInv, Idle
  <1>3. CASE ~(4 * n >= 3 * c)
    <2>1. op' = [call |-> "insert", key |-> key, value |-> value]
      BY <1>3 DEF PutTable
    <2>2. op' # Idle /\ op'.call = "insert"
      BY <2>1, CallKinds
    <2>3. QED
      BY <1>1, <2>2 DEF CountInv
  <1>4. QED
    BY <1>2, <1>3

LEMMA MoveCount ==
    ASSUME TableInv, CountInv, Move
    PROVE  CountInv'
  <1> DEFINE e == entries[bucket][pos]
             b == Home(e.key, width)
  <1>1. /\ op # Idle /\ op.call = "rehash" /\ bucket < capacity /\ pos <= Len(entries[bucket])
        /\ fresh' = PutInto(fresh, width, e.key, e.value)
        /\ count' = IF Has(fresh[b], e.key) THEN count ELSE count + 1
        /\ UNCHANGED <<entries, size, capacity, op, width>>
    BY DEF Move, PutInto
  <1>2. Moving /\ Sound(entries, capacity)
    BY <1>1 DEF TableInv
  <1>3. /\ Sound(fresh, width) /\ bucket \in 0 .. capacity /\ pos \in Nat \ {0}
        /\ capacity \in Nat \ {0}
    BY <1>2 DEF Moving, Sound
  <1>4. bucket \in 0 .. capacity - 1 /\ pos \in 1 .. Len(entries[bucket])
    <2>1. bucket \in 0 .. capacity - 1
      BY <1>1, <1>3
    <2>2. entries[bucket] \in Seq(Entries)
      BY <2>1, <1>2 DEF Sound
    <2>3. QED
      BY <2>1, <2>2, <1>1, <1>3
  <1>5. e.key \in Keys /\ e.value \in Values
    BY <1>2, <1>4, EntryFound DEF Entries
  <1> HIDE DEF e
  <1>6. Counted(fresh', width, count')
    BY <1>1, <1>3, <1>5, PutCounted DEF CountInv
  <1>7. QED
    BY <1>1, <1>6 DEF CountInv, Counted

LEMMA InsertCount ==
    ASSUME TableInv, CountInv, Insert
    PROVE  CountInv'
  <1>1. /\ op # Idle /\ op.call = "insert"
        /\ entries' = PutInto(entries, capacity, op.key, op.value)
        /\ size' = IF Has(entries[Home(op.key, capacity)], op.key) THEN size ELSE size + 1
        /\ op' = Idle
        /\ UNCHANGED <<capacity, count>>
    BY DEF Insert, new, PutInto
  <1>2. op.key \in Keys /\ op.value \in Values /\ Sound(entries, capacity)
    BY <1>1 DEF TableInv, Calls
  <1>3. Counted(entries', capacity, size')
    BY <1>1, <1>2, PutCounted DEF CountInv
  <1>4. count' = 0
    BY <1>1 DEF CountInv
  <1>5. QED
    BY <1>1, <1>3, <1>4 DEF CountInv

LEMMA NextCount ==
    ASSUME TableInv, CountInv, [Next]_vars
    PROVE  CountInv'
  <1>1. CASE Move
    BY <1>1, MoveCount
  <1>2. CASE NextBucket
    BY <1>2 DEF NextBucket, CountInv, Counted, KeysOf
  <1>3. CASE Rehashed
    <2>1. /\ op # Idle /\ op.call = "rehash"
          /\ entries' = fresh /\ size' = count /\ capacity' = width /\ count' = 0
          /\ op' = [op EXCEPT !.call = "insert"]
      BY <1>3 DEF Rehashed, NoRehash
    <2>2. op'.call = "insert"
      BY <2>1 DEF TableInv, Calls
    <2>3. QED
      BY <2>1, <2>2 DEF CountInv
  <1>4. CASE Insert
    BY <1>4, InsertCount
  <1>5. CASE \E key \in Keys : Get(key)
    BY <1>5 DEF Get, new, CountInv, Counted, KeysOf
  <1>6. ASSUME NEW key \in Keys, NEW value \in Values, Put(key, value)
        PROVE  CountInv'
    <2>1. op = Idle /\ PutTable(key, value, capacity, size) /\ entries' = entries
      BY <1>6 DEF Put
    <2>2. capacity \in Nat \ {0} /\ size \in Nat /\ count = 0
      BY <2>1 DEF TableInv, Sound, CountInv
    <2>3. Counted(entries', capacity, size)
      BY <2>1 DEF CountInv, Counted
    <2>4. QED
      BY <2>1, <2>2, <2>3, PutTableCount
  <1>7. ASSUME NEW key \in Keys, NEW value \in Values, PutCorrupt(key, value)
        PROVE  CountInv'
    <2>1. op = Idle /\ PutTable(key, value, FirstCapacity, 0) /\ entries' = Empty(FirstCapacity)
      BY <1>7 DEF PutCorrupt
    <2>2. FirstCapacity \in Nat \ {0} /\ count = 0 /\ 0 \in Nat
      BY <2>1, TableAssumption DEF CountInv
    <2>3. Counted(entries', FirstCapacity, 0)
      BY <2>1, <2>2, EmptyCounted
    <2>4. QED
      BY <2>1, <2>2, <2>3, PutTableCount
  <1>8. CASE UNCHANGED vars
    BY <1>8 DEF vars, new, CountInv, Counted, KeysOf
  <1>9. QED
    BY <1>1, <1>2, <1>3, <1>4, <1>5, <1>6, <1>7, <1>8 DEF Next, Continue

LEMMA InitCount ==
    ASSUME Init
    PROVE  CountInv
  <1>1. Counted(entries, capacity, size) /\ op = Idle /\ count = 0
    BY TableAssumption, EmptyCounted DEF Init
  <1>2. QED
    BY <1>1 DEF CountInv

-----------------------------------------------------------------------------
(* A walk over the table.                                                  *)

(* Between them, the places of the walk are the places in the first b      *)
(* chains, each once.                                                      *)
WalkOf(walk, es, b) ==
    /\ walk \in Seq(Entries)
    /\ \A i \in 1 .. Len(walk) :
          \E h \in 0 .. b - 1 : \E j \in 1 .. Len(es[h]) : walk[i] = es[h][j]
    /\ \A h \in 0 .. b - 1 : \A j \in 1 .. Len(es[h]) :
          \E i \in 1 .. Len(walk) : walk[i] = es[h][j]
    /\ Distinct(walk)

LEMMA WalkGoesOn ==
    ASSUME NEW es, NEW c, Sound(es, c), NEW b \in 1 .. c, NEW walk, WalkOf(walk, es, b - 1)
    PROVE  WalkOf(walk \o es[b - 1], es, b)
  <1> DEFINE chain == es[b - 1]
             n == Len(walk)
             m == Len(chain)
             on == walk \o chain
  <1>1. c \in Nat \ {0} /\ b - 1 \in 0 .. c - 1
    BY DEF Sound
  <1>2. /\ chain \in Seq(Entries) /\ Distinct(chain)
        /\ \A j \in 1 .. m : Home(chain[j].key, c) = b - 1
    BY <1>1 DEF Sound
  <1>3. walk \in Seq(Entries) /\ Distinct(walk)
    BY DEF WalkOf
  <1>4. n \in Nat /\ m \in Nat
    BY <1>2, <1>3
  <1>5. on \in Seq(Entries) /\ Len(on) = n + m
    BY <1>2, <1>3
  <1>6. \A i \in 1 .. n + m : on[i] = IF i <= n THEN walk[i] ELSE chain[i - n]
    BY <1>2, <1>3
  <1>7. \A i \in 1 .. n : \E h \in 0 .. b - 2 : \E j \in 1 .. Len(es[h]) : walk[i] = es[h][j]
    <2>1. 0 .. b - 2 = 0 .. (b - 1) - 1
      OBVIOUS
    <2>2. \A i \in 1 .. n : \E h \in 0 .. (b - 1) - 1 : \E j \in 1 .. Len(es[h]) : walk[i] = es[h][j]
      BY Zenon DEF WalkOf
    <2>3. QED
      BY <2>1, <2>2
  <1>8. ASSUME NEW i \in 1 .. n PROVE Home(walk[i].key, c) \in 0 .. b - 2
    <2>1. PICK h \in 0 .. b - 2 : \E j \in 1 .. Len(es[h]) : walk[i] = es[h][j]
      BY <1>7
    <2>2. h \in 0 .. c - 1
      BY <1>1
    <2>3. Home(walk[i].key, c) = h
      BY <2>1, <2>2 DEF Sound
    <2>4. QED
      BY <2>3
  <1>9. \A h \in 0 .. b - 2 : \A j \in 1 .. Len(es[h]) : \E i \in 1 .. n : walk[i] = es[h][j]
    <2>1. 0 .. b - 2 = 0 .. (b - 1) - 1
      OBVIOUS
    <2>2. \A h \in 0 .. (b - 1) - 1 : \A j \in 1 .. Len(es[h]) : \E i \in 1 .. n : walk[i] = es[h][j]
      BY Zenon DEF WalkOf
    <2>3. QED
      BY <2>1, <2>2
  <1>10. \A h \in 0 .. b - 1 : h = b - 1 \/ h \in 0 .. b - 2
    OBVIOUS
  <1> HIDE DEF on, n, m
  <1>11. ASSUME NEW i \in 1 .. n + m
         PROVE  \E h \in 0 .. b - 1 : \E j \in 1 .. Len(es[h]) : on[i] = es[h][j]
    <2>1. CASE i <= n
      <3>1. i \in 1 .. n
        BY <1>4, <2>1
      <3>2. PICK h \in 0 .. b - 2 : \E j \in 1 .. Len(es[h]) : walk[i] = es[h][j]
        BY <1>7, <3>1
      <3>3. h \in 0 .. b - 1
        OBVIOUS
      <3>4. QED
        BY <1>6, <2>1, <3>2, <3>3
    <2>2. CASE ~(i <= n)
      <3>1. i - n \in 1 .. Len(es[b - 1]) /\ b - 1 \in 0 .. b - 1
        BY <1>4, <2>2 DEF m
      <3>2. QED
        BY <1>6, <2>2, <3>1
    <2>3. QED
      BY <2>1, <2>2
  <1>12. ASSUME NEW h \in 0 .. b - 1, NEW j \in 1 .. Len(es[h])
         PROVE  \E i \in 1 .. n + m : on[i] = es[h][j]
    <2>1. CASE h = b - 1
      <3>1. j \in 1 .. m
        BY <2>1 DEF m
      <3>2. n + j \in 1 .. n + m /\ ~(n + j <= n) /\ n + j - n = j
        BY <1>4, <3>1
      <3>3. on[n + j] = chain[j]
        <4> HIDE DEF chain
        <4>1. on[n + j] = chain[n + j - n]
          BY <1>4, <1>6, <3>1, <3>2
        <4>2. QED
          BY <3>2, <4>1
      <3>4. QED
        BY <2>1, <3>2, <3>3
    <2>2. CASE h \in 0 .. b - 2
      <3>1. PICK i \in 1 .. n : walk[i] = es[h][j]
        BY <1>9, <2>2
      <3>2. i \in 1 .. n + m /\ i <= n
        BY <1>4
      <3>3. QED
        BY <1>6, <3>1, <3>2
    <2>3. QED
      BY <1>10, <2>1, <2>2
  <1>13. ASSUME NEW i \in 1 .. n + m, NEW j \in 1 .. n + m, on[i].key = on[j].key
         PROVE  i = j
    <2>1. ASSUME NEW x \in 1 .. n, NEW y \in 1 .. m PROVE walk[x].key # chain[y].key
      <3>1. Home(walk[x].key, c) \in 0 .. b - 2 /\ Home(chain[y].key, c) = b - 1
        BY <1>2, <1>8 DEF m
      <3>2. b - 1 \notin 0 .. b - 2
        OBVIOUS
      <3>3. QED
        BY <3>1, <3>2
    <2>2. CASE i <= n /\ j <= n
      <3>1. i \in 1 .. n /\ j \in 1 .. n
        BY <1>4, <2>2
      <3>2. QED
        BY <1>3, <1>6, <1>13, <2>2, <3>1 DEF Distinct, n
    <2>3. CASE i <= n /\ ~(j <= n)
      <3>1. i \in 1 .. n /\ j - n \in 1 .. m
        BY <1>4, <2>3
      <3>2. QED
        BY <1>6, <1>13, <2>1, <2>3, <3>1
    <2>4. CASE ~(i <= n) /\ j <= n
      <3>1. i - n \in 1 .. m /\ j \in 1 .. n
        BY <1>4, <2>4
      <3>2. QED
        BY <1>6, <1>13, <2>1, <2>4, <3>1
    <2>5. CASE ~(i <= n) /\ ~(j <= n)
      <3>1. i - n \in 1 .. m /\ j - n \in 1 .. m
        BY <1>4, <2>5
      <3>2. i - n = j - n
        BY <1>2, <1>6, <1>13, <2>5, <3>1 DEF Distinct, m
      <3>3. QED
        BY <1>4, <3>2
    <2>6. QED
      BY <2>2, <2>3, <2>4, <2>5
  <1>14. WalkOf(on, es, b)
    BY <1>5, <1>11, <1>12, <1>13 DEF WalkOf, Distinct
  <1>15. QED
    BY <1>14 DEF on

LEMMA WalkOfTable ==
    ASSUME Sound(entries, capacity)
    PROVE  WalkOf(Visited, entries, capacity)
  <1> DEFINE V == Seq(Entries)
             next(walk, b) == walk \o entries[b - 1]
             H == [x \in V \X (1 .. capacity) |-> next(x[1], x[2])]
             none == <<>>
             Is(g) == g = [b \in 0 .. capacity |->
                              IF b = 0 THEN <<>> ELSE g[b - 1] \o entries[b - 1]]
             upto == CHOOSE g : Is(g)
  <1>1. capacity \in Nat /\ entries \in [0 .. capacity - 1 -> V]
    BY DEF Sound
  <1>2. Visited = upto[capacity]
    BY DEF Visited
  <1>3. none \in V
    OBVIOUS
  <1>4. \A walk \in V, b \in 1 .. capacity : next(walk, b) \in V
    <2>1. TAKE walk \in V, b \in 1 .. capacity
    <2>2. b - 1 \in 0 .. capacity - 1
      BY <1>1
    <2>3. entries[b - 1] \in Seq(Entries)
      BY <1>1, <2>2
    <2>4. QED
      BY <2>3
  <1> HIDE DEF V, next
  <1>5. \E g \in [0 .. capacity -> V] : Is(g)
    <2>1. H \in [V \X (1 .. capacity) -> V]
      BY <1>4
    <2>2. \A walk \in V, b \in 1 .. capacity : H[<<walk, b>>] = next(walk, b)
      OBVIOUS
    <2> HIDE DEF H, none
    <2>3. \E g : GoesOn(g, capacity, V, none, H)
      BY <1>1, <1>3, <2>1, Iterates
    <2>4. PICK g \in [0 .. capacity -> V] :
             g[0] = none /\ \A b \in 1 .. capacity : g[b] = H[<<g[b - 1], b>>]
      BY <2>3 DEF GoesOn
    <2>5. ASSUME NEW b \in 1 .. capacity PROVE g[b] = next(g[b - 1], b)
      <3>1. g[b - 1] \in V
        BY <1>1
      <3>2. QED
        BY <2>2, <2>4, <3>1
    <2>6. \A b \in 0 .. capacity : g[b] = IF b = 0 THEN none ELSE next(g[b - 1], b)
      BY <1>1, <2>4, <2>5
    <2>7. g = [b \in 0 .. capacity |-> IF b = 0 THEN none ELSE next(g[b - 1], b)]
      BY <2>6
    <2>8. Is(g)
      BY <2>7 DEF none, next
    <2>9. QED
      BY <2>8
  <1>6. Is(upto)
    <2> HIDE DEF Is
    <2>1. QED
      BY <1>5
  <1> HIDE DEF upto
  <1>7. upto[0] = <<>> /\ \A b \in 1 .. capacity : upto[b] = next(upto[b - 1], b)
    <2>1. \A b \in 0 .. capacity : upto[b] = IF b = 0 THEN none ELSE next(upto[b - 1], b)
      BY <1>6, Zenon DEF next
    <2>2. QED
      BY <1>1, <2>1
  <1> HIDE DEF Is
  <1> DEFINE S == {b \in Nat : WalkOf(upto[b], entries, b)}
  <1>8. 0 \in S
    <2>1. Len(upto[0]) = 0 /\ upto[0] \in Seq(Entries) /\ 1 .. 0 = {} /\ 0 .. 0 - 1 = {}
      BY <1>7
    <2>2. QED
      BY <2>1 DEF WalkOf, Distinct
  <1>9. ASSUME NEW b \in 1 .. capacity, b - 1 \in S PROVE b \in S
    <2>1. WalkOf(upto[b - 1], entries, b - 1)
      BY <1>9
    <2>2. WalkOf(upto[b - 1] \o entries[b - 1], entries, b)
      BY <2>1, WalkGoesOn
    <2>3. upto[b] = upto[b - 1] \o entries[b - 1]
      BY <1>7 DEF next
    <2>4. b \in Nat
      BY <1>1
    <2>5. QED
      BY <2>2, <2>3, <2>4
  <1> HIDE DEF S
  <1>10. \A b \in 0 .. capacity : b \in S
    <2>1. \A b \in 1 .. capacity : b - 1 \in S => b \in S
      BY <1>9
    <2>2. QED
      BY <1>1, <1>8, <2>1, UpTo
  <1>11. capacity \in S
    BY <1>1, <1>10
  <1>12. QED
    BY <1>2, <1>11 DEF S

LEMMA WalkMeetsAll ==
    ASSUME TableInv, CountInv
    PROVE  WalkComplete
  <1> DEFINE walk == Visited
             n == Len(walk)
             record(k) == [key |-> k, value |-> Contents[k]]
  <1>1. Sound(entries, capacity) /\ Counted(entries, capacity, size)
    BY DEF TableInv, CountInv
  <1>2. capacity \in Nat \ {0} /\ entries \in [0 .. capacity - 1 -> Seq(Entries)]
    BY <1>1 DEF Sound
  <1>3. WalkOf(walk, entries, capacity)
    BY <1>1, WalkOfTable
  <1> HIDE DEF walk
  <1>4. DOMAIN Contents = KeysOf(entries, capacity)
    BY DEF Contents, KeysOf
  <1>5. ASSUME NEW h \in 0 .. capacity - 1, NEW j \in 1 .. Len(entries[h])
        PROVE  /\ entries[h][j].key \in DOMAIN Contents
               /\ entries[h][j] = record(entries[h][j].key)
    <2> DEFINE e == entries[h][j]
    <2>1. /\ e \in Entries
          /\ Home(e.key, capacity) = h
          /\ Has(entries[h], e.key)
          /\ Find(entries[h], e.key) = <<e.value>>
      BY <1>1, EntryFound
    <2> HIDE DEF e
    <2>2. e.key \in Keys /\ e = [key |-> e.key, value |-> e.value]
      BY <2>1 DEF Entries
    <2>3. e.key \in DOMAIN Contents
      BY <1>4, <2>1, <2>2 DEF KeysOf
    <2>4. Contents[e.key] = Find(entries[Home(e.key, capacity)], e.key)[1]
      BY <2>3 DEF Contents
    <2>5. Contents[e.key] = e.value
      BY <2>1, <2>4
    <2>6. QED
      BY <2>2, <2>3, <2>5 DEF e
  <1>6. ASSUME NEW i \in 1 .. n
        PROVE  walk[i].key \in DOMAIN Contents /\ walk[i] = record(walk[i].key)
    <2>1. PICK h \in 0 .. capacity - 1 : \E j \in 1 .. Len(entries[h]) : walk[i] = entries[h][j]
      BY <1>3 DEF WalkOf
    <2>2. QED
      BY <1>5, <2>1
  <1>7. ASSUME NEW k \in DOMAIN Contents
        PROVE  \E i \in 1 .. n : walk[i] = record(k) /\ walk[i].key = k
    <2> DEFINE h == Home(k, capacity)
               j == Position(entries[h], k)
    <2>1. k \in Keys /\ Has(entries[h], k)
      BY <1>4 DEF KeysOf
    <2>2. h \in 0 .. capacity - 1 /\ j \in 1 .. Len(entries[h]) /\ entries[h][j].key = k
      BY <1>1, <2>1, KeyPlace
    <2> HIDE DEF h, j
    <2>3. PICK i \in 1 .. n : walk[i] = entries[h][j]
      BY <1>3, <2>2 DEF WalkOf
    <2>4. QED
      BY <1>5, <2>2, <2>3
  <1>8. {walk[i] : i \in 1 .. n} = {record(k) : k \in DOMAIN Contents}
    <2> HIDE DEF record
    <2>1. QED
      BY <1>6, <1>7
  <1>9. Distinct(walk) /\ walk \in Seq(Entries)
    BY <1>3 DEF WalkOf
  <1>10. n \in Nat
    BY <1>9
  <1>11. size = n
    <2> DEFINE at == [i \in 1 .. n |-> walk[i].key]
               held == DOMAIN Contents
    <2>1. at \in [1 .. n -> held]
      BY <1>6
    <2>2. \A i, j \in 1 .. n : at[i] = at[j] => i = j
      BY <1>9 DEF Distinct
    <2>3. \A k \in held : \E i \in 1 .. n : at[i] = k
      BY <1>7
    <2> HIDE DEF at, held, n
    <2>4. at \in Injection(1 .. n, held)
      BY <2>1, <2>2 DEF Injection, IsInjective
    <2>5. at \in Surjection(1 .. n, held)
      BY <2>1, <2>3 DEF Surjection
    <2>6. ExistsBijection(1 .. n, held)
      BY <2>4, <2>5 DEF Bijection, ExistsBijection
    <2>7. IsFiniteSet(1 .. n) /\ Cardinality(1 .. n) = IF 1 > n THEN 0 ELSE n - 1 + 1
      BY <1>10, FS_Interval
    <2>8. Cardinality(held) = Cardinality(1 .. n)
      BY <2>6, <2>7, FS_Bijection
    <2>9. size = Cardinality(held)
      BY <1>1, <1>4 DEF Counted, held
    <2>10. QED
      BY <1>10, <2>7, <2>8, <2>9
  <1>12. QED
    BY <1>8, <1>9, <1>11 DEF WalkComplete, walk, Distinct

(* A walk over the table meets every entry once, for every set of keys and *)
(* every hash, also while entries move, and the size that growing goes by  *)
(* is their number: an entry put over one of its key is not counted twice. *)
THEOREM WalksAreComplete == Spec => []WalkComplete
  <1>1. Init => TableInv /\ CountInv
    BY InitTable, InitCount
  <1>2. TableInv /\ CountInv /\ [Next]_vars => TableInv' /\ CountInv'
    BY NextTable, NextCount
  <1>3. TableInv /\ CountInv => WalkComplete
    BY WalkMeetsAll
  <1>4. QED
    BY <1>1, <1>2, <1>3, PTL DEF Spec

-----------------------------------------------------------------------------
(* The string pool: what a table of objects is, and its invariant.         *)

(* Probing for the text comes to slot i before it comes to a free one.     *)
Reached(table, cap, text, i) ==
    \E d \in 0 .. cap - 1 :
        /\ Probe(cap, text, d) = i
        /\ \A e \in 0 .. d - 1 : table[Probe(cap, text, e)] # Free

(* A table of the objects objs, whose texts are names: each is in one slot *)
(* and is reached there.                                                   *)
TableOf(table, cap, objs, names) ==
    /\ table \in [0 .. cap - 1 -> objs \cup {Free}]
    /\ \A o \in objs : \E i \in 0 .. cap - 1 : table[i] = o
    /\ \A i, j \in 0 .. cap - 1 : table[i] # Free /\ table[i] = table[j] => i = j
    /\ \A i \in 0 .. cap - 1 : table[i] # Free => Reached(table, cap, names[table[i]], i)

TextsDiffer == \A o, p \in 1 .. Len(texts) : texts[o] = texts[p] => o = p

PoolInv ==
    /\ slots \in Nat \ {0}
    /\ texts \in Seq(Texts) /\ TextsDiffer
    /\ filled = Len(texts) /\ filled < slots
    /\ TableOf(ents, slots, 1 .. Len(texts), texts)
    /\ given # <<>> => given[2] \in 1 .. Len(texts) /\ texts[given[2]] = given[1]

-----------------------------------------------------------------------------
(* Probing.                                                                *)

LEMMA ProbeInTable ==
    ASSUME NEW cap \in Nat \ {0}, NEW text \in Texts
    PROVE  /\ \A d \in 0 .. cap - 1 : Probe(cap, text, d) \in 0 .. cap - 1
           /\ \A i \in 0 .. cap - 1 : \E d \in 0 .. cap - 1 : Probe(cap, text, d) = i
<1>. DEFINE home == TextHash[text] % cap
<1>1. home \in 0 .. cap - 1
  <2>1. TextHash[text] \in Nat
    BY PoolAssumption
  <2>. QED  BY <2>1
<1>2. \A d \in 0 .. cap - 1 :
         Probe(cap, text, d) = IF home + d >= cap THEN home + d - cap ELSE home + d
  BY <1>1 DEF Probe
<1>. HIDE DEF home
<1>3. \A d \in 0 .. cap - 1 : Probe(cap, text, d) \in 0 .. cap - 1
  BY <1>1, <1>2
<1>4. ASSUME NEW i \in 0 .. cap - 1 PROVE \E d \in 0 .. cap - 1 : Probe(cap, text, d) = i
  <2>. DEFINE d == IF i >= home THEN i - home ELSE i - home + cap
  <2>1. d \in 0 .. cap - 1 /\ i = IF home + d >= cap THEN home + d - cap ELSE home + d
    BY <1>1
  <2>. HIDE DEF d
  <2>. QED  BY <1>2, <2>1
<1>. QED  BY <1>3, <1>4

(* Fewer objects than slots: a slot is free.                               *)
LEMMA FreeSlot ==
    ASSUME NEW cap \in Nat \ {0}, NEW n \in Nat, n < cap, NEW objs \in SUBSET (1 .. n),
           NEW table, NEW names, TableOf(table, cap, objs, names)
    PROVE  \E i \in 0 .. cap - 1 : table[i] = Free
<1>1. ASSUME \A i \in 0 .. cap - 1 : table[i] # Free PROVE FALSE
  <2>1. table \in [0 .. cap - 1 -> 1 .. n]
    BY <1>1 DEF TableOf
  <2>2. IsFiniteSet(0 .. cap - 1) /\ Cardinality(0 .. cap - 1) = cap
    BY FS_Interval
  <2>3. IsFiniteSet(1 .. n) /\ Cardinality(1 .. n) = n
    BY FS_Interval
  <2>4. PICK i, j \in 0 .. cap - 1 : i # j /\ table[i] = table[j]
    BY <2>1, <2>2, <2>3, FS_PigeonHole
  <2>. QED  BY <1>1, <2>4 DEF TableOf
<1>. QED  BY <1>1

(* Where probing for a text stops.                                         *)
LEMMA SlotFound ==
    ASSUME NEW cap \in Nat \ {0}, texts \in Seq(Texts), Len(texts) < cap,
           NEW objs \in SUBSET (1 .. Len(texts)),
           NEW table, TableOf(table, cap, objs, texts), NEW text \in Texts
    PROVE  LET s == Slot(table, cap, text)
           IN  /\ s \in 0 .. cap - 1
               /\ Reached(table, cap, text, s)
               /\ table[s] # Free => texts[table[s]] = text
               /\ table[s] = Free => \A o \in objs : texts[o] # text
<1>. DEFINE stops(d) == Stops(table, cap, text, d)
            T == {d \in 0 .. cap - 1 : stops(d)}
            first == CHOOSE d \in 0 .. cap - 1 :
                        stops(d) /\ \A e \in 0 .. d - 1 : ~stops(e)
            s == Slot(table, cap, text)
<1>1. PICK d0 \in 0 .. cap - 1 : stops(d0)
  <2>1. Len(texts) \in Nat
    OBVIOUS
  <2>2. PICK i \in 0 .. cap - 1 : table[i] = Free
    BY <2>1, FreeSlot
  <2>3. PICK d \in 0 .. cap - 1 : Probe(cap, text, d) = i
    BY ProbeInTable
  <2>. QED  BY <2>2, <2>3 DEF Stops
<1>. HIDE DEF stops
<1>2. \E d \in T : \A m \in T : d <= m
  <2>1. T \in SUBSET Nat /\ T # {}
    BY <1>1
  <2>. HIDE DEF T
  <2>. QED  BY <2>1, LeastNumber
<1>3. \E d \in 0 .. cap - 1 : stops(d) /\ \A e \in 0 .. d - 1 : ~stops(e)
  BY <1>2
<1>4. first \in 0 .. cap - 1 /\ stops(first) /\ \A e \in 0 .. first - 1 : ~stops(e)
  BY <1>3
<1>5. s = Probe(cap, text, first)
  BY DEF Slot, stops
<1>. HIDE DEF first, s
<1>6. s \in 0 .. cap - 1
  BY <1>4, <1>5, ProbeInTable
<1>7. table[s] # Free => texts[table[s]] = text
  BY <1>4, <1>5 DEF stops, Stops
<1>8. \A e \in 0 .. first - 1 : LET o == table[Probe(cap, text, e)] IN o # Free /\ texts[o] # text
  BY <1>4 DEF stops, Stops
<1>9. Reached(table, cap, text, s)
  BY <1>4, <1>5, <1>8 DEF Reached
<1>10. ASSUME table[s] = Free, NEW o \in objs, texts[o] = text PROVE FALSE
  <2>1. PICK i \in 0 .. cap - 1 : table[i] = o
    BY DEF TableOf
  <2>2. o # Free
    BY DEF Free
  <2>3. PICK d \in 0 .. cap - 1 :
           Probe(cap, text, d) = i /\ \A e \in 0 .. d - 1 : table[Probe(cap, text, e)] # Free
    BY <1>10, <2>1, <2>2 DEF TableOf, Reached
  <2>4. ~(first < d)
    BY <1>4, <1>5, <1>10, <2>3
  <2>5. ~(d < first)
    BY <1>8, <1>10, <2>1, <2>3, <1>4
  <2>6. d = first
    BY <2>4, <2>5, <1>4
  <2>. QED  BY <1>5, <1>10, <2>1, <2>2, <2>3, <2>6
<1>. QED  BY <1>6, <1>7, <1>9, <1>10 DEF s

(* An object put where probing for its text stopped.                       *)
LEMMA PutIn ==
    ASSUME NEW cap \in Nat \ {0}, NEW objs, Free \notin objs, NEW names, NEW names2,
           NEW table, TableOf(table, cap, objs, names),
           \A p \in objs : names[p] \in Texts,
           NEW text \in Texts, NEW s \in 0 .. cap - 1, Reached(table, cap, text, s), table[s] = Free,
           NEW o, o \notin objs, o # Free, names2[o] = text,
           \A p \in objs : names2[p] = names[p]
    PROVE  TableOf([table EXCEPT ![s] = o], cap, objs \cup {o}, names2)
<1>. DEFINE put == [table EXCEPT ![s] = o]
<1>1. table \in [0 .. cap - 1 -> objs \cup {Free}]
  BY DEF TableOf
<1>2. put \in [0 .. cap - 1 -> objs \cup {o} \cup {Free}]
  BY <1>1
<1>3. \A i \in 0 .. cap - 1 : put[i] = IF i = s THEN o ELSE table[i]
  BY <1>1
<1>. HIDE DEF put
<1>4. \A p \in objs \cup {o} : \E i \in 0 .. cap - 1 : put[i] = p
  BY <1>3 DEF TableOf
<1>5. \A i, j \in 0 .. cap - 1 : put[i] # Free /\ put[i] = put[j] => i = j
  BY <1>1, <1>3 DEF TableOf
<1>6. ASSUME NEW i, NEW name \in Texts, Reached(table, cap, name, i) PROVE Reached(put, cap, name, i)
  <2>1. PICK d \in 0 .. cap - 1 :
           Probe(cap, name, d) = i /\ \A e \in 0 .. d - 1 : table[Probe(cap, name, e)] # Free
    BY <1>6 DEF Reached
  <2>2. ASSUME NEW e \in 0 .. d - 1 PROVE put[Probe(cap, name, e)] # Free
    <3>. DEFINE j == Probe(cap, name, e)
    <3>1. table[j] # Free
      BY <2>1
    <3>2. j \in 0 .. cap - 1
      <4>1. e \in 0 .. cap - 1
        OBVIOUS
      <4>. QED  BY <1>6, <4>1, ProbeInTable
    <3>. HIDE DEF j
    <3>3. put[j] # Free
      BY <1>3, <3>1, <3>2
    <3>. QED  BY <3>3 DEF j
  <2>. QED  BY <2>1, <2>2 DEF Reached
<1>7. ASSUME NEW i \in 0 .. cap - 1, put[i] # Free PROVE Reached(put, cap, names2[put[i]], i)
  <2>1. CASE i = s
    BY <1>3, <1>6, <2>1
  <2>2. CASE i # s
    <3>1. put[i] = table[i] /\ table[i] \in objs
      BY <1>1, <1>3, <1>7, <2>2
    <3>2. Reached(table, cap, names[table[i]], i)
      BY <1>7, <3>1 DEF TableOf
    <3>. QED  BY <1>6, <3>1, <3>2
  <2>. QED  BY <2>1, <2>2
<1>8. TableOf(put, cap, objs \cup {o}, names2)
  BY <1>2, <1>4, <1>5, <1>7 DEF TableOf
<1>. QED  BY <1>8 DEF put

-----------------------------------------------------------------------------
(* Growing.                                                                *)

(* The new width is wide enough for one text more.                         *)
LEMMA WidthEnough ==
    ASSUME PoolInv
    PROVE  Width \in Nat \ {0} /\ filled + 1 < Width
<1>1. slots \in Nat \ {0} /\ filled \in Nat /\ Rounds \in Nat
  BY DEF PoolInv, Rounds
<1>. DEFINE next(c) == IF (filled + 1) * 2 >= c THEN 2 * c ELSE c
            H == [x \in Nat \X (1 .. Rounds) |-> next(x[1])]
            Is(g) == g = [k \in 0 .. Rounds |->
                             IF k = 0 THEN slots
                             ELSE LET cap == g[k - 1] IN
                                  IF (filled + 1) * 2 >= cap THEN 2 * cap ELSE cap]
            after == CHOOSE g : Is(g)
<1>2. Width = after[Rounds]
  BY DEF Width
<1>3. \E g \in [0 .. Rounds -> Nat] : Is(g)
  <2>1. H \in [Nat \X (1 .. Rounds) -> Nat]
    BY <1>1
  <2>2. \A m \in Nat, k \in 1 .. Rounds : H[<<m, k>>] = next(m)
    OBVIOUS
  <2>3. slots \in Nat
    BY <1>1
  <2>. HIDE DEF H
  <2>4. \E g : GoesOn(g, Rounds, Nat, slots, H)
    BY <1>1, <2>1, <2>3, Iterates
  <2>5. PICK g \in [0 .. Rounds -> Nat] :
           g[0] = slots /\ \A k \in 1 .. Rounds : g[k] = H[<<g[k - 1], k>>]
    BY <2>4 DEF GoesOn
  <2>6. ASSUME NEW k \in 1 .. Rounds PROVE g[k] = next(g[k - 1])
    <3>1. g[k - 1] \in Nat
      BY <1>1
    <3>. QED  BY <2>2, <2>5, <3>1
  <2>7. \A k \in 0 .. Rounds : g[k] = IF k = 0 THEN slots ELSE next(g[k - 1])
    BY <1>1, <2>5, <2>6
  <2>8. Is(g)
    BY <2>7
  <2>. QED  BY <2>8
<1>4. Is(after)
  <2>. HIDE DEF Is
  <2>. QED  BY <1>3
<1>. HIDE DEF after
<1>5. after[0] = slots /\ \A k \in 1 .. Rounds : after[k] = next(after[k - 1])
  BY <1>1, <1>4
<1>. DEFINE S == {k \in Nat : after[k] \in Nat \ {0}
                      /\ (after[k] > (filled + 1) * 2 \/ after[k] >= k + 1)}
<1>6. 0 \in S
  BY <1>1, <1>5
<1>7. ASSUME NEW k \in 1 .. Rounds, k - 1 \in S PROVE k \in S
  <2>1. after[k] = next(after[k - 1])
    BY <1>5
  <2>. DEFINE c == after[k - 1]
  <2>2. c \in Nat \ {0} /\ (c > (filled + 1) * 2 \/ c >= k)
    BY <1>7
  <2>. HIDE DEF c
  <2>3. after[k] = IF (filled + 1) * 2 >= c THEN 2 * c ELSE c
    BY <2>1 DEF c
  <2>4. after[k] \in Nat \ {0} /\ (after[k] > (filled + 1) * 2 \/ after[k] >= k + 1)
    BY <1>1, <2>2, <2>3
  <2>. QED  BY <2>4
<1>. HIDE DEF S
<1>8. Rounds \in S
  BY <1>1, <1>6, <1>7, UpTo
<1>9. after[Rounds] \in Nat \ {0}
      /\ (after[Rounds] > (filled + 1) * 2 \/ after[Rounds] >= Rounds + 1)
  BY <1>8 DEF S
<1>. QED  BY <1>1, <1>2, <1>9 DEF Rounds

(* A wider table holds the same objects.                                   *)
LEMMA ResizedTable ==
    ASSUME PoolInv, NEW cap \in Nat \ {0}, filled < cap
    PROVE  TableOf(Resized(cap), cap, 1 .. Len(texts), texts)
<1>. DEFINE n == Len(texts)
            into(table, i) == IF ents[i - 1] = Free THEN table
                              ELSE [table EXCEPT ![Slot(table, cap, texts[ents[i - 1]])] = ents[i - 1]]
            none == [j \in 0 .. cap - 1 |-> Free]
            Is(g) == g = [i \in 0 .. slots |->
                             IF i = 0 THEN [j \in 0 .. cap - 1 |-> Free]
                             ELSE LET table == g[i - 1]
                                      o == ents[i - 1]
                                  IN  IF o = Free THEN table
                                      ELSE [table EXCEPT ![Slot(table, cap, texts[o])] = o]]
            upto == CHOOSE g : Is(g)
            V == [0 .. cap - 1 -> 0 .. n]
            H == [x \in V \X (1 .. slots) |-> into(x[1], x[2])]
            moved(i) == {ents[j] : j \in 0 .. i - 1} \ {Free}
<1>1. /\ slots \in Nat /\ n \in Nat /\ n < cap
      /\ texts \in Seq(Texts) /\ TextsDiffer
      /\ TableOf(ents, slots, 1 .. n, texts)
  BY DEF PoolInv
<1>2. Resized(cap) = upto[slots]
  BY DEF Resized
<1>. HIDE DEF n
<1>3. \A i \in 0 .. slots - 1 : ents[i] = Free \/ ents[i] \in 1 .. n
  BY <1>1 DEF TableOf
<1>4. none \in V
  BY <1>1 DEF Free
<1>5. \A table \in V, i \in 1 .. slots : into(table, i) \in V
  <2>. TAKE table \in V, i \in 1 .. slots
  <2>1. i - 1 \in 0 .. slots - 1
    BY <1>1
  <2>2. ents[i - 1] \in 0 .. n
    BY <1>1, <1>3, <2>1 DEF Free
  <2>. QED  BY <2>2
<1>. HIDE DEF V, into
<1>6. \E g \in [0 .. slots -> V] : Is(g)
  <2>1. H \in [V \X (1 .. slots) -> V]
    BY <1>5
  <2>2. \A table \in V, i \in 1 .. slots : H[<<table, i>>] = into(table, i)
    OBVIOUS
  <2>. HIDE DEF H, none
  <2>3. \E g : GoesOn(g, slots, V, none, H)
    BY <1>1, <1>4, <2>1, Iterates
  <2>4. PICK g \in [0 .. slots -> V] :
           g[0] = none /\ \A i \in 1 .. slots : g[i] = H[<<g[i - 1], i>>]
    BY <2>3 DEF GoesOn
  <2>5. ASSUME NEW i \in 1 .. slots PROVE g[i] = into(g[i - 1], i)
    <3>1. g[i - 1] \in V
      BY <1>1
    <3>. QED  BY <2>2, <2>4, <3>1
  <2>6. \A i \in 0 .. slots : g[i] = IF i = 0 THEN none ELSE into(g[i - 1], i)
    BY <1>1, <2>4, <2>5
  <2>7. g = [i \in 0 .. slots |-> IF i = 0 THEN none ELSE into(g[i - 1], i)]
    BY <2>6
  <2>8. Is(g)
    BY <2>7 DEF none, into
  <2>. QED  BY <2>8
<1>7. Is(upto)
  <2>. HIDE DEF Is
  <2>. QED  BY <1>6
<1>. HIDE DEF upto
<1>8. upto[0] = none /\ \A i \in 1 .. slots : upto[i] = into(upto[i - 1], i)
  <2>1. \A i \in 0 .. slots : upto[i] = IF i = 0 THEN none ELSE into(upto[i - 1], i)
    BY <1>7, Zenon DEF into
  <2>. HIDE DEF none
  <2>. QED  BY <1>1, <2>1
<1>. HIDE DEF Is, none
<1>. DEFINE S == {i \in Nat : TableOf(upto[i], cap, moved(i), texts)}
<1>9. 0 \in S
  <2>1. moved(0) = {}
    OBVIOUS
  <2>2. TableOf(none, cap, {}, texts)
    BY DEF TableOf, none
  <2>. QED  BY <1>8, <2>1, <2>2
<1>10. ASSUME NEW i \in 1 .. slots, i - 1 \in S PROVE i \in S
  <2>. DEFINE table == upto[i - 1]
              o == ents[i - 1]
              objs == moved(i - 1)
  <2>1. TableOf(table, cap, objs, texts) /\ i - 1 \in 0 .. slots - 1
    BY <1>1, <1>10
  <2>2. moved(i) = (objs \cup {o}) \ {Free}
    <3>1. 0 .. i - 1 = 0 .. (i - 1) - 1 \cup {i - 1}
      OBVIOUS
    <3>. QED  BY <3>1
  <2>3. Free \notin objs /\ objs \in SUBSET (1 .. n)
    BY <1>1, <1>3
  <2>4. upto[i] = into(table, i)
    BY <1>8
  <2>5. o = Free \/ o \in 1 .. n
    BY <1>3, <2>1
  <2>6. \A j \in 0 .. i - 2 : ents[j] # Free => ents[j] # o
    BY <1>1, <2>1 DEF TableOf
  <2>7. o # Free => o \notin objs
    BY <2>6
  <2>. HIDE DEF table, o, objs, moved
  <2>8. CASE o = Free
    <3>1. upto[i] = table /\ moved(i) = objs
      BY <2>2, <2>3, <2>4, <2>8 DEF into, o
    <3>. QED  BY <2>1, <3>1
  <2>9. CASE o # Free
    <3>. DEFINE text == texts[o]
                s == Slot(table, cap, text)
    <3>1. o \in 1 .. n /\ o \notin objs
      BY <2>5, <2>7, <2>9
    <3>2. text \in Texts
      BY <1>1, <3>1 DEF n
    <3>3. /\ s \in 0 .. cap - 1
          /\ Reached(table, cap, text, s)
          /\ table[s] # Free => texts[table[s]] = text
      BY <1>1, <2>1, <2>3, <3>2, SlotFound DEF n
    <3>4. upto[i] = [table EXCEPT ![s] = o]
      BY <2>4, <2>9 DEF into, o
    <3>. HIDE DEF s
    <3>5. table[s] = Free
      <4>1. ASSUME table[s] # Free PROVE FALSE
        <5>1. table[s] \in objs
          BY <2>1, <3>3, <4>1 DEF TableOf
        <5>. QED  BY <1>1, <2>3, <3>1, <3>3, <4>1, <5>1 DEF TextsDiffer, n
      <4>. QED  BY <4>1
    <3>6. \A p \in objs : texts[p] \in Texts
      BY <1>1, <2>3 DEF n
    <3>. HIDE DEF text
    <3>7. texts[o] = text
      BY DEF text
    <3>8. TableOf([table EXCEPT ![s] = o], cap, objs \cup {o}, texts)
      BY <2>1, <2>3, <2>9, <3>1, <3>2, <3>3, <3>5, <3>6, <3>7, PutIn
    <3>9. moved(i) = objs \cup {o}
      BY <2>2, <2>3, <2>9
    <3>. QED  BY <3>4, <3>8, <3>9
  <2>. QED  BY <2>8, <2>9
<1>. HIDE DEF S
<1>11. slots \in S
  <2>1. \A i \in 1 .. slots : i - 1 \in S => i \in S
    BY <1>10
  <2>2. \A i \in 0 .. slots : i \in S
    BY <1>1, <1>9, <2>1, UpTo
  <2>. QED  BY <1>1, <2>2
<1>12. moved(slots) = 1 .. n
  <2>1. \A o \in 1 .. n : o # Free /\ \E j \in 0 .. slots - 1 : ents[j] = o
    BY <1>1 DEF TableOf, Free
  <2>. QED  BY <1>3, <2>1
<1>. QED  BY <1>2, <1>11, <1>12 DEF S, n

-----------------------------------------------------------------------------
(* The pool.                                                               *)

LEMMA InitPool ==
    ASSUME PoolInit
    PROVE  PoolInv
<1>1. slots \in Nat \ {0} /\ texts = <<>> /\ filled = 0 /\ given = <<>>
  BY PoolAssumption DEF PoolInit
<1>2. Len(texts) = 0 /\ texts \in Seq(Texts) /\ 1 .. 0 = {}
  BY <1>1
<1>3. ents = [i \in 0 .. slots - 1 |-> Free]
  BY DEF PoolInit
<1>4. TableOf(ents, slots, {}, texts)
  BY <1>3 DEF TableOf
<1>. QED  BY <1>1, <1>2, <1>4 DEF PoolInv, TextsDiffer

LEMMA NewPool ==
    ASSUME PoolInv, NEW text \in Texts, New(text)
    PROVE  PoolInv'
<1>. DEFINE table == IF Width = slots THEN ents ELSE Resized(Width)
            slot == Slot(table, Width, text)
            cap == Width
            n == Len(texts)
<1>1. /\ slots' = cap
      /\ IF table[slot] # Free
         THEN ents' = table /\ UNCHANGED <<filled, texts>>
         ELSE /\ texts' = Append(texts, text)
              /\ ents' = [table EXCEPT ![slot] = n + 1]
              /\ filled' = filled + 1
      /\ given' = <<text, ents'[slot]>>
  BY DEF New
<1>2. cap \in Nat \ {0} /\ filled + 1 < cap
  BY WidthEnough
<1>3. /\ texts \in Seq(Texts) /\ TextsDiffer /\ n \in Nat /\ filled = n
      /\ TableOf(ents, slots, 1 .. n, texts)
  BY DEF PoolInv
<1>4. TableOf(table, cap, 1 .. n, texts)
  BY <1>2, <1>3, ResizedTable
<1>. HIDE DEF table, cap
<1>5. /\ slot \in 0 .. cap - 1
      /\ Reached(table, cap, text, slot)
      /\ table[slot] # Free => texts[table[slot]] = text
      /\ table[slot] = Free => \A o \in 1 .. n : texts[o] # text
  <2>. DEFINE objs == 1 .. n
  <2>1. slot = Slot(table, cap, text)
    BY DEF cap
  <2>2. objs \in SUBSET (1 .. Len(texts)) /\ Len(texts) < cap
    BY <1>2, <1>3
  <2>3. TableOf(table, cap, objs, texts)
    BY <1>4
  <2>. HIDE DEF slot, objs, n
  <2>4. /\ slot \in 0 .. cap - 1
        /\ Reached(table, cap, text, slot)
        /\ table[slot] # Free => texts[table[slot]] = text
        /\ table[slot] = Free => \A o \in objs : texts[o] # text
    BY <1>2, <1>3, <2>1, <2>2, <2>3, SlotFound
  <2>. QED  BY <2>4 DEF objs
<1>. HIDE DEF slot
<1>6. given'[1] = text /\ given'[2] = ents'[slot]
  BY <1>1
<1>7. CASE table[slot] # Free
  <2>1. ents' = table /\ filled' = filled /\ texts' = texts
    BY <1>1, <1>7
  <2>2. table[slot] \in 1 .. n
    BY <1>4, <1>5, <1>7 DEF TableOf
  <2>. QED  BY <1>1, <1>2, <1>3, <1>4, <1>5, <1>6, <1>7, <2>1, <2>2 DEF PoolInv, TextsDiffer
<1>8. CASE table[slot] = Free
  <2>1. texts' = Append(texts, text) /\ ents' = [table EXCEPT ![slot] = n + 1] /\ filled' = n + 1
    BY <1>1, <1>3, <1>8
  <2>. HIDE DEF n
  <2>2. texts' \in Seq(Texts) /\ Len(texts') = n + 1
    BY <1>3, <2>1 DEF n
  <2>3. texts'[n + 1] = text /\ \A o \in 1 .. n : texts'[o] = texts[o]
    BY <1>3, <2>1 DEF n
  <2>4. TextsDiffer'
    BY <1>3, <1>5, <1>8, <2>2, <2>3 DEF TextsDiffer, n
  <2>5. TableOf(ents', cap, 1 .. n \cup {n + 1}, texts')
    <3>1. Free \notin 1 .. n /\ n + 1 \notin 1 .. n /\ n + 1 # Free
      BY <1>3 DEF Free
    <3>2. \A p \in 1 .. n : texts[p] \in Texts
      BY <1>3 DEF n
    <3>. DEFINE objs == 1 .. n
    <3>3. TableOf(table, cap, objs, texts)
      BY <1>4 DEF n
    <3>4. \A p \in objs : texts'[p] = texts[p]
      BY <2>3
    <3>. HIDE DEF objs
    <3>5. TableOf([table EXCEPT ![slot] = n + 1], cap, objs \cup {n + 1}, texts')
      BY <1>2, <1>5, <1>8, <2>3, <3>1, <3>2, <3>3, <3>4, PutIn DEF objs
    <3>. QED  BY <2>1, <3>5 DEF objs
  <2>6. 1 .. n \cup {n + 1} = 1 .. n + 1
    BY <1>3
  <2>7. ents'[slot] = n + 1
    BY <1>4, <1>5, <2>1 DEF TableOf
  <2>8. n + 1 \in 1 .. n + 1
    BY <1>3
  <2>. QED
    BY <1>1, <1>2, <1>3, <1>6, <2>1, <2>2, <2>3, <2>4, <2>5, <2>6, <2>7, <2>8 DEF PoolInv
<1>. QED  BY <1>7, <1>8

LEMMA NextPool ==
    ASSUME PoolInv, [PoolNext]_poolVars
    PROVE  PoolInv'
<1>1. CASE PoolNext
  BY <1>1, NewPool DEF PoolNext
<1>2. CASE UNCHANGED poolVars
  BY <1>2 DEF poolVars, PoolInv, TextsDiffer
<1>. QED  BY <1>1, <1>2

(* A text gets one object, for all texts and hashes: growing and probing   *)
(* past slots of other hashes find the object that was made for it.        *)
THEOREM OneObjectPerText == PoolSpec => []OneObject
<1>1. PoolInit => PoolInv
  BY InitPool
<1>2. PoolInv /\ [PoolNext]_poolVars => PoolInv'
  BY NextPool
<1>3. PoolInv => OneObject
  BY DEF PoolInv, OneObject, TextsDiffer
<1>. QED  BY <1>1, <1>2, <1>3, PTL DEF PoolSpec

(* The used slots are as many as the objects, and that is what filled says. *)
LEMMA UsedSlots ==
    ASSUME PoolInv
    PROVE  ProbesEnd
<1>. DEFINE used == {i \in 0 .. slots - 1 : ents[i] # Free}
            n == Len(texts)
            at == [i \in used |-> ents[i]]
<1>1. n \in Nat /\ filled = n /\ filled < slots /\ TableOf(ents, slots, 1 .. n, texts)
      /\ slots \in Nat
  BY DEF PoolInv
<1>. HIDE DEF n
<1>2. at \in [used -> 1 .. n]
  BY <1>1 DEF TableOf
<1>3. \A i, j \in used : at[i] = at[j] => i = j
  BY <1>1 DEF TableOf
<1>4. \A o \in 1 .. n : \E i \in used : at[i] = o
  BY <1>1 DEF TableOf, Free
<1>. HIDE DEF at, used
<1>5. at \in Bijection(used, 1 .. n)
  <2>1. at \in Injection(used, 1 .. n)
    BY <1>2, <1>3 DEF Injection, IsInjective
  <2>2. at \in Surjection(used, 1 .. n)
    BY <1>2, <1>4 DEF Surjection
  <2>. QED  BY <2>1, <2>2 DEF Bijection
<1>6. IsFiniteSet(used)
  <2>1. used \in SUBSET (0 .. slots - 1)
    BY DEF used
  <2>2. 0 \in Int /\ slots - 1 \in Int
    BY <1>1
  <2>3. IsFiniteSet(0 .. slots - 1)
    BY <2>2, FS_Interval
  <2>. QED  BY <2>1, <2>3, FS_Subset
<1>7. Cardinality(1 .. n) = Cardinality(used)
  BY <1>5, <1>6, FS_Bijection DEF ExistsBijection
<1>8. Cardinality(1 .. n) = n
  <2>1. Cardinality(1 .. n) = IF 1 > n THEN 0 ELSE n - 1 + 1
    BY <1>1, FS_Interval
  <2>. QED  BY <1>1, <2>1
<1>. QED  BY <1>1, <1>7, <1>8 DEF ProbesEnd, used

(* Probing ends, for all texts, hashes and capacities: a slot is always    *)
(* free, and growing counts the used ones right.                           *)
THEOREM ProbingEnds == PoolSpec => []ProbesEnd
<1>1. PoolInit => PoolInv
  BY InitPool
<1>2. PoolInv /\ [PoolNext]_poolVars => PoolInv'
  BY NextPool
<1>3. PoolInv => ProbesEnd
  BY UsedSlots
<1>. QED  BY <1>1, <1>2, <1>3, PTL DEF PoolSpec

-----------------------------------------------------------------------------
(* The trace stack: its invariant.                                         *)

Ascends(s) == \A i, j \in 1 .. Len(s) : i < j => s[i] < s[j]
Below(s, n) == \A i \in 1 .. Len(s) : s[i] <= n

(* Each frame is the number of a call that stands no further out.          *)
Shown == \A i \in 1 .. Len(trace) : \E j \in i .. Len(calls) : trace[i] = calls[j]

(* Calls are numbered as they begin, so those under way ascend.            *)
TraceInv ==
    /\ made \in Nat
    /\ calls \in Seq(Nat) /\ Ascends(calls) /\ Below(calls, made)
    /\ trace \in Seq(Nat) /\ Ascends(trace) /\ Shown

-----------------------------------------------------------------------------
LEMMA PositionsNat ==
    ASSUME NEW s \in Seq(Nat)
    PROVE  Len(s) \in Nat /\ \A i \in 1 .. Len(s) : s[i] \in Nat
  BY ElementOfSeq, LenProperties

LEMMA Appended ==
    ASSUME NEW s \in Seq(Nat), NEW n \in Nat
    PROVE  /\ Append(s, n) \in Seq(Nat)
           /\ Len(Append(s, n)) = Len(s) + 1
           /\ Append(s, n)[Len(s) + 1] = n
           /\ \A i \in 1 .. Len(s) : Append(s, n)[i] = s[i]
  BY AppendProperties, PositionsNat

LEMMA Popped ==
    ASSUME NEW s \in Seq(Nat), s # <<>>
    PROVE  /\ Len(s) > 0
           /\ SubSeq(s, 1, Len(s) - 1) \in Seq(Nat)
           /\ Len(SubSeq(s, 1, Len(s) - 1)) = Len(s) - 1
           /\ \A i \in 1 .. Len(s) - 1 : SubSeq(s, 1, Len(s) - 1)[i] = s[i]
  <1> DEFINE n == Len(s) - 1
             t == SubSeq(s, 1, n)
  <1>1. Len(s) \in Nat /\ Len(s) > 0 /\ n \in Nat
    BY LenProperties, EmptySeq
  <1>2. \A i \in 1 .. n : s[i] \in Nat
    BY <1>1, PositionsNat
  <1>3. /\ t \in Seq(Nat) /\ Len(t) = IF 1 <= n THEN n - 1 + 1 ELSE 0
        /\ \A i \in 1 .. n - 1 + 1 : t[i] = s[1 + i - 1]
    BY <1>1, <1>2, SubSeqProperties
  <1> HIDE DEF n, t
  <1>4. Len(t) = n
    BY <1>1, <1>3
  <1>5. ASSUME NEW i \in 1 .. n PROVE t[i] = s[i]
    <2>1. i \in 1 .. n - 1 + 1 /\ 1 + i - 1 = i
      BY <1>1
    <2>2. t[i] = s[1 + i - 1]
      BY <1>3, <2>1
    <2>3. QED
      BY <2>1, <2>2
  <1>6. Len(s) > 0 /\ t \in Seq(Nat) /\ Len(t) = n /\ \A i \in 1 .. n : t[i] = s[i]
    BY <1>1, <1>3, <1>4, <1>5
  <1>7. QED
    BY <1>6 DEF n, t

(* A number above all keeps a sequence ascending.                          *)
LEMMA AppendAscends ==
    ASSUME NEW s \in Seq(Nat), NEW n \in Nat, Ascends(s), \A i \in 1 .. Len(s) : s[i] < n
    PROVE  Ascends(Append(s, n)) /\ Below(Append(s, n), n)
  <1> DEFINE t == Append(s, n)
  <1>1. /\ Len(s) \in Nat /\ Len(t) = Len(s) + 1 /\ t[Len(s) + 1] = n
        /\ \A i \in 1 .. Len(s) : t[i] = s[i] /\ s[i] < n /\ s[i] \in Nat
    BY Appended, PositionsNat
  <1> HIDE DEF t
  <1>2. ASSUME NEW i \in 1 .. Len(t), NEW j \in 1 .. Len(t), i < j
        PROVE  t[i] < t[j]
    <2>1. i \in 1 .. Len(s)
      BY <1>1, <1>2
    <2>2. CASE j \in 1 .. Len(s)
      <3>1. s[i] < s[j]
        BY <2>1, <2>2, <1>2 DEF Ascends
      <3>2. QED
        BY <3>1, <2>1, <2>2, <1>1
    <2>3. CASE j = Len(s) + 1
      <3>1. t[j] = n
        BY <2>3, <1>1
      <3>2. t[i] < n
        BY <2>1, <1>1
      <3>3. QED
        BY <3>1, <3>2
    <2>4. QED
      BY <2>2, <2>3, <1>1
  <1>3. ASSUME NEW i \in 1 .. Len(t)
        PROVE  t[i] <= n
    <2>1. CASE i \in 1 .. Len(s)
      <3>1. t[i] \in Nat /\ t[i] < n
        BY <2>1, <1>1
      <3>2. QED
        BY <3>1
    <2>2. CASE i = Len(s) + 1
      <3>1. t[i] = n
        BY <2>2, <1>1
      <3>2. QED
        BY <3>1
    <2>3. QED
      BY <2>1, <2>2, <1>1
  <1>4. Ascends(t) /\ Below(t, n)
    BY <1>2, <1>3 DEF Ascends, Below
  <1>5. QED
    BY <1>4 DEF t

LEMMA PopAscends ==
    ASSUME NEW s \in Seq(Nat), NEW n \in Nat, s # <<>>, Ascends(s), Below(s, n)
    PROVE  Ascends(SubSeq(s, 1, Len(s) - 1)) /\ Below(SubSeq(s, 1, Len(s) - 1), n)
  <1> DEFINE t == SubSeq(s, 1, Len(s) - 1)
  <1>1. /\ Len(s) \in Nat /\ Len(t) = Len(s) - 1
        /\ \A i \in 1 .. Len(s) - 1 : t[i] = s[i]
    BY Popped, LenProperties
  <1> HIDE DEF t
  <1>2. \A i \in 1 .. Len(t) : i \in 1 .. Len(s) /\ t[i] = s[i]
    BY <1>1
  <1>3. ASSUME NEW i \in 1 .. Len(t), NEW j \in 1 .. Len(t), i < j
        PROVE  t[i] < t[j]
    <2>1. s[i] < s[j]
      BY <1>2, <1>3 DEF Ascends
    <2>2. QED
      BY <2>1, <1>2
  <1>4. ASSUME NEW i \in 1 .. Len(t)
        PROVE  t[i] <= n
    BY <1>2, <1>4 DEF Below
  <1>5. Ascends(t) /\ Below(t, n)
    BY <1>3, <1>4 DEF Ascends, Below
  <1>6. QED
    BY <1>5 DEF t

(* There are no more frames than calls.                                    *)
LEMMA NoSpareFrames ==
    ASSUME TraceInv
    PROVE  Len(trace) \in Nat /\ Len(calls) \in Nat /\ Len(trace) <= Len(calls)
  <1>1. Len(trace) \in Nat /\ Len(calls) \in Nat
    BY PositionsNat DEF TraceInv
  <1>2. CASE Len(trace) = 0
    BY <1>1, <1>2
  <1>3. CASE Len(trace) > 0
    <2>1. \E j \in Len(trace) .. Len(calls) : trace[Len(trace)] = calls[j]
      BY <1>1, <1>3 DEF TraceInv, Shown
    <2>2. QED
      BY <2>1, <1>1
  <1>4. QED
    BY <1>1, <1>2, <1>3

-----------------------------------------------------------------------------
LEMMA EnterKeeps ==
    ASSUME TraceInv, Enter
    PROVE  TraceInv'
  <1>1. /\ made' = IF calls = <<>> THEN 1 ELSE made + 1
        /\ calls' = Append(calls, made')
        /\ trace' = IF Len(trace) < Frames THEN Append(trace, made') ELSE trace
    BY DEF Enter, Push
  <1>2. /\ made \in Nat /\ calls \in Seq(Nat) /\ trace \in Seq(Nat)
        /\ Ascends(calls) /\ Ascends(trace) /\ Below(calls, made) /\ Shown
    BY DEF TraceInv
  <1>3. Len(trace) \in Nat /\ Len(calls) \in Nat /\ Len(trace) <= Len(calls)
    BY NoSpareFrames
  <1>4. made' \in Nat
    BY <1>1, <1>2
  <1>5. \A i \in 1 .. Len(calls) : calls[i] < made'
    <2>1. CASE calls = <<>>
      BY <2>1, EmptySeq
    <2>2. CASE calls # <<>>
      <3>1. made' = made + 1
        BY <2>2, <1>1
      <3>2. TAKE i \in 1 .. Len(calls)
      <3>3. calls[i] \in Nat
        BY <1>2, PositionsNat
      <3>4. calls[i] <= made
        BY <1>2 DEF Below
      <3>5. QED
        BY <3>1, <3>3, <3>4, <1>2
    <2>3. QED
      BY <2>1, <2>2
  <1>6. /\ calls' \in Seq(Nat) /\ Len(calls') = Len(calls) + 1
        /\ calls'[Len(calls) + 1] = made'
        /\ \A i \in 1 .. Len(calls) : calls'[i] = calls[i]
    BY <1>1, <1>2, <1>4, Appended
  <1>7. Ascends(calls)' /\ Below(calls, made)'
    <2>1. Ascends(Append(calls, made')) /\ Below(Append(calls, made'), made')
      BY <1>2, <1>4, <1>5, AppendAscends
    <2>2. QED
      BY <2>1, <1>1 DEF Ascends, Below
  <1>8. \A i \in 1 .. Len(trace) : \E j \in i .. Len(calls') : trace[i] = calls'[j]
    <2>1. TAKE i \in 1 .. Len(trace)
    <2>2. PICK j \in i .. Len(calls) : trace[i] = calls[j]
      BY <1>2 DEF Shown
    <2>3. j \in i .. Len(calls') /\ j \in 1 .. Len(calls)
      BY <1>3, <1>6, <2>2
    <2>4. trace[i] = calls'[j]
      BY <2>2, <2>3, <1>6
    <2>5. QED
      BY <2>3, <2>4
  <1>9. CASE Len(trace) < Frames
    <2>1. trace' = Append(trace, made')
      BY <1>1, <1>9
    <2>2. /\ trace' \in Seq(Nat) /\ Len(trace') = Len(trace) + 1
          /\ trace'[Len(trace) + 1] = made'
          /\ \A i \in 1 .. Len(trace) : trace'[i] = trace[i]
      BY <2>1, <1>2, <1>4, Appended
    <2>3. \A i \in 1 .. Len(trace') : \E j \in i .. Len(calls') : trace'[i] = calls'[j]
      <3>1. TAKE i \in 1 .. Len(trace')
      <3>2. CASE i \in 1 .. Len(trace)
        BY <3>2, <2>2, <1>8
      <3>3. CASE i = Len(trace) + 1
        <4>1. Len(calls) + 1 \in i .. Len(calls')
          BY <3>3, <1>3, <1>6
        <4>2. trace'[i] = calls'[Len(calls) + 1]
          BY <3>3, <2>2, <1>6
        <4>3. QED
          BY <4>1, <4>2
      <3>4. QED
        BY <3>2, <3>3, <2>2, <1>3
    <2>4. \A i \in 1 .. Len(trace) : trace[i] < made'
      <3>1. TAKE i \in 1 .. Len(trace)
      <3>2. PICK j \in i .. Len(calls) : trace[i] = calls[j]
        BY <1>2 DEF Shown
      <3>3. j \in 1 .. Len(calls)
        BY <3>2, <1>3
      <3>4. QED
        BY <3>2, <3>3, <1>5
    <2>5. Ascends(trace)'
      <3>1. Ascends(Append(trace, made'))
        BY <1>2, <1>4, <2>4, AppendAscends
      <3>2. QED
        BY <3>1, <2>1 DEF Ascends
    <2>6. QED
      BY <2>2, <2>3, <2>5, <1>4, <1>6, <1>7 DEF TraceInv, Shown
  <1>10. CASE ~(Len(trace) < Frames)
    <2>1. trace' = trace
      BY <1>1, <1>10
    <2>2. QED
      BY <2>1, <1>2, <1>4, <1>6, <1>7, <1>8 DEF TraceInv, Shown, Ascends
  <1>11. QED
    BY <1>9, <1>10

(* Popping the innermost frame when the innermost call returns leaves no   *)
(* frame of that call, though it may have been the frame of an outer one.  *)
LEMMA LeaveKeeps ==
    ASSUME TraceInv, Leave
    PROVE  TraceInv'
  <1>1. /\ calls # <<>>
        /\ calls' = SubSeq(calls, 1, Len(calls) - 1)
        /\ trace' = IF trace = <<>> THEN trace ELSE SubSeq(trace, 1, Len(trace) - 1)
        /\ made' = made
    BY DEF Leave, Pop
  <1>2. /\ made \in Nat /\ calls \in Seq(Nat) /\ trace \in Seq(Nat)
        /\ Ascends(calls) /\ Ascends(trace) /\ Below(calls, made) /\ Shown
    BY DEF TraceInv
  <1>3. Len(trace) \in Nat /\ Len(calls) \in Nat
    BY <1>2, PositionsNat
  <1>4. /\ calls' \in Seq(Nat) /\ Len(calls') = Len(calls) - 1
        /\ \A i \in 1 .. Len(calls) - 1 : calls'[i] = calls[i]
    BY <1>1, <1>2, Popped
  <1>5. Ascends(calls)' /\ Below(calls, made)'
    <2>1. Ascends(SubSeq(calls, 1, Len(calls) - 1))
          /\ Below(SubSeq(calls, 1, Len(calls) - 1), made)
      BY <1>1, <1>2, PopAscends
    <2>2. QED
      BY <2>1, <1>1 DEF Ascends, Below
  <1>6. CASE trace = <<>>
    <2>1. trace' = <<>> /\ Len(trace') = 0
      BY <1>1, <1>6, EmptySeq
    <2>2. QED
      BY <2>1, <1>1, <1>2, <1>4, <1>5 DEF TraceInv, Shown, Ascends
  <1>7. CASE trace # <<>>
    <2>1. trace' = SubSeq(trace, 1, Len(trace) - 1)
      BY <1>1, <1>7
    <2>2. /\ Len(trace) > 0 /\ trace' \in Seq(Nat) /\ Len(trace') = Len(trace) - 1
          /\ \A i \in 1 .. Len(trace) - 1 : trace'[i] = trace[i]
      BY <2>1, <1>2, <1>7, Popped
    <2>3. \A i \in 1 .. Len(trace') : \E j \in i .. Len(calls') : trace'[i] = calls'[j]
      <3>1. TAKE i \in 1 .. Len(trace')
      <3>2. i \in 1 .. Len(trace) - 1 /\ i \in 1 .. Len(trace) /\ i < Len(trace)
            /\ Len(trace) \in 1 .. Len(trace)
        BY <1>3, <2>2
      <3>3. PICK j \in i .. Len(calls) : trace[i] = calls[j]
        BY <1>2, <3>2 DEF Shown
      <3>4. PICK k \in Len(trace) .. Len(calls) : trace[Len(trace)] = calls[k]
        BY <1>2, <3>2 DEF Shown
      <3>5. j \in 1 .. Len(calls) /\ k \in 1 .. Len(calls)
        BY <3>2, <3>3, <3>4, <1>3
      <3>6. trace[i] < trace[Len(trace)]
        BY <1>2, <3>2 DEF Ascends
      <3>7. calls[j] < calls[k] /\ calls[j] \in Nat /\ calls[k] \in Nat
        BY <3>3, <3>4, <3>5, <3>6, <1>2, PositionsNat
      <3>8. j # Len(calls)
        <4>1. SUFFICES ASSUME j = Len(calls) PROVE FALSE
          OBVIOUS
        <4>2. k < j \/ k = j
          BY <4>1, <3>5, <1>3
        <4>3. k < j => calls[k] < calls[j]
          BY <3>5, <1>2 DEF Ascends
        <4>4. QED
          BY <4>2, <4>3, <3>7
      <3>9. j \in i .. Len(calls') /\ j \in 1 .. Len(calls) - 1
        BY <3>2, <3>3, <3>5, <3>8, <1>3, <1>4
      <3>10. trace'[i] = calls'[j]
        BY <3>2, <3>3, <3>9, <1>4, <2>2
      <3>11. QED
        BY <3>9, <3>10
    <2>4. Ascends(trace)'
      <3>1. Below(trace, made)
        <4>1. ASSUME NEW i \in 1 .. Len(trace) PROVE trace[i] <= made
          <5>1. PICK j \in i .. Len(calls) : trace[i] = calls[j]
            BY <1>2, <4>1 DEF Shown
          <5>2. j \in 1 .. Len(calls)
            BY <5>1, <1>3
          <5>3. QED
            BY <5>1, <5>2, <1>2 DEF Below
        <4>2. QED
          BY <4>1 DEF Below
      <3>2. Ascends(SubSeq(trace, 1, Len(trace) - 1))
        BY <3>1, <1>2, <1>7, PopAscends
      <3>3. QED
        BY <3>2, <2>1 DEF Ascends
    <2>5. QED
      BY <2>2, <2>3, <2>4, <1>1, <1>2, <1>4, <1>5 DEF TraceInv, Shown
  <1>8. QED
    BY <1>6, <1>7

(* A stack trace shows calls that are under way, the innermost last: for   *)
(* a stack of any size, and also after it overflowed and frames were lost. *)
THEOREM TraceShowsPending == TraceSpec => []FramesPending
  <1>1. TraceInit => TraceInv
    BY EmptySeq DEF TraceInit, TraceInv, Ascends, Below, Shown
  <1>2. ASSUME TraceInv, [TraceNext]_traceVars PROVE TraceInv'
    <2>1. CASE UNCHANGED traceVars
      BY <1>2, <2>1 DEF traceVars, TraceInv, Ascends, Below, Shown
    <2>2. QED
      BY <1>2, <2>1, EnterKeeps, LeaveKeeps DEF TraceNext
  <1>3. TraceInv => FramesPending
    BY DEF TraceInv, FramesPending, Shown, Ascends
  <1>4. QED
    BY <1>1, <1>2, <1>3, PTL DEF TraceSpec

-----------------------------------------------------------------------------
(* Integers in bytes: powers of two, what the loops that write and read    *)
(* leave, and that what is read is what was written.                       *)

\* The table of powers is what its definition says, up to seven times the width.
LEMMA Powers ==
    /\ Power[0] = 1
    /\ \A k \in 1 .. 7 * Bits : Power[k] = 2 * Power[k - 1]
    /\ \A k \in 0 .. 7 * Bits : Power[k] \in Nat /\ Power[k] >= 1
<1>. DEFINE n == 7 * Bits
            next(m, i) == 2 * m
            H == [x \in Nat \X (1..n) |-> next(x[1], x[2])]
            Is(g) == g = [k \in 0 .. 7 * Bits |-> IF k = 0 THEN 1 ELSE 2 * g[k - 1]]
            power == CHOOSE g : Is(g)
<1>1. n \in Nat
  BY BitsAssumption
<1>2. \E g : Is(g)
  <2>. DEFINE IsUpTo(g) == g = [k \in 0..n |-> IF k = 0 THEN 1 ELSE 2 * g[k - 1]]
  <2>0. \A g : IsUpTo(g) => Is(g)
    OBVIOUS
  <2>. HIDE DEF n, Is
  <2>1. H \in [Nat \X (1..n) -> Nat]
    BY <1>1
  <2>2. \A m \in Nat, i \in 1..n : H[<<m, i>>] = next(m, i)
    OBVIOUS
  <2>. HIDE DEF H
  <2>3. \E g : GoesOn(g, n, Nat, 1, H)
    BY <1>1, <2>1, Iterates
  <2>4. PICK g \in [0..n -> Nat] : g[0] = 1 /\ \A i \in 1..n : g[i] = H[<<g[i - 1], i>>]
    BY <2>3 DEF GoesOn
  <2>5. ASSUME NEW i \in 1..n PROVE g[i] = next(g[i - 1], i)
    <3>1. g[i - 1] \in Nat
      BY <1>1
    <3>. QED  BY <2>2, <2>4, <3>1
  <2>6. \A i \in 0..n : g[i] = IF i = 0 THEN 1 ELSE 2 * g[i - 1]
    BY <1>1, <2>4, <2>5
  <2>7. IsUpTo(g)
    BY <2>6
  <2>. QED  BY <2>0, <2>7
<1>3. Is(Power)
  <2>1. Power = power
    BY DEF Power
  <2>. HIDE DEF Is
  <2>. QED  BY <1>2, <2>1
<1>. HIDE DEF power
<1>4. Power[0] = 1 /\ \A k \in 1..n : Power[k] = 2 * Power[k - 1]
  <2>1. Power = [k \in 0..n |-> IF k = 0 THEN 1 ELSE 2 * Power[k - 1]]
    BY <1>3
  <2>. HIDE DEF n, Is
  <2>. QED  BY <1>1, <2>1
<1>. HIDE DEF Is
<1>. DEFINE S == {k \in Nat : Power[k] \in Nat /\ Power[k] >= 1}
<1>5. 0 \in S
  BY <1>4
<1>6. ASSUME NEW k \in 1..n, k - 1 \in S PROVE k \in S
  BY <1>1, <1>4, <1>6
<1>. HIDE DEF S
<1>7. \A k \in 0..n : k \in S
  BY <1>1, <1>5, <1>6, UpTo
<1>. QED  BY <1>1, <1>4, <1>7 DEF S

\* A power of two times another one.
LEMMA PowerOfSum ==
    ASSUME NEW i \in Nat, NEW j \in Nat, i + j <= 7 * Bits
    PROVE  Power[i + j] = Power[i] * Power[j]
<1>. DEFINE S == {k \in Nat : Power[i + k] = Power[i] * Power[k]}
<1>1. 7 * Bits \in Nat
  BY BitsAssumption
<1>2. 0 \in S
  <2>1. Power[i] \in Nat /\ Power[0] = 1
    BY <1>1, Powers
  <2>. QED  BY <2>1
<1>3. ASSUME NEW k \in 1..j, k - 1 \in S PROVE k \in S
  <2>1. Power[i + (k - 1)] = Power[i] * Power[k - 1]
    BY <1>3
  <2>2. i + k \in 1 .. 7 * Bits /\ k \in 1 .. 7 * Bits /\ (i + k) - 1 = i + (k - 1)
    BY <1>1
  <2>3. Power[i + k] = 2 * Power[i + (k - 1)] /\ Power[k] = 2 * Power[k - 1]
    BY <2>2, Powers
  <2>4. Power[i] \in Nat /\ Power[k - 1] \in Nat
    BY <1>1, Powers
  <2>. QED  BY <2>1, <2>3, <2>4
<1>. HIDE DEF S
<1>4. \A k \in 0..j : k \in S
  BY <1>2, <1>3, UpTo
<1>. QED  BY <1>4 DEF S

LEMMA PowersGrow ==
    ASSUME NEW i \in Nat, NEW j \in Nat, i <= j, j <= 7 * Bits
    PROVE  Power[i] <= Power[j]
<1>1. 7 * Bits \in Nat /\ j - i \in Nat /\ i + (j - i) = j
  BY BitsAssumption
<1>2. Power[j] = Power[i] * Power[j - i]
  BY <1>1, PowerOfSum
<1>3. Power[i] \in Nat /\ Power[j - i] \in Nat /\ Power[j - i] >= 1
  BY <1>1, Powers
<1>. QED  BY <1>2, <1>3

\* A byte more is seven bits more.
LEMMA SevenBits ==
    ASSUME NEW k \in 1..Bits
    PROVE  Power[7 * k] = 128 * Power[7 * (k - 1)] /\ Power[7 * (k - 1)] \in Nat /\ Power[7 * (k - 1)] >= 1
<1>1. Bits \in Nat /\ k \in Nat /\ 7 * (k - 1) \in Nat /\ 7 * (k - 1) + 7 = 7 * k /\ 7 * k <= 7 * Bits /\ 7 <= 7 * Bits
  BY BitsAssumption
<1>2. Power[7 * k] = Power[7 * (k - 1)] * Power[7]
  BY <1>1, PowerOfSum
<1>3. Power[7] = 128
  <2>1. \A i \in 1..7 : Power[i] = 2 * Power[i - 1]
    BY <1>1, Powers
  <2>2. Power[1] = 2 /\ Power[2] = 2 * Power[1] /\ Power[3] = 2 * Power[2] /\ Power[4] = 2 * Power[3]
        /\ Power[5] = 2 * Power[4] /\ Power[6] = 2 * Power[5] /\ Power[7] = 2 * Power[6]
    BY <2>1, Powers
  <2>. QED  BY <2>2
<1>4. Power[7 * (k - 1)] \in Nat /\ Power[7 * (k - 1)] >= 1
  BY <1>1, Powers
<1>. QED  BY <1>2, <1>3, <1>4

\* What is left after a turn of the loop.
LEMMA Shifts ==
    ASSUME NEW val \in Int
    PROVE  /\ Shifted(val)[0] = val
           /\ \A k \in 1..Bits : Shifted(val)[k] = Shifted(val)[k - 1] \div 128
           /\ \A k \in 0..Bits : Shifted(val)[k] \in Int
<1>. DEFINE next(m) == m \div 128
            H == [x \in Int \X (1..Bits) |-> next(x[1])]
            Is(g) == g = [k \in 0..Bits |-> IF k = 0 THEN val ELSE g[k - 1] \div 128]
            after == CHOOSE g : Is(g)
<1>1. Bits \in Nat
  BY BitsAssumption
<1>2. \E g : Is(g)
  <2>. DEFINE Goes(g) == g = [k \in 0..Bits |-> IF k = 0 THEN val ELSE next(g[k - 1])]
  <2>1. \A g : Goes(g) => Is(g)
    OBVIOUS
  <2>2. \A m \in Int : next(m) \in Int
    OBVIOUS
  <2>. HIDE DEF Is, next
  <2>3. H \in [Int \X (1..Bits) -> Int]
    BY <2>2
  <2>4. \A m \in Int, i \in 1..Bits : H[<<m, i>>] = next(m)
    OBVIOUS
  <2>. HIDE DEF H
  <2>5. \E g : GoesOn(g, Bits, Int, val, H)
    BY <1>1, <2>3, Iterates
  <2>6. PICK g \in [0..Bits -> Int] : g[0] = val /\ \A i \in 1..Bits : g[i] = H[<<g[i - 1], i>>]
    BY <2>5 DEF GoesOn
  <2>7. ASSUME NEW i \in 1..Bits PROVE g[i] = next(g[i - 1])
    <3>1. g[i - 1] \in Int
      BY <1>1
    <3>. QED  BY <2>4, <2>6, <3>1
  <2>8. \A i \in 0..Bits : g[i] = IF i = 0 THEN val ELSE next(g[i - 1])
    <3>1. \A i \in 0..Bits : i = 0 \/ i \in 1..Bits
      BY <1>1
    <3>2. \A i \in 1..Bits : i # 0
      OBVIOUS
    <3>. QED  BY <2>6, <2>7, <3>1, <3>2
  <2>9. Goes(g)
    BY <2>8
  <2>. QED  BY <2>1, <2>9
<1>3. Is(Shifted(val))
  <2>1. Shifted(val) = after
    BY DEF Shifted
  <2>. HIDE DEF Is
  <2>. QED  BY <1>2, <2>1
<1>. HIDE DEF after
<1>4. Shifted(val)[0] = val /\ \A k \in 1..Bits : Shifted(val)[k] = Shifted(val)[k - 1] \div 128
  <2>1. \A k \in 0..Bits : Shifted(val)[k] = IF k = 0 THEN val ELSE next(Shifted(val)[k - 1])
    BY <1>3
  <2>2. 0 \in 0..Bits /\ \A k \in 1..Bits : k \in 0..Bits /\ k # 0
    BY <1>1
  <2>3. Shifted(val)[0] = val /\ \A k \in 1..Bits : Shifted(val)[k] = next(Shifted(val)[k - 1])
    <3>. HIDE DEF next, Is
    <3>. QED  BY <2>1, <2>2
  <2>. QED  BY <2>3
<1>. HIDE DEF Is
<1>. DEFINE S == {k \in Nat : Shifted(val)[k] \in Int}
<1>5. 0 \in S
  BY <1>4
<1>6. ASSUME NEW k \in 1..Bits, k - 1 \in S PROVE k \in S
  BY <1>1, <1>4, <1>6
<1>. HIDE DEF S
<1>7. \A k \in 0..Bits : k \in S
  BY <1>1, <1>5, <1>6, UpTo
<1>. QED  BY <1>4, <1>7 DEF S

\* The bytes of a loop that ends with the first of the turns T: one for each
\* turn, the last one without the eighth bit.
IsWritten(bytes, val, n) ==
    /\ bytes \in Seq(Nat) /\ Len(bytes) = n
    /\ \A k \in 1..n : /\ bytes[k] % 128 = Shifted(val)[k - 1] % 128
                       /\ bytes[k] < 128 <=> k = n
                       /\ k = n => bytes[k] = Shifted(val)[k - 1] % 128

LEMMA WrittenBytes ==
    ASSUME NEW val \in Int, NEW T \in SUBSET (1..Bits), T # {}
    PROVE  \E n \in T : (\A j \in T : n <= j) /\ IsWritten(Written(val, T), val, n)
<1>. DEFINE n == CHOOSE k \in T : \A j \in T : k <= j
            rest == Shifted(val)
            byte(k) == (rest[k - 1] % 128) + (IF k < n THEN 128 ELSE 0)
<1>1. n \in T /\ \A j \in T : n <= j
  <2>1. T \in SUBSET Nat
    OBVIOUS
  <2>. QED  BY <2>1, LeastNumber
<1>. HIDE DEF n
<1>2. n \in 1..Bits /\ Bits \in Nat
  BY <1>1, BitsAssumption
<1>3. Written(val, T) = [k \in 1..n |-> byte(k)]
  BY DEF Written, n
<1>4. ASSUME NEW k \in 1..n PROVE rest[k - 1] % 128 \in 0..127
  <2>1. rest[k - 1] \in Int
    BY <1>2, Shifts
  <2>. QED  BY <2>1
<1>5. ASSUME NEW k \in 1..n
      PROVE  byte(k) \in Nat /\ byte(k) % 128 = rest[k - 1] % 128 /\ (byte(k) < 128 <=> k = n)
             /\ (k = n => byte(k) = rest[k - 1] % 128)
  <2>. DEFINE d == rest[k - 1] % 128
  <2>1. d \in 0..127
    BY <1>4
  <2>. HIDE DEF d
  <2>2. d % 128 = d /\ (d + 128) % 128 = d
    BY <2>1
  <2>3. byte(k) = d + (IF k < n THEN 128 ELSE 0)
    BY DEF d
  <2>. HIDE DEF byte
  <2>4. CASE k < n
    <3>1. byte(k) = d + 128
      BY <2>3, <2>4
    <3>. QED  BY <1>2, <2>1, <2>2, <2>4, <3>1 DEF d
  <2>5. CASE k = n
    <3>1. byte(k) = d
      BY <1>2, <2>1, <2>3, <2>5
    <3>. QED  BY <1>2, <2>1, <2>2, <2>5, <3>1 DEF d
  <2>. QED  BY <1>2, <2>4, <2>5
<1>6. Written(val, T) \in Seq(Nat) /\ Len(Written(val, T)) = n /\ \A k \in 1..n : Written(val, T)[k] = byte(k)
  <2>. HIDE DEF byte, rest
  <2>1. Written(val, T) \in [1..n -> Nat]
    BY <1>3, <1>5
  <2>2. Written(val, T) \in Seq(Nat)
    BY <1>2, <2>1, SeqDef
  <2>. QED  BY <1>2, <1>3, <2>1, <2>2, LenProperties
<1>. HIDE DEF byte
<1>7. IsWritten(Written(val, T), val, n)
  BY <1>5, <1>6 DEF IsWritten
<1>. QED  BY <1>1, <1>7

\* The digits are the number but for what is left when the loop has ended.
LEMMA DigitsRead ==
    ASSUME NEW val \in Int, NEW n \in 1..Bits, NEW bytes,
           \A k \in 1..n : bytes[k] % 128 = Shifted(val)[k - 1] % 128
    PROVE  \E w \in 0 .. Power[7 * n] - 1 : /\ val = w + Power[7 * n] * Shifted(val)[n]
                                            /\ Digits(bytes, n) = w % Power[Bits]
<1>. DEFINE rest == Shifted(val)
            next(m, k) == m + (bytes[k] % 128) * Power[7 * (k - 1)]
            H == [x \in Int \X (1..n) |-> next(x[1], x[2])]
            Is(g) == g = [k \in 0..n |-> IF k = 0 THEN 0 ELSE g[k - 1] + (bytes[k] % 128) * Power[7 * (k - 1)]]
            sum == CHOOSE g : Is(g)
<1>1. n \in Nat /\ Bits \in Nat
  BY BitsAssumption
<1>2. ASSUME NEW k \in 1..n
      PROVE  /\ bytes[k] % 128 \in 0..127 /\ rest[k - 1] \in Int /\ rest[k] \in Int
             /\ rest[k - 1] = 128 * rest[k] + (bytes[k] % 128)
             /\ Power[7 * k] = 128 * Power[7 * (k - 1)] /\ Power[7 * (k - 1)] \in Nat /\ Power[7 * (k - 1)] >= 1
  <2>1. k \in 1..Bits
    BY <1>1
  <2>2. rest[k - 1] \in Int /\ rest[k] = rest[k - 1] \div 128 /\ rest[k] \in Int
    BY <1>1, <2>1, Shifts
  <2>3. bytes[k] % 128 = rest[k - 1] % 128
    OBVIOUS
  <2>. DEFINE x == rest[k - 1]  d == bytes[k] % 128
  <2>4. x \in Int /\ d = x % 128 /\ rest[k] = x \div 128
    BY <2>2, <2>3
  <2>. HIDE DEF x, d, rest
  <2>5. d \in 0..127 /\ x = 128 * rest[k] + d
    BY <2>4
  <2>. QED  BY <2>1, <2>2, <2>5, SevenBits DEF x, d
<1>3. \A k \in 1..n, m \in Int : next(m, k) \in Int
  BY <1>2
<1>4. \E g : Is(g)
  <2>. DEFINE Goes(g) == g = [k \in 0..n |-> IF k = 0 THEN 0 ELSE next(g[k - 1], k)]
  <2>1. \A g : Goes(g) => Is(g)
    OBVIOUS
  <2>. HIDE DEF Is, next
  <2>2. H \in [Int \X (1..n) -> Int]
    BY <1>3
  <2>3. \A m \in Int, i \in 1..n : H[<<m, i>>] = next(m, i)
    OBVIOUS
  <2>. HIDE DEF H
  <2>4. \E g : GoesOn(g, n, Int, 0, H)
    <3>1. 0 \in Int
      OBVIOUS
    <3>. QED  BY <1>1, <2>2, <3>1, Iterates
  <2>5. PICK g \in [0..n -> Int] : g[0] = 0 /\ \A i \in 1..n : g[i] = H[<<g[i - 1], i>>]
    BY <2>4 DEF GoesOn
  <2>6. ASSUME NEW i \in 1..n PROVE g[i] = next(g[i - 1], i)
    <3>1. g[i - 1] \in Int
      BY <1>1
    <3>. QED  BY <2>3, <2>5, <3>1
  <2>7. \A i \in 0..n : g[i] = IF i = 0 THEN 0 ELSE next(g[i - 1], i)
    BY <1>1, <2>5, <2>6
  <2>8. Goes(g)
    BY <2>7
  <2>. QED  BY <2>1, <2>8
<1>5. Is(sum)
  <2>. HIDE DEF Is
  <2>. QED  BY <1>4
<1>6. Digits(bytes, n) = sum[n] % Power[Bits]
  BY DEF Digits
<1>. HIDE DEF sum
<1>7. sum[0] = 0 /\ \A k \in 1..n : sum[k] = next(sum[k - 1], k)
  BY <1>1, <1>5
<1>. HIDE DEF Is
<1>. DEFINE S == {k \in 0..n : /\ sum[k] \in 0 .. Power[7 * k] - 1
                               /\ val = sum[k] + Power[7 * k] * rest[k]}
<1>8. 0 \in S
  <2>1. Power[7 * 0] = 1
    BY Powers
  <2>2. rest[0] = val
    BY Shifts
  <2>. HIDE DEF rest
  <2>. QED  BY <1>1, <1>7, <2>1, <2>2
<1>9. ASSUME NEW k \in 1..n, k - 1 \in S PROVE k \in S
  <2>. DEFINE s == sum[k - 1]
              p == Power[7 * (k - 1)]
              d == bytes[k] % 128
              r == rest[k]
  <2>1. s \in 0 .. p - 1 /\ val = s + p * rest[k - 1]
    BY <1>9
  <2>2. d \in 0..127 /\ r \in Int /\ rest[k - 1] = 128 * r + d /\ Power[7 * k] = 128 * p /\ p \in Nat /\ p >= 1
    BY <1>2
  <2>3. sum[k] = s + d * p
    BY <1>7
  <2>. HIDE DEF s, p, d, r
  <2>4. d * p \in Nat /\ d * p <= 127 * p
    BY <2>2
  <2>5. sum[k] \in 0 .. 128 * p - 1
    BY <2>1, <2>2, <2>3, <2>4
  <2>6. val = (s + d * p) + (128 * p) * r
    BY <2>1, <2>2
  <2>. QED  BY <2>2, <2>3, <2>5, <2>6 DEF r
<1>. HIDE DEF S, next
<1>10. n \in S
  <2>1. \A i \in 0..n : i \in S
    BY <1>1, <1>8, <1>9, UpTo
  <2>. QED  BY <1>1, <2>1
<1>. QED  BY <1>6, <1>10 DEF S

\* What is left after n turns, and what was written by then, make the number.
LEMMA Left ==
    ASSUME NEW val \in Int, NEW n \in 0..Bits
    PROVE  /\ Power[7 * n] \in Nat /\ Power[7 * n] >= 1 /\ Shifted(val)[n] \in Int
           /\ \E w \in 0 .. Power[7 * n] - 1 : val = w + Power[7 * n] * Shifted(val)[n]
<1>1. Bits \in Nat /\ 7 * n \in 0 .. 7 * Bits
  BY BitsAssumption
<1>2. Power[7 * n] \in Nat /\ Power[7 * n] >= 1 /\ Shifted(val)[n] \in Int
  BY <1>1, Powers, Shifts
<1>3. CASE n = 0
  <2>1. Power[7 * n] = 1 /\ Shifted(val)[n] = val
    BY <1>3, Powers, Shifts
  <2>. QED  BY <1>2, <2>1
<1>4. CASE n # 0
  <2>. DEFINE bytes == [k \in 1..n |-> Shifted(val)[k - 1] % 128]
  <2>1. n \in 1..Bits
    BY <1>4
  <2>2. ASSUME NEW k \in 1..n PROVE bytes[k] % 128 = Shifted(val)[k - 1] % 128
    <3>1. k - 1 \in 0..Bits
      BY <1>1
    <3>2. Shifted(val)[k - 1] \in Int
      BY <3>1, Shifts
    <3>3. bytes[k] = Shifted(val)[k - 1] % 128
      OBVIOUS
    <3>. HIDE DEF bytes
    <3>. QED  BY <3>2, <3>3
  <2>. HIDE DEF bytes
  <2>3. \E w \in 0 .. Power[7 * n] - 1 : val = w + Power[7 * n] * Shifted(val)[n]
    BY <2>1, <2>2, DigitsRead
  <2>. QED  BY <1>2, <2>3
<1>. QED  BY <1>3, <1>4

\* What the bytes of a word amount to.
LEMMA Widths ==
    /\ Bits \in Nat /\ Bits >= 1
    /\ MaxBytes \in 1..Bits
    /\ 7 * (MaxBytes - 1) <= Bits - 1 /\ Bits - 1 <= 7 * (MaxBytes - 1) + 6
    /\ Power[Bits] = 2 * Power[Bits - 1] /\ Power[Bits - 1] \in Nat /\ Power[Bits - 1] >= 1
    /\ Power[Bits] <= Power[7 * MaxBytes]
    /\ Power[Bits - 1] <= 64 * Power[7 * (MaxBytes - 1)]
<1>1. Bits \in Nat /\ Bits >= 1
  BY BitsAssumption
<1>2. MaxBytes \in 1..Bits /\ 7 * (MaxBytes - 1) <= Bits - 1 /\ Bits - 1 <= 7 * (MaxBytes - 1) + 6
  BY <1>1 DEF MaxBytes
<1>3. Power[Bits] = 2 * Power[Bits - 1] /\ Power[Bits - 1] \in Nat /\ Power[Bits - 1] >= 1
  <2>1. Bits \in 1 .. 7 * Bits /\ Bits - 1 \in 0 .. 7 * Bits
    BY <1>1
  <2>. QED  BY <2>1, Powers
<1>4. Power[Bits] <= Power[7 * MaxBytes]
  <2>1. Bits \in Nat /\ 7 * MaxBytes \in Nat /\ Bits <= 7 * MaxBytes /\ 7 * MaxBytes <= 7 * Bits
    BY <1>1, <1>2
  <2>. QED  BY <2>1, PowersGrow
<1>5. Power[Bits - 1] <= 64 * Power[7 * (MaxBytes - 1)]
  <2>. DEFINE i == 7 * (MaxBytes - 1)
  <2>1. i \in Nat /\ i + 6 \in Nat /\ i + 6 <= 7 * Bits /\ Bits - 1 \in Nat /\ Bits - 1 <= i + 6 /\ 6 <= 7 * Bits
    BY <1>1, <1>2
  <2>. HIDE DEF i
  <2>2. Power[Bits - 1] <= Power[i + 6] /\ Power[i + 6] = Power[i] * Power[6]
    BY <2>1, PowersGrow, PowerOfSum
  <2>3. Power[6] = 64
    <3>1. \A k \in 1..6 : Power[k] = 2 * Power[k - 1]
      BY <1>1, Powers
    <3>2. Power[1] = 2 * Power[0] /\ Power[2] = 2 * Power[1] /\ Power[3] = 2 * Power[2]
          /\ Power[4] = 2 * Power[3] /\ Power[5] = 2 * Power[4] /\ Power[6] = 2 * Power[5]
      BY <3>1
    <3>. QED  BY <3>2, Powers
  <2>4. i \in 0 .. 7 * Bits
    BY <1>1, <2>1
  <2>5. Power[i] \in Nat
    BY <2>4, Powers
  <2>6. Power[i] * 64 = 64 * Power[i]
    BY <2>5
  <2>. QED  BY <2>2, <2>3, <2>6 DEF i
<1>. QED  BY <1>1, <1>2, <1>3, <1>4, <1>5

\* The loop for numbers without a sign ends within the bytes of a word.
LEMMA UnsignedWritten ==
    ASSUME NEW val \in Words
    PROVE  /\ val \in Nat /\ val < Power[Bits]
           /\ \E n \in 1..Bits : /\ n <= MaxBytes /\ Shifted(val)[n] = 0
                                 /\ IsWritten(WriteUnsigned(val), val, n)
<1>. DEFINE T == {k \in 1..Bits : Shifted(val)[k] = 0}
<1>1. val \in Nat /\ val < Power[Bits] /\ Power[Bits] \in Nat
  BY Widths DEF Words
<1>2. MaxBytes \in T
  <2>. DEFINE p == Power[7 * MaxBytes]  r == Shifted(val)[MaxBytes]
  <2>1. MaxBytes \in 0..Bits
    BY Widths
  <2>2. p \in Nat /\ p >= 1 /\ r \in Int
    BY <1>1, <2>1, Left
  <2>3. PICK w \in 0 .. p - 1 : val = w + p * r
    BY <1>1, <2>1, Left
  <2>4. val < p
    BY <1>1, <2>2, Widths
  <2>. HIDE DEF p, r
  <2>5. p * 0 <= w + p * r /\ w + p * r < p * 1
    BY <1>1, <2>2, <2>3, <2>4
  <2>6. 0 <= r /\ r < 1
    BY <2>2, <2>5, LeftBetween
  <2>. QED  BY <2>2, <2>6, Widths DEF r
<1>3. \A k \in T : k \in 1..Bits /\ Shifted(val)[k] = 0
  OBVIOUS
<1>4. T \in SUBSET (1..Bits)
  OBVIOUS
<1>5. WriteUnsigned(val) = Written(val, T)
  BY DEF WriteUnsigned
<1>. HIDE DEF T
<1>6. PICK n \in T : (\A j \in T : n <= j) /\ IsWritten(Written(val, T), val, n)
  BY <1>1, <1>2, <1>4, WrittenBytes
<1>. QED  BY <1>1, <1>2, <1>3, <1>5, <1>6

\* The loop for numbers with a sign ends within the bytes of a word.
LEMMA SignedWritten ==
    ASSUME NEW val \in Int, -Power[Bits - 1] <= val, val < Power[Bits - 1]
    PROVE  \E n \in 1..Bits : /\ n <= MaxBytes /\ SignEnds(Shifted(val)[n], Shifted(val)[n - 1] % 128)
                              /\ IsWritten(WriteSigned(val), val, n)
<1>. DEFINE T == {k \in 1..Bits : SignEnds(Shifted(val)[k], Shifted(val)[k - 1] % 128)}
<1>1. MaxBytes \in T
  <2>. DEFINE m == MaxBytes - 1
              p == Power[7 * m]
              r == Shifted(val)[m]
  <2>1. m \in 0..Bits /\ MaxBytes \in 1..Bits
    BY Widths
  <2>2. p \in Nat /\ p >= 1 /\ r \in Int
    BY <2>1, Left
  <2>3. PICK w \in 0 .. p - 1 : val = w + p * r
    BY <2>1, Left
  <2>4. -(64 * p) <= val /\ val < 64 * p
    <3>1. Power[Bits - 1] <= 64 * p /\ Power[Bits - 1] \in Nat
      BY Widths
    <3>. HIDE DEF p
    <3>. QED  BY <2>2, <3>1
  <2>5. Shifted(val)[MaxBytes] = r \div 128
    BY <2>1, Shifts
  <2>. HIDE DEF p, r
  <2>6. p * (-64) <= w + p * r /\ w + p * r < p * 64
    BY <2>2, <2>3, <2>4
  <2>7. -64 <= r /\ r < 64
    BY <2>2, <2>6, LeftBetween
  <2>8. SignEnds(r \div 128, r % 128)
    <3>1. CASE r >= 0
      BY <2>2, <2>7, <3>1 DEF SignEnds
    <3>2. CASE r < 0
      BY <2>2, <2>7, <3>2 DEF SignEnds
    <3>. QED  BY <2>2, <3>1, <3>2
  <2>. QED  BY <2>1, <2>5, <2>8 DEF r
<1>2. \A k \in T : k \in 1..Bits /\ SignEnds(Shifted(val)[k], Shifted(val)[k - 1] % 128)
  OBVIOUS
<1>3. T \in SUBSET (1..Bits)
  OBVIOUS
<1>4. WriteSigned(val) = Written(val, T)
  BY DEF WriteSigned
<1>. HIDE DEF T
<1>5. PICK n \in T : (\A j \in T : n <= j) /\ IsWritten(Written(val, T), val, n)
  BY <1>1, <1>3, WrittenBytes
<1>. QED  BY <1>1, <1>2, <1>4, <1>5

\* What was written ends where it does, and nowhere before.
LEMMA EndFound ==
    ASSUME NEW val \in Int, NEW n \in 1..Bits, NEW bytes, IsWritten(bytes, val, n)
    PROVE  /\ Ends(bytes) = {n}
           /\ \A k \in 0 .. n - 1 : Ends(SubSeq(bytes, 1, k)) = {}
<1>1. n \in Nat /\ bytes \in Seq(Nat) /\ DOMAIN bytes = 1..n /\ \A k \in 1..n : bytes[k] \in Nat /\ (bytes[k] < 128 <=> k = n)
  <2>1. Bits \in Nat
    BY BitsAssumption
  <2>2. bytes \in Seq(Nat) /\ Len(bytes) = n
    BY DEF IsWritten
  <2>. QED  BY <2>1, <2>2, ElementOfSeq, LenProperties DEF IsWritten
<1>2. Ends(bytes) = {n}
  BY <1>1 DEF Ends
<1>3. ASSUME NEW k \in 0 .. n - 1 PROVE Ends(SubSeq(bytes, 1, k)) = {}
  <2>1. k \in Nat /\ k <= n /\ Len(bytes) = n
    BY <1>1 DEF IsWritten
  <2>2. DOMAIN SubSeq(bytes, 1, k) = 1..k /\ \A i \in 1..k : SubSeq(bytes, 1, k)[i] = bytes[i]
    BY <1>1, <2>1
  <2>3. \A i \in 1..k : ~ (SubSeq(bytes, 1, k)[i] < 128)
    BY <1>1, <2>1, <2>2
  <2>. QED  BY <2>2, <2>3 DEF Ends
<1>. QED  BY <1>2, <1>3

\* A number without a sign is read as it was written.
LEMMA UnsignedKept ==
    ASSUME NEW val \in Words
    PROVE  ReadUnsigned(WriteUnsigned(val)) = val
<1>. DEFINE bytes == WriteUnsigned(val)
<1>1. val \in Nat /\ val < Power[Bits]
  BY UnsignedWritten
<1>2. PICK n \in 1..Bits : n <= MaxBytes /\ Shifted(val)[n] = 0 /\ IsWritten(bytes, val, n)
  BY UnsignedWritten
<1>. HIDE DEF bytes
<1>3. Ends(bytes) = {n}
  BY <1>1, <1>2, EndFound
<1>4. \A k \in 1..n : bytes[k] % 128 = Shifted(val)[k - 1] % 128
  BY <1>2 DEF IsWritten
<1>5. PICK w \in 0 .. Power[7 * n] - 1 : /\ val = w + Power[7 * n] * Shifted(val)[n]
                                         /\ Digits(bytes, n) = w % Power[Bits]
  BY <1>1, <1>4, DigitsRead
<1>6. Power[7 * n] \in Nat /\ Power[Bits] \in Nat /\ Power[Bits] >= 1
  <2>1. n \in 0..Bits
    OBVIOUS
  <2>2. Power[7 * n] \in Nat
    BY <1>1, <2>1, Left
  <2>. QED  BY <2>2, Widths
<1>7. w = val
  BY <1>1, <1>2, <1>5, <1>6
<1>8. w % Power[Bits] = val
  BY <1>1, <1>6, <1>7
<1>9. ReadUnsigned(bytes) = Digits(bytes, n)
  BY <1>2, <1>3 DEF ReadUnsigned
<1>. QED  BY <1>5, <1>8, <1>9 DEF bytes

\* A number with a sign is read as it was written: where the bytes do not fill the
\* width the sign is extended, and where they do it falls out of the width.
LEMMA SignedKept ==
    ASSUME NEW val \in Int, -Power[Bits - 1] <= val, val < Power[Bits - 1]
    PROVE  ReadSigned(WriteSigned(val)) = val
<1>. DEFINE bytes == WriteSigned(val)
            P == Power[Bits]
            h == Power[Bits - 1]
<1>1. PICK n \in 1..Bits : /\ n <= MaxBytes /\ SignEnds(Shifted(val)[n], Shifted(val)[n - 1] % 128)
                           /\ IsWritten(bytes, val, n)
  BY SignedWritten
<1>. HIDE DEF bytes
<1>2. Ends(bytes) = {n}
  BY <1>1, EndFound
<1>3. \A k \in 1..n : bytes[k] % 128 = Shifted(val)[k - 1] % 128
  BY <1>1 DEF IsWritten
<1>. DEFINE p == Power[7 * n]  r == Shifted(val)[n]  last == bytes[n]
<1>4. PICK w \in 0 .. p - 1 : val = w + p * r /\ Digits(bytes, n) = w % P
  BY <1>3, DigitsRead
<1>5. p \in Nat /\ p >= 1
  BY Left
<1>6. P = 2 * h /\ h \in Nat /\ h >= 1
  BY Widths
<1>7. n \in Nat /\ Bits \in Nat /\ n \in 1..n
  BY Widths
<1>8. last \in Int /\ ((r = 0 /\ last < 64) \/ (r = -1 /\ last >= 64))
  <2>1. last = Shifted(val)[n - 1] % 128
    BY <1>1, <1>7 DEF IsWritten
  <2>2. last \in Nat
    BY <1>1, <1>7, LenProperties, ElementOfSeq DEF IsWritten
  <2>. QED  BY <1>1, <2>1, <2>2 DEF SignEnds
<1>. DEFINE read == Signed(IF 7 * n < Bits /\ last >= 64 THEN Digits(bytes, n) + P - p ELSE Digits(bytes, n))
<1>9. ReadSigned(bytes) = read
  BY <1>1, <1>2 DEF ReadSigned
<1>10. \A x \in 0 .. P - 1 : Signed(x) = IF x >= h THEN x - P ELSE x
  BY DEF Signed
<1>11. 7 * n < Bits => p <= h
  <2>1. 7 * n \in Nat
    BY <1>7
  <2>2. 7 * n < Bits => 7 * n <= Bits - 1 /\ Bits - 1 \in Nat /\ Bits - 1 <= 7 * Bits
    BY <1>7, <2>1
  <2>. QED  BY <2>1, <2>2, PowersGrow
<1>12. 7 * n >= Bits => \E q \in Nat : q >= 1 /\ p = P * q
  <2>. HAVE 7 * n >= Bits
  <2>1. 7 * n - Bits \in Nat /\ Bits + (7 * n - Bits) = 7 * n /\ 7 * n <= 7 * Bits /\ 7 * n - Bits \in 0 .. 7 * Bits
    BY <1>7
  <2>. DEFINE q == Power[7 * n - Bits]
  <2>2. q \in Nat /\ q >= 1
    BY <2>1, Powers
  <2>3. Power[Bits + (7 * n - Bits)] = P * q
    BY <1>7, <2>1, PowerOfSum
  <2>4. p = P * q
    BY <2>1, <2>3
  <2>. QED  BY <2>2, <2>4
<1>. HIDE DEF P, h, p, r, last
<1>13. Digits(bytes, n) = IF w < P THEN w ELSE w % P
  BY <1>4, <1>5, <1>6
<1>14. CASE r = 0 /\ last < 64
  <2>1. w = val
    BY <1>4, <1>5, <1>14
  <2>2. w \in 0 .. P - 1 /\ w < h
    BY <1>4, <1>5, <1>6, <2>1 DEF h
  <2>3. Digits(bytes, n) = w
    BY <1>6, <1>13, <2>2
  <2>4. read = Signed(w)
    BY <1>8, <1>14, <2>3
  <2>5. Signed(w) = w
    BY <1>6, <1>10, <2>2
  <2>. HIDE DEF read
  <2>. QED  BY <1>9, <2>1, <2>4, <2>5 DEF bytes
<1>15. CASE r = -1 /\ last >= 64
  <2>1. w = val + p
    BY <1>4, <1>5, <1>15
  <2>2. -h <= val /\ val < 0
    BY <1>4, <1>5, <2>1 DEF h
  <2>. DEFINE x == val + P
  <2>3. x \in 0 .. P - 1 /\ x >= h
    BY <1>6, <2>2
  <2>4. read = Signed(x)
    <3>1. CASE 7 * n < Bits
      <4>1. p <= h
        BY <1>11, <3>1
      <4>2. w < P
        BY <1>4, <1>5, <1>6, <4>1
      <4>3. Digits(bytes, n) = w
        BY <1>13, <4>2
      <4>4. w + P - p = x
        BY <1>5, <1>6, <2>1
      <4>. QED  BY <1>8, <1>15, <3>1, <4>3, <4>4
    <3>2. CASE ~ (7 * n < Bits)
      <4>1. PICK q \in Nat : q >= 1 /\ p = P * q
        BY <1>7, <1>12, <3>2
      <4>2. w = P * (q - 1) + x
        <5>1. P * (q - 1) = P * q - P
          BY <1>6
        <5>2. P * q \in Int
          BY <1>6
        <5>. QED  BY <1>6, <2>1, <4>1, <5>1, <5>2
      <4>. HIDE DEF x
      <4>3. (P * (q - 1) + x) % P = x
        BY <1>6, <2>3, OnlyRemainder
      <4>4. Digits(bytes, n) = x
        BY <1>4, <4>2, <4>3
      <4>. QED  BY <3>2, <4>4
    <3>. QED  BY <3>1, <3>2
  <2>. HIDE DEF read, x
  <2>5. read = x - P
    BY <1>10, <2>3, <2>4
  <2>6. x - P = val
    BY <1>6 DEF x
  <2>. QED  BY <1>9, <2>5, <2>6 DEF bytes
<1>. QED  BY <1>8, <1>14, <1>15

\* What a word means as a number with a sign.
LEMMA SignedBetween ==
    ASSUME NEW w \in Words
    PROVE  Signed(w) \in Int /\ -Power[Bits - 1] <= Signed(w) /\ Signed(w) < Power[Bits - 1]
BY Widths DEF Signed, Words

\* What is cut off before its end has no end.
LEMMA CutRead ==
    ASSUME NEW bytes, Ends(bytes) = {}
    PROVE  ReadUnsigned(bytes) = Error /\ ReadSigned(bytes) = Error
BY DEF ReadUnsigned, ReadSigned

IsWord == word \in Words

LEMMA WordInit == CodecInit => IsWord
BY DEF CodecInit, IsWord

LEMMA WordNext == IsWord /\ [CodecNext]_codecVars => IsWord'
<1>1. Power[Bits] \in Nat /\ Power[Bits] >= 1
  BY Widths
<1>2. ASSUME word \in Words, word' = (word + 1) % Power[Bits] PROVE word' \in Words
  <2>1. word + 1 \in Int
    BY <1>1, <1>2 DEF Words
  <2>2. (word + 1) % Power[Bits] \in 0 .. Power[Bits] - 1
    BY <1>1, <2>1, Remainder
  <2>. QED  BY <1>2, <2>2 DEF Words
<1>. QED  BY <1>2 DEF CodecNext, NextWord, NextText, codecVars, IsWord

\* What was shown of every number, said of the word at hand.
LEMMA EveryWordKept == IsWord => NumbersKept
<1>. SUFFICES ASSUME word \in Words PROVE NumbersKept
  BY DEF IsWord
<1>1. Signed(word) \in Int /\ -Power[Bits - 1] <= Signed(word) /\ Signed(word) < Power[Bits - 1]
  BY SignedBetween
<1>. QED  BY <1>1, UnsignedKept, SignedKept DEF NumbersKept

LEMMA EveryCutIsError == IsWord => CutIsError
<1>. SUFFICES ASSUME word \in Words PROVE CutIsError
  BY DEF IsWord
<1>1. ASSUME NEW val \in Int, NEW n \in 1..Bits, NEW bytes, IsWritten(bytes, val, n), NEW k \in 0 .. Len(bytes) - 1
      PROVE  ReadUnsigned(SubSeq(bytes, 1, k)) = Error /\ ReadSigned(SubSeq(bytes, 1, k)) = Error
  <2>1. k \in 0 .. n - 1
    BY <1>1 DEF IsWritten
  <2>2. Ends(SubSeq(bytes, 1, k)) = {}
    BY <1>1, <2>1, EndFound
  <2>. QED  BY <2>2, CutRead
<1>2. word \in Int /\ \E n \in 1..Bits : IsWritten(WriteUnsigned(word), word, n)
  BY UnsignedWritten
<1>3. Signed(word) \in Int /\ \E n \in 1..Bits : IsWritten(WriteSigned(Signed(word)), Signed(word), n)
  <2>1. Signed(word) \in Int /\ -Power[Bits - 1] <= Signed(word) /\ Signed(word) < Power[Bits - 1]
    BY SignedBetween
  <2>. QED  BY <2>1, SignedWritten
<1>. QED  BY <1>1, <1>2, <1>3 DEF CutIsError

\* Every integer is read back as the loops of thunk.c wrote it, for every width of
\* word: the 64 bits of the code among them.
THEOREM IntegersKept == CodecSpec => []NumbersKept
BY WordInit, WordNext, EveryWordKept, PTL DEF CodecSpec

\* An integer whose last bytes are missing is refused for every width of word.
THEOREM CutNumbersRefused == CodecSpec => []CutIsError
BY WordInit, WordNext, EveryCutIsError, PTL DEF CodecSpec

-----------------------------------------------------------------------------
(* Readings as literals: what the reader makes of one printed character, and  *)
(* of all of them, from the last one back.                                 *)

\* What the letter of an escape stands for.
Meaning(l) ==
    CASE l = 110 -> 10 [] l = 116 -> 9 [] l = 114 -> 13 [] l = 48 -> 0 [] l = 92 -> 92 [] l = 34 -> 34
      [] l = 39 -> 39 [] l = 97 -> 7 [] l = 98 -> 8 [] l = 102 -> 12 [] l = 118 -> 11 [] OTHER -> -1

\* A letter stands for one character, and a character has one letter.
LEMMA Letters ==
    /\ DOMAIN Named = 1..11
    /\ \A k \in 1..11 : /\ Named[k][1] \in {110, 116, 114, 48, 92, 34, 39, 97, 98, 102, 118}
                        /\ Named[k][2] \in {10, 9, 13, 0, 92, 34, 39, 7, 8, 12, 11}
                        /\ Named[k][2] = Meaning(Named[k][1])
    /\ \A c \in {92, 34} : \E k \in 1..11 : Named[k][2] = c
<1>1. DOMAIN Named = 1..11
  BY DEF Named
<1>2. /\ Named[1] = <<110, 10>> /\ Named[2] = <<116, 9>> /\ Named[3] = <<114, 13>> /\ Named[4] = <<48, 0>>
      /\ Named[5] = <<92, 92>> /\ Named[6] = <<34, 34>> /\ Named[7] = <<39, 39>> /\ Named[8] = <<97, 7>>
      /\ Named[9] = <<98, 8>> /\ Named[10] = <<102, 12>> /\ Named[11] = <<118, 11>>
  BY DEF Named
<1>3. \A k \in 1..11 : k = 1 \/ k = 2 \/ k = 3 \/ k = 4 \/ k = 5 \/ k = 6 \/ k = 7 \/ k = 8 \/ k = 9 \/ k = 10 \/ k = 11
  OBVIOUS
<1>4. ASSUME NEW k \in 1..11
      PROVE  Named[k] \in {<<110, 10>>, <<116, 9>>, <<114, 13>>, <<48, 0>>, <<92, 92>>, <<34, 34>>, <<39, 39>>,
                           <<97, 7>>, <<98, 8>>, <<102, 12>>, <<118, 11>>}
  <2>. DEFINE S == {<<110, 10>>, <<116, 9>>, <<114, 13>>, <<48, 0>>, <<92, 92>>, <<34, 34>>, <<39, 39>>,
                    <<97, 7>>, <<98, 8>>, <<102, 12>>, <<118, 11>>}
  <2>1. /\ Named[1] \in S /\ Named[2] \in S /\ Named[3] \in S /\ Named[4] \in S /\ Named[5] \in S /\ Named[6] \in S
        /\ Named[7] \in S /\ Named[8] \in S /\ Named[9] \in S /\ Named[10] \in S /\ Named[11] \in S
    BY <1>2, Zenon
  <2>. HIDE DEF S
  <2>2. Named[k] \in S
    BY <1>3, <2>1, Zenon
  <2>. QED  BY <2>2 DEF S
<1>5. ASSUME NEW k \in 1..11
      PROVE  /\ Named[k][1] \in {110, 116, 114, 48, 92, 34, 39, 97, 98, 102, 118}
             /\ Named[k][2] \in {10, 9, 13, 0, 92, 34, 39, 7, 8, 12, 11}
             /\ Named[k][2] = Meaning(Named[k][1])
  BY <1>4 DEF Meaning
<1>6. \A c \in {92, 34} : \E k \in 1..11 : Named[k][2] = c
  <2>1. Named[5][2] = 92 /\ Named[6][2] = 34 /\ 5 \in 1..11 /\ 6 \in 1..11
    BY <1>2
  <2>. QED  BY <2>1
<1>. QED  BY <1>1, <1>5, <1>6

\* What the reader takes at i for one character.
Turn(s, i) == IF At(s, i) = Backslash THEN ReadEscape(s, i + 1) ELSE Read(At(s, i), After(s, i))

\* What the reader sees at a place, and the place after it.
LEMMA Looks ==
    ASSUME NEW s \in Seq(Int), NEW i \in 1 .. Len(s) + 1
    PROVE  /\ Len(s) \in Nat
           /\ At(s, i) \in Int /\ After(s, i) \in i .. Len(s) + 1
           /\ i <= Len(s) => At(s, i) = s[i] /\ After(s, i) = i + 1
           /\ i = Len(s) + 1 => At(s, i) = Eof
<1>1. Len(s) \in Nat /\ \A j \in 1..Len(s) : s[j] \in Int
  OBVIOUS
<1>. QED  BY <1>1 DEF At, After, Eof

\* A digit of hexadecimal numbers stands for a number below 16.
LEMMA HexDigits == \A c \in Int : HexDigit(c) \in -1 .. 15
BY DEF HexDigit

\* The reader goes on, and not beyond the end.
LEMMA Goes ==
    ASSUME NEW s \in Seq(Int), NEW i \in 2 .. Len(s) + 1
    PROVE  /\ Turn(s, i).c \in Int
           /\ Turn(s, i).c # Eof => Turn(s, i).next \in i + 1 .. Len(s) + 1
<1>. DEFINE N == Len(s) + 1
            Fine(r) == r.c \in Int /\ (r.c # Eof => r.next \in i + 1 .. N)
<1>1. Len(s) \in Nat /\ i \in 1..N /\ N \in Nat
  OBVIOUS
<1>2. \A j \in 1..N : At(s, j) \in Int /\ After(s, j) \in j..N
  BY Looks
<1>3. \A c \in Int : \A n : Read(c, n).c = c /\ Read(c, n).next = n
  BY DEF Read
<1>10. (\A c \in Int, n \in i + 1 .. N : Fine(Read(c, n))) /\ (\A n : Fine(Read(Eof, n)))
  <2>1. Eof \in Int
    BY DEF Eof
  <2>. HIDE DEF N
  <2>. QED  BY <1>3, <2>1
<1>4. CASE i = N
  <2>1. At(s, i) = Eof /\ Eof # Backslash
    BY <1>1, <1>4, Looks DEF Eof, Backslash
  <2>2. Turn(s, i) = Read(Eof, After(s, i)) /\ Eof \in Int
    BY <2>1 DEF Turn, Eof
  <2>. QED  BY <1>3, <2>2
<1>5. CASE i # N /\ At(s, i) # Backslash
  <2>1. After(s, i) = i + 1 /\ i + 1 \in i + 1 .. N
    BY <1>1, <1>5, Looks
  <2>. QED  BY <1>1, <1>2, <1>3, <1>5, <2>1 DEF Turn
<1>6. CASE i # N /\ At(s, i) = Backslash
  <2>. DEFINE c == At(s, i + 1)  l == Letter(c)  j == After(s, i + 1)
              named == {n \in DOMAIN Named : Named[n][1] = l}
  <2>1. i + 1 \in 1..N /\ c \in Int /\ j \in i + 1 .. N
    BY <1>1, <1>2, <1>6
  <2>2. \A m \in i + 1 .. N : m \in 1..N /\ After(s, m) \in i + 1 .. N
    BY <1>1, <1>2
  <2>3. Fine(ReadHex(s, j))
    <3>. DEFINE c1 == At(s, j)  k == After(s, j)  c2 == At(s, k)
    <3>1. c1 \in Int /\ k \in i + 1 .. N /\ c2 \in Int /\ After(s, k) \in i + 1 .. N
      BY <1>2, <2>1, <2>2
    <3>2. HexDigit(c1) \in Int /\ HexDigit(c2) \in Int
      <4>. HIDE DEF c1, c2
      <4>1. HexDigit(c1) \in -1 .. 15 /\ HexDigit(c2) \in -1 .. 15
        BY <3>1, HexDigits
      <4>. QED  BY <4>1
    <3>3. Eof \in Int /\ HexDigit(c1) * 16 + HexDigit(c2) \in Int
      BY <3>2 DEF Eof
    <3>4. ReadHex(s, j) \in {Read(Eof, j), Read(120, k), Read(Eof, k), Read(HexDigit(c1), After(s, k)),
                             Read(HexDigit(c1) * 16 + HexDigit(c2), After(s, k))}
      BY DEF ReadHex
    <3>. HIDE DEF c1, c2, k, N, j
    <3>5. /\ Fine(Read(Eof, j)) /\ Fine(Read(120, k)) /\ Fine(Read(Eof, k)) /\ Fine(Read(HexDigit(c1), After(s, k)))
          /\ Fine(Read(HexDigit(c1) * 16 + HexDigit(c2), After(s, k)))
      <4>1. 120 \in Int
        OBVIOUS
      <4>. HIDE DEF Fine
      <4>. QED  BY <1>10, <3>1, <3>2, <3>3, <4>1
    <3>. HIDE DEF Fine
    <3>. QED  BY <3>4, <3>5, Zenon
  <2>4. Fine(ReadOct(s, j, c))
    <3>. DEFINE x == At(s, j)
                d == IF x = Eof THEN Eof ELSE IF x \in 48..55 THEN (c - 48) * 8 + x - 48 ELSE c - 48
    <3>1. ReadOct(s, j, c) = Read(d, After(s, j)) /\ After(s, j) \in i + 1 .. N
      BY <2>1, <2>2 DEF ReadOct
    <3>2. x \in Int
      BY <1>2, <2>1, <2>2
    <3>3. d \in Int
      BY <2>1, <3>2 DEF Eof
    <3>. HIDE DEF d, N
    <3>. QED  BY <1>3, <3>1, <3>3
  <2>5. ASSUME named # {} PROVE Named[CHOOSE n \in named : TRUE][2] \in Int
    <3>. DEFINE n == CHOOSE m \in named : TRUE
    <3>1. n \in named
      BY <2>5
    <3>2. n \in 1..11
      BY <3>1, Letters
    <3>. HIDE DEF n
    <3>3. Named[n][2] \in {10, 9, 13, 0, 92, 34, 39, 7, 8, 12, 11}
      BY <3>2, Letters
    <3>4. Named[n][2] \in Int
      BY <3>3
    <3>. QED  BY <3>4 DEF n
  <2>6. ReadEscape(s, i + 1) = IF c = Eof THEN Read(Eof, i + 1)
                               ELSE IF named # {} THEN Read(Named[CHOOSE n \in named : TRUE][2], j)
                               ELSE IF l \in {120, 88} THEN ReadHex(s, j)
                               ELSE IF c \in 48..55 THEN ReadOct(s, j, c)
                               ELSE Read(c, j)
    BY DEF ReadEscape
  <2>7. Turn(s, i) = ReadEscape(s, i + 1)
    BY <1>6 DEF Turn
  <2>8. Eof \in Int
    BY DEF Eof
  <2>9. Fine(Read(Eof, i + 1)) /\ Fine(Read(c, j)) /\ (named # {} => Fine(Read(Named[CHOOSE n \in named : TRUE][2], j)))
    <3>. HIDE DEF c, j, N, named
    <3>. QED  BY <1>3, <2>1, <2>5, <2>8
  <2>. HIDE DEF c, j, l, named, Fine
  <2>10. Fine(ReadEscape(s, i + 1))
    BY <2>3, <2>4, <2>6, <2>9
  <2>. QED  BY <2>7, <2>10 DEF Fine
<1>. QED  BY <1>4, <1>5, <1>6

Readings == [text : Seq(Int), end : Nat]

\* What from[i] is once the character at i is read.
Reads(from, s, i) ==
    LET r == Turn(s, i)
    IN  IF At(s, i) = Quote THEN from[i] = [text |-> <<>>, end |-> i]
        ELSE IF r.c = Eof \/ from[r.next] = NoText THEN from[i] = NoText
        ELSE from[i] = [text |-> <<Byte(r.c)>> \o from[r.next].text, end |-> from[r.next].end]

\* A character cut to a byte is a character, and the same one if it was one.
LEMMA Bytes == \A c \in Int : Byte(c) \in Chars /\ (c \in Chars => Byte(c) = c)
<1>. SUFFICES ASSUME NEW c \in Int PROVE Byte(c) \in Chars /\ (c \in Chars => Byte(c) = c)
  OBVIOUS
<1>1. c % 256 \in 0..255
  OBVIOUS
<1>2. CASE c >= 0 /\ c <= 127
  BY <1>2 DEF Byte, Chars
<1>3. CASE c < 0 /\ c >= -128
  <2>1. c % 256 = c + 256
    BY <1>3
  <2>. QED  BY <1>3, <2>1 DEF Byte, Chars
<1>4. CASE c > 127 \/ c < -128
  BY <1>1, <1>4 DEF Byte, Chars
<1>. QED  BY <1>2, <1>3, <1>4

\* The function lsstr_parse is described by exists: each value depends on one at a
\* greater place only.
LEMMA ParsedReads ==
    ASSUME NEW s \in Seq(Int), s # <<>>, s[1] = Quote
    PROVE  \E from : /\ \A i \in 2 .. Len(s) + 1 : Reads(from, s, i)
                     /\ Parsed(s) = from[2]
<1>. DEFINE N == Len(s) + 1
            Value(i, rest) == IF At(s, i) = Quote THEN [text |-> <<>>, end |-> i]
                              ELSE IF Turn(s, i).c = Eof \/ rest = NoText THEN NoText
                              ELSE [text |-> <<Byte(Turn(s, i).c)>> \o rest.text, end |-> rest.end]
            next == [i \in 2..N |-> Turn(s, i).next]
            H == [x \in (2..N) \X Readings |-> Value(x[1], x[2])]
            Is(f) == f = [i \in 2 .. Len(s) + 1 |->
                            LET r == IF At(s, i) = Backslash THEN ReadEscape(s, i + 1) ELSE Read(At(s, i), After(s, i))
                                rest == f[r.next]
                            IN  IF At(s, i) = Quote THEN [text |-> <<>>, end |-> i]
                                ELSE IF r.c = Eof \/ rest = NoText THEN NoText
                                ELSE [text |-> <<Byte(r.c)>> \o rest.text, end |-> rest.end]]
            from == CHOOSE f : Is(f)
<1>1. Len(s) \in Nat /\ Len(s) >= 1 /\ N \in Nat /\ 2 <= N
  BY EmptySeq, LenProperties
<1>2. Parsed(s) = from[2]
  <2>1. At(s, 1) = Quote
    BY <1>1 DEF At
  <2>. QED  BY <2>1 DEF Parsed
<1>3. ASSUME NEW i \in 2..N, NEW rest \in Readings PROVE Value(i, rest) \in Readings
  <2>1. Turn(s, i).c \in Int
    BY Goes
  <2>2. Byte(Turn(s, i).c) \in Int
    <3>. DEFINE b == Byte(Turn(s, i).c)
    <3>1. b \in Chars
      BY <2>1, Bytes
    <3>. HIDE DEF b
    <3>2. b \in Int
      BY <3>1 DEF Chars
    <3>. QED  BY <3>2 DEF b
  <2>3. rest.text \in Seq(Int) /\ rest.end \in Nat /\ i \in Nat
    BY <1>1 DEF Readings
  <2>4. <<Byte(Turn(s, i).c)>> \o rest.text \in Seq(Int)
    BY <2>2, <2>3
  <2>. QED  BY <2>3, <2>4 DEF Readings, NoText
<1>4. \E f : Is(f)
  <2>. DEFINE Equal(f) == f = [i \in 2..N |-> Value(i, f[Turn(s, i).next])]
  <2>1. \A f : Equal(f) => Is(f)
    BY DEF Turn
  <2>2. NoText \in Readings
    BY DEF NoText, Readings
  <2>3. ASSUME NEW i \in 2..N, At(s, i) # Quote, Turn(s, i).c # Eof PROVE Turn(s, i).next \in i + 1 .. N
    BY <2>3, Goes
  <2>4. \A i \in 2..N : \A a, b : At(s, i) = Quote \/ Turn(s, i).c = Eof => Value(i, a) = Value(i, b)
    OBVIOUS
  <2>. HIDE DEF Is, Value, N
  <2>5. H \in [(2..N) \X Readings -> Readings] /\ \A i \in 2..N, t \in Readings : H[<<i, t>>] = Value(i, t)
    BY <1>3
  <2>. HIDE DEF H
  <2>6. PICK g : GoesBack(g, 2, N, Readings, NoText, next, H)
    <3>1. 2 \in Nat /\ N \in Nat /\ 2 <= N + 1
      BY <1>1
    <3>. HIDE DEF next
    <3>. QED  BY <2>2, <2>5, <3>1, Descends
  <2>7. g \in [2..N -> Readings] /\ \A i \in 2..N : g[i] = H[<<i, IF next[i] \in i + 1 .. N THEN g[next[i]] ELSE NoText>>]
    BY <2>6 DEF GoesBack
  <2>8. ASSUME NEW i \in 2..N PROVE g[i] = Value(i, g[Turn(s, i).next])
    <3>. DEFINE m == Turn(s, i).next
                t == IF m \in i + 1 .. N THEN g[m] ELSE NoText
    <3>1. next[i] = m
      OBVIOUS
    <3>2. m \in i + 1 .. N => m \in 2..N
      BY <1>1
    <3>3. t \in Readings
      BY <2>2, <2>7, <3>2
    <3>4. g[i] = Value(i, t)
      <4>. HIDE DEF next, m
      <4>. QED  BY <2>5, <2>7, <3>1, <3>3
    <3>. HIDE DEF next
    <3>. QED  BY <2>3, <2>4, <3>4
  <2>9. Equal(g)
    BY <2>7, <2>8
  <2>. QED  BY <2>1, <2>9
<1>5. Is(from)
  <2>. HIDE DEF Is
  <2>. QED  BY <1>4
<1>6. from = [i \in 2..N |-> Value(i, from[Turn(s, i).next])]
  BY <1>5 DEF Turn
<1>. HIDE DEF from, Is
<1>7. ASSUME NEW i \in 2..N PROVE Reads(from, s, i)
  <2>1. from[i] = Value(i, from[Turn(s, i).next])
    <3>. HIDE DEF Value, N
    <3>. QED  BY <1>6
  <2>. QED  BY <2>1 DEF Reads
<1>. QED  BY <1>2, <1>7

Plain == (48..57) \cup (97..102)

\* Digits and the letters a to f need no escape.
LEMMA PlainAre == \A x \in Plain : x \in Int /\ x # Backslash /\ x # Quote /\ x # Eof
BY DEF Plain, Backslash, Quote, Eof

\* A digit that is printed is read as what it was.
LEMMA HexChars == \A n \in 0..15 : HexChar(n) \in Plain /\ HexDigit(HexChar(n)) = n
<1>. SUFFICES ASSUME NEW n \in 0..15 PROVE HexChar(n) \in Plain /\ HexDigit(HexChar(n)) = n
  OBVIOUS
<1>1. CASE n < 10
  BY <1>1 DEF HexChar, HexDigit, Plain
<1>2. CASE n >= 10
  <2>1. HexChar(n) = 87 + n /\ 87 + n \in 97..102 /\ 87 + n \notin 48..57
    BY <1>2 DEF HexChar
  <2>. QED  BY <1>2, <2>1 DEF HexDigit, Plain
<1>. QED  BY <1>1, <1>2

\* The ways a character is printed.
ByLetter(c) == \E k \in 1..11 : Named[k][2] = c /\ PrintedChar(c) = <<Backslash, Named[k][1]>>
ByHex(c) ==
    c \in 0..127 /\ \E h \in 0..15, l \in 0..15 :
                        /\ c = 16 * h + l /\ Len(PrintedChar(c)) = 4
                        /\ PrintedChar(c)[1] = Backslash /\ PrintedChar(c)[2] = 120
                        /\ PrintedChar(c)[3] = HexChar(h) /\ PrintedChar(c)[4] = HexChar(l)
ByHexOfInt(c) ==
    /\ c < 0 /\ Len(PrintedChar(c)) = 10
    /\ PrintedChar(c)[1] = Backslash /\ PrintedChar(c)[2] = 120
    /\ \A j \in 3..8 : PrintedChar(c)[j] = 102
    /\ PrintedChar(c)[9] \in Plain /\ PrintedChar(c)[10] \in Plain
AsItself(c) == c \in 32..126 /\ c # Quote /\ c # Backslash /\ PrintedChar(c) = <<c>>

\* Every character is printed in one of four ways.
LEMMA Ways ==
    ASSUME NEW c \in Chars
    PROVE  /\ PrintedChar(c) \in Seq(Int) /\ PrintedChar(c) # <<>>
           /\ ByLetter(c) \/ ByHex(c) \/ ByHexOfInt(c) \/ AsItself(c)
<1>. DEFINE Way == ByLetter(c) \/ ByHex(c) \/ ByHexOfInt(c) \/ AsItself(c)
<1>1. c \in Int /\ c >= -128 /\ c <= 127
  BY DEF Chars
<1>2. CASE NamedOf(c) # {}
  <2>. DEFINE k == CHOOSE m \in NamedOf(c) : TRUE
  <2>1. k \in NamedOf(c)
    BY <1>2
  <2>2. k \in 1..11 /\ Named[k][2] = c
    BY <2>1, Letters DEF NamedOf
  <2>3. PrintedChar(c) = <<Backslash, Named[k][1]>>
    BY <1>2 DEF PrintedChar
  <2>. HIDE DEF k
  <2>4. Named[k][1] \in {110, 116, 114, 48, 92, 34, 39, 97, 98, 102, 118}
    BY <2>2, Letters
  <2>5. Named[k][1] \in Int /\ Backslash \in Int
    BY <2>4 DEF Backslash
  <2>. QED  BY <2>2, <2>3, <2>5 DEF ByLetter
<1>3. CASE NamedOf(c) = {} /\ (c < 32 \/ c >= 127)
  <2>. DEFINE h == (c % 256) \div 16  l == c % 16  digits == <<HexChar(h), HexChar(l)>>
  <2>1. h \in 0..15 /\ l \in 0..15 /\ (c >= 0 => c = 16 * h + l)
    <3>1. c % 256 \in 0..255 /\ (c >= 0 => c % 256 = c)
      BY <1>1
    <3>. DEFINE b == c % 256
    <3>. HIDE DEF b
    <3>2. b \in 0..255 => b \div 16 \in 0..15
      OBVIOUS
    <3>3. c % 16 \in 0..15 /\ c = 16 * (c \div 16) + (c % 16)
      BY <1>1
    <3>. QED  BY <3>1, <3>2, <3>3 DEF b
  <2>2. HexChar(h) \in Plain /\ HexChar(l) \in Plain
    BY <2>1, HexChars
  <2>3. PrintedChar(c) = <<Backslash, 120>> \o Hex(c)
    BY <1>3 DEF PrintedChar
  <2>. HIDE DEF h, l
  <2>4. HexChar(h) \in Int /\ HexChar(l) \in Int /\ Backslash \in Int
    BY <2>2 DEF Plain, Backslash
  <2>5. CASE c >= 0
    <3>1. ~ (c < 0)
      BY <1>1, <2>5
    <3>2. Hex(c) = <<>> \o digits
      BY <3>1, Zenon DEF Hex, h, l
    <3>3. digits \in Seq(Int)
      BY <2>4
    <3>4. <<>> \o digits = digits
      BY <3>3, ConcatEmptySeq
    <3>. DEFINE front == <<Backslash, 120>>  all == front \o digits
    <3>5. front \in Seq(Int) /\ Len(front) = 2 /\ front[1] = Backslash /\ front[2] = 120
      BY <2>4
    <3>6. Len(digits) = 2 /\ digits[1] = HexChar(h) /\ digits[2] = HexChar(l)
      OBVIOUS
    <3>7. PrintedChar(c) = all
      BY <2>3, <3>2, <3>4
    <3>. HIDE DEF front, digits
    <3>8. /\ all \in Seq(Int) /\ Len(all) = 2 + 2 /\ \A j \in 1..2 : all[j] = front[j]
          /\ \A j \in 1..2 : all[2 + j] = digits[j]
      <4>1. all \in Seq(Int) /\ IsJoined(all, front, digits)
        BY <3>3, <3>5, JoinedAt
      <4>. HIDE DEF all
      <4>. QED  BY <3>5, <3>6, <4>1 DEF IsJoined
    <3>. HIDE DEF all
    <3>9. all[1] = Backslash /\ all[2] = 120 /\ all[3] = HexChar(h) /\ all[4] = HexChar(l)
      <4>1. 1 \in 1..2 /\ 2 \in 1..2 /\ 2 + 1 = 3 /\ 2 + 2 = 4
        OBVIOUS
      <4>. QED  BY <3>5, <3>6, <3>8, <4>1
    <3>10. Len(all) = 4 /\ all # <<>>
      <4>1. Len(all) = 4 /\ Len(<<>>) # 4
        BY <3>8
      <4>. QED  BY <4>1, Zenon
    <3>11. c \in 0..127 /\ c = 16 * h + l
      BY <1>1, <2>1, <2>5
    <3>. QED  BY <2>1, <3>7, <3>8, <3>9, <3>10, <3>11 DEF ByHex
  <2>6. CASE c < 0
    <3>. DEFINE fs == [i \in 1..6 |-> 102]
    <3>1. Hex(c) = fs \o digits
      BY <1>1, <2>6 DEF Hex, h, l
    <3>2. fs \in Seq(Int) /\ Len(fs) = 6 /\ \A j \in 1..6 : fs[j] = 102
      OBVIOUS
    <3>3. digits \in Seq(Int) /\ Len(digits) = 2 /\ digits[1] = HexChar(h) /\ digits[2] = HexChar(l)
      BY <2>4
    <3>. HIDE DEF fs, digits
    <3>. DEFINE hex == fs \o digits  front == <<Backslash, 120>>
    <3>4. /\ hex \in Seq(Int) /\ Len(hex) = 6 + 2 /\ \A j \in 1..6 : hex[j] = fs[j]
          /\ \A j \in 1..2 : hex[6 + j] = digits[j]
      <4>1. hex \in Seq(Int) /\ IsJoined(hex, fs, digits)
        BY <3>2, <3>3, JoinedAt
      <4>. HIDE DEF hex
      <4>. QED  BY <3>2, <3>3, <4>1 DEF IsJoined
    <3>. HIDE DEF hex
    <3>5. hex \in Seq(Int) /\ Len(hex) = 8 /\ (\A j \in 1..6 : hex[j] = 102) /\ hex[7] = HexChar(h) /\ hex[8] = HexChar(l)
      <4>1. 1 \in 1..2 /\ 2 \in 1..2 /\ 6 + 1 = 7 /\ 6 + 2 = 8
        OBVIOUS
      <4>. QED  BY <3>2, <3>3, <3>4, <4>1
    <3>6. front \in Seq(Int) /\ Len(front) = 2 /\ front[1] = Backslash /\ front[2] = 120
      BY <2>4
    <3>7. PrintedChar(c) = front \o hex
      BY <2>3, <3>1 DEF hex
    <3>. DEFINE all == front \o hex
    <3>. HIDE DEF front
    <3>8. /\ all \in Seq(Int) /\ Len(all) = 2 + 8 /\ \A j \in 1..2 : all[j] = front[j]
          /\ \A j \in 1..8 : all[2 + j] = hex[j]
      <4>1. all \in Seq(Int) /\ IsJoined(all, front, hex)
        BY <3>5, <3>6, JoinedAt
      <4>. HIDE DEF all
      <4>. QED  BY <3>5, <3>6, <4>1 DEF IsJoined
    <3>. HIDE DEF all
    <3>9. \A j \in 3..8 : all[j] = 102
      <4>. TAKE j \in 3..8
      <4>1. j - 2 \in 1..6 /\ j - 2 \in 1..8 /\ 2 + (j - 2) = j
        OBVIOUS
      <4>. QED  BY <3>5, <3>8, <4>1
    <3>10. all[1] = Backslash /\ all[2] = 120 /\ all[9] = HexChar(h) /\ all[10] = HexChar(l)
      <4>1. 1 \in 1..2 /\ 2 \in 1..2 /\ 7 \in 1..8 /\ 8 \in 1..8 /\ 2 + 7 = 9 /\ 2 + 8 = 10
        OBVIOUS
      <4>. QED  BY <3>5, <3>6, <3>8, <4>1
    <3>12. Len(all) = 10
      BY <3>8
    <3>13. PrintedChar(c) = all
      BY <3>7 DEF all
    <3>11. all # <<>>
      BY <3>8, EmptySeq
    <3>. QED  BY <2>2, <2>6, <3>8, <3>9, <3>10, <3>11, <3>12, <3>13 DEF ByHexOfInt
  <2>. QED  BY <1>1, <2>5, <2>6
<1>4. CASE NamedOf(c) = {} /\ ~ (c < 32 \/ c >= 127)
  <2>1. PrintedChar(c) = <<c>>
    BY <1>4 DEF PrintedChar
  <2>2. c # 92 /\ c # 34
    BY <1>4, Letters DEF NamedOf
  <2>. QED  BY <1>1, <1>4, <2>1, <2>2 DEF AsItself, Quote, Backslash
<1>. QED  BY <1>2, <1>3, <1>4

\* t stands in s from i on.
Stands(s, i, t) == i + Len(t) - 1 <= Len(s) /\ \A j \in 1..Len(t) : s[i + j - 1] = t[j]

\* A character that is printed as itself is read as itself.
LEMMA PlainRead ==
    ASSUME NEW s \in Seq(Int), NEW i \in 2..Len(s), s[i] \in Plain \/ (s[i] \in 32..126 /\ s[i] # Backslash /\ s[i] # Quote)
    PROVE  At(s, i) # Quote /\ Turn(s, i).c = s[i] /\ Turn(s, i).c # Eof /\ Turn(s, i).next = i + 1
<1>1. i \in 1 .. Len(s) + 1 /\ i <= Len(s)
  OBVIOUS
<1>2. At(s, i) = s[i] /\ After(s, i) = i + 1 /\ s[i] \in Int
  BY <1>1, Looks
<1>3. s[i] # Backslash /\ s[i] # Quote /\ s[i] # Eof
  <2>1. \A x \in 32..126 : x # Eof
    BY DEF Eof
  <2>. QED  BY <2>1, PlainAre, Zenon
<1>. QED  BY <1>2, <1>3 DEF Turn, Read

\* An escape of one letter is read as what the letter stands for.
LEMMA LetterRead ==
    ASSUME NEW s \in Seq(Int), NEW i \in 2..Len(s), i + 1 <= Len(s), NEW k \in 1..11,
           s[i] = Backslash, s[i + 1] = Named[k][1]
    PROVE  At(s, i) # Quote /\ Turn(s, i).c = Named[k][2] /\ Turn(s, i).c # Eof /\ Turn(s, i).next = i + 2
<1>. DEFINE c == At(s, i + 1)  l == Letter(c)  j == After(s, i + 1)
            named == {n \in DOMAIN Named : Named[n][1] = l}
            m == CHOOSE n \in named : TRUE
<1>1. At(s, i) = Backslash /\ c = Named[k][1] /\ j = i + 2
  <2>1. i \in 1 .. Len(s) + 1 /\ i + 1 \in 1 .. Len(s) + 1 /\ i <= Len(s) /\ i + 1 + 1 = i + 2
    OBVIOUS
  <2>. QED  BY <2>1, Looks
<1>. HIDE DEF c, j
<1>2. c \in {110, 116, 114, 48, 92, 34, 39, 97, 98, 102, 118}
  BY <1>1, Letters
<1>3. l = c /\ c # Eof
  BY <1>2 DEF Letter, Eof
<1>. HIDE DEF l
<1>4. k \in named
  BY <1>1, <1>3, Letters
<1>5. m \in named
  BY <1>4
<1>6. m \in 1..11 /\ Named[m][1] = Named[k][1]
  BY <1>1, <1>3, <1>5, Letters
<1>7. Named[m][2] = Named[k][2]
  <2>. HIDE DEF m
  <2>1. Named[m][2] = Meaning(Named[m][1]) /\ Named[k][2] = Meaning(Named[k][1])
    BY <1>6, Letters
  <2>. QED  BY <1>6, <2>1, Zenon
<1>8. ReadEscape(s, i + 1) = Read(Named[m][2], j)
  BY <1>3, <1>4 DEF ReadEscape, c, l, j
<1>9. Turn(s, i) = ReadEscape(s, i + 1)
  BY <1>1 DEF Turn
<1>10. Named[k][2] # Eof
  <2>. DEFINE x == Named[k][2]
  <2>1. x \in {10, 9, 13, 0, 92, 34, 39, 7, 8, 12, 11}
    BY Letters
  <2>. HIDE DEF x
  <2>2. x # Eof
    BY <2>1 DEF Eof
  <2>. QED  BY <2>2 DEF x
<1>11. Backslash # Quote
  BY DEF Backslash, Quote
<1>. QED  BY <1>1, <1>7, <1>8, <1>9, <1>10, <1>11 DEF Read

\* Two digits after \\x are read as the number they make.
LEMMA HexRead ==
    ASSUME NEW s \in Seq(Int), NEW i \in 2..Len(s), i + 3 <= Len(s), NEW h \in 0..15, NEW l \in 0..15,
           s[i] = Backslash, s[i + 1] = 120, s[i + 2] = HexChar(h), s[i + 3] = HexChar(l)
    PROVE  At(s, i) # Quote /\ Turn(s, i).c = 16 * h + l /\ Turn(s, i).c # Eof /\ Turn(s, i).next = i + 4
<1>1. At(s, i) = Backslash /\ At(s, i + 1) = 120 /\ At(s, i + 2) = HexChar(h) /\ At(s, i + 3) = HexChar(l)
      /\ After(s, i + 1) = i + 2 /\ After(s, i + 2) = i + 3 /\ After(s, i + 3) = i + 4
  <2>1. \A n \in {0, 1, 2, 3} : i + n \in 1 .. Len(s) + 1 /\ i + n <= Len(s)
    OBVIOUS
  <2>2. \A n \in {0, 1, 2, 3} : At(s, i + n) = s[i + n] /\ After(s, i + n) = i + n + 1
    BY <2>1, Looks
  <2>3. i + 0 = i /\ i + 1 + 1 = i + 2 /\ i + 2 + 1 = i + 3 /\ i + 3 + 1 = i + 4
    OBVIOUS
  <2>. QED  BY <2>2, <2>3
<1>2. HexChar(h) \in Plain /\ HexChar(l) \in Plain /\ HexDigit(HexChar(h)) = h /\ HexDigit(HexChar(l)) = l
  BY HexChars
<1>3. HexChar(h) # Eof /\ HexChar(l) # Eof
  BY <1>2, PlainAre
<1>4. ReadHex(s, i + 2) = Read(h * 16 + l, i + 4)
  <2>1. ~ (HexDigit(HexChar(h)) < 0) /\ ~ (HexDigit(HexChar(l)) < 0)
    BY <1>2
  <2>. QED  BY <1>1, <1>2, <1>3, <2>1, Zenon DEF ReadHex
<1>5. ReadEscape(s, i + 1) = ReadHex(s, i + 2)
  <2>1. Letter(120) = 120 /\ 120 # Eof
    BY DEF Letter, Eof
  <2>2. {n \in DOMAIN Named : Named[n][1] = 120} = {}
    <3>. DEFINE S == {110, 116, 114, 48, 92, 34, 39, 97, 98, 102, 118}
    <3>1. \A x \in S : x # 120
      OBVIOUS
    <3>2. \A n \in DOMAIN Named : Named[n][1] # 120
      <4>1. DOMAIN Named = 1..11
        BY Letters
      <4>2. \A n \in 1..11 : Named[n][1] \in S
        BY Letters
      <4>. HIDE DEF S
      <4>. QED  BY <3>1, <4>1, <4>2, Zenon
    <3>. QED  BY <3>2
  <2>. QED  BY <1>1, <2>1, <2>2 DEF ReadEscape
<1>6. Turn(s, i) = Read(h * 16 + l, i + 4)
  BY <1>1, <1>4, <1>5 DEF Turn
<1>. QED  BY <1>1, <1>6 DEF Read, Backslash, Quote, Eof

\* What is read to the end from one place is, from the place before it, if a
\* character stands there.
LEMMA OneRead ==
    ASSUME NEW s \in Seq(Int), NEW from, NEW i \in 2..Len(s), Reads(from, s, i), At(s, i) # Quote,
           Turn(s, i).c # Eof, from[Turn(s, i).next].end = Len(s)
    PROVE  from[i].end = Len(s) /\ from[i].text = <<Byte(Turn(s, i).c)>> \o from[Turn(s, i).next].text
<1>1. Len(s) \in Nat /\ Len(s) >= 2
  OBVIOUS
<1>2. NoText.end = 0
  BY DEF NoText
<1>3. from[Turn(s, i).next] # NoText
  BY <1>1, <1>2
<1>4. from[i] = [text |-> <<Byte(Turn(s, i).c)>> \o from[Turn(s, i).next].text, end |-> from[Turn(s, i).next].end]
  BY <1>3 DEF Reads
<1>. QED  BY <1>4

\* The digits that are left over from an int are passed like any character.
LEMMA PlainPassed ==
    ASSUME NEW s \in Seq(Int), NEW from, NEW i \in 2..Len(s), Reads(from, s, i), s[i] \in Plain,
           from[i + 1].end = Len(s)
    PROVE  from[i].end = Len(s)
<1>1. At(s, i) # Quote /\ Turn(s, i).c # Eof /\ Turn(s, i).next = i + 1
  BY PlainRead
<1>. QED  BY <1>1, OneRead

\* What is printed of a character is read as that character, if it has seven bits,
\* and is passed to its end in any case.
LEMMA PrintedRead ==
    ASSUME NEW s \in Seq(Int), NEW from, \A i \in 2 .. Len(s) + 1 : Reads(from, s, i),
           NEW c \in Chars, NEW i \in 2..Len(s), Stands(s, i, PrintedChar(c)),
           from[i + Len(PrintedChar(c))].end = Len(s)
    PROVE  /\ from[i].end = Len(s)
           /\ c >= 0 => from[i].text = <<c>> \o from[i + Len(PrintedChar(c))].text
<1>. DEFINE p == PrintedChar(c)
<1>1. p \in Seq(Int) /\ (ByLetter(c) \/ ByHex(c) \/ ByHexOfInt(c) \/ AsItself(c))
  BY Ways
<1>2. c \in Int /\ Byte(c) = c
  BY Bytes DEF Chars
<1>3. Reads(from, s, i) /\ Len(s) \in Nat /\ i \in Nat /\ i >= 2
  OBVIOUS
<1>4. CASE ByLetter(c)
  <2>1. PICK k \in 1..11 : Named[k][2] = c /\ p = <<Backslash, Named[k][1]>>
    BY <1>4 DEF ByLetter
  <2>2. Len(p) = 2 /\ p[1] = Backslash /\ p[2] = Named[k][1]
    BY <2>1
  <2>. HIDE DEF p
  <2>3. i + 1 <= Len(s) /\ s[i] = Backslash /\ s[i + 1] = Named[k][1]
    <3>1. i + 2 - 1 <= Len(s) /\ \A j \in 1..2 : s[i + j - 1] = p[j]
      BY <2>2 DEF Stands, p
    <3>2. s[i + 1 - 1] = p[1] /\ s[i + 2 - 1] = p[2]
      BY <3>1
    <3>3. i + 1 - 1 = i /\ i + 2 - 1 = i + 1
      OBVIOUS
    <3>. QED  BY <2>2, <3>1, <3>2, <3>3
  <2>4. At(s, i) # Quote /\ Turn(s, i).c = c /\ Turn(s, i).c # Eof /\ Turn(s, i).next = i + 2
    BY <2>1, <2>3, LetterRead
  <2>. QED  BY <1>2, <1>3, <2>2, <2>4, OneRead DEF p
<1>5. CASE ByHex(c)
  <2>1. PICK h \in 0..15, l \in 0..15 :
            /\ c = 16 * h + l /\ Len(p) = 4
            /\ p[1] = Backslash /\ p[2] = 120 /\ p[3] = HexChar(h) /\ p[4] = HexChar(l)
    BY <1>5 DEF ByHex
  <2>. HIDE DEF p
  <2>2. i + 3 <= Len(s) /\ s[i] = Backslash /\ s[i + 1] = 120 /\ s[i + 2] = HexChar(h) /\ s[i + 3] = HexChar(l)
    <3>1. i + 4 - 1 <= Len(s) /\ \A j \in 1..4 : s[i + j - 1] = p[j]
      BY <2>1 DEF Stands, p
    <3>2. s[i + 1 - 1] = p[1] /\ s[i + 2 - 1] = p[2] /\ s[i + 3 - 1] = p[3] /\ s[i + 4 - 1] = p[4]
      BY <3>1
    <3>3. i + 1 - 1 = i /\ i + 2 - 1 = i + 1 /\ i + 3 - 1 = i + 2 /\ i + 4 - 1 = i + 3
      OBVIOUS
    <3>. QED  BY <2>1, <3>1, <3>2, <3>3
  <2>3. At(s, i) # Quote /\ Turn(s, i).c = c /\ Turn(s, i).c # Eof /\ Turn(s, i).next = i + 4
    <3>1. At(s, i) # Quote /\ Turn(s, i).c = 16 * h + l /\ Turn(s, i).c # Eof /\ Turn(s, i).next = i + 4
      BY <2>1, <2>2, HexRead
    <3>. QED  BY <2>1, <3>1, Zenon
  <2>4. from[Turn(s, i).next].end = Len(s)
    BY <2>1, <2>3 DEF p
  <2>5. from[i].end = Len(s) /\ from[i].text = <<Byte(Turn(s, i).c)>> \o from[Turn(s, i).next].text
    BY <1>3, <2>3, <2>4, OneRead
  <2>6. Len(p) = 4
    BY <2>1
  <2>. QED  BY <1>2, <2>3, <2>5, <2>6 DEF p
<1>6. CASE ByHexOfInt(c)
  <2>1. c < 0 /\ Len(p) = 10 /\ p[1] = Backslash /\ p[2] = 120 /\ (\A j \in 3..8 : p[j] = 102) /\ p[9] \in Plain /\ p[10] \in Plain
    BY <1>6 DEF ByHexOfInt
  <2>. HIDE DEF p
  <2>2. i + 9 <= Len(s) /\ \A j \in 1..10 : s[i + (j - 1)] = p[j]
    <3>1. i + 10 - 1 <= Len(s) /\ \A j \in 1..10 : s[i + j - 1] = p[j]
      BY <2>1 DEF Stands, p
    <3>2. \A j \in 1..10 : i + j - 1 = i + (j - 1)
      OBVIOUS
    <3>. QED  BY <3>1, <3>2
  <2>3. s[i] = Backslash /\ s[i + 1] = 120 /\ s[i + 2] = 102 /\ s[i + 3] = 102
    <3>1. s[i + (1 - 1)] = p[1] /\ s[i + (2 - 1)] = p[2] /\ s[i + (3 - 1)] = p[3] /\ s[i + (4 - 1)] = p[4]
      BY <2>2
    <3>2. i + (1 - 1) = i /\ i + (2 - 1) = i + 1 /\ i + (3 - 1) = i + 2 /\ i + (4 - 1) = i + 3
      OBVIOUS
    <3>3. p[3] = 102 /\ p[4] = 102
      BY <2>1
    <3>. QED  BY <2>1, <3>1, <3>2, <3>3
  <2>4. \A j \in 5..10 : s[i + (j - 1)] \in Plain
    <3>1. 102 \in Plain
      BY DEF Plain
    <3>2. \A j \in 5..10 : p[j] \in Plain
      <4>1. \A j \in 5..10 : j \in 3..8 \/ j = 9 \/ j = 10
        OBVIOUS
      <4>. QED  BY <2>1, <3>1, <4>1
    <3>3. \A j \in 5..10 : j \in 1..10
      OBVIOUS
    <3>. QED  BY <2>2, <3>2, <3>3
  <2>5. ASSUME NEW j \in 5..10, from[i + j].end = Len(s) PROVE from[i + (j - 1)].end = Len(s)
    <3>1. (i + (j - 1)) \in 2..Len(s) /\ (i + (j - 1)) \in 2 .. Len(s) + 1 /\ (i + (j - 1)) + 1 = i + j
      <4>1. j \in 5..10
        OBVIOUS
      <4>2. i + 9 <= Len(s)
        BY <2>2
      <4>3. Len(s) \in Nat /\ i \in Nat /\ i >= 2
        BY <1>3
      <4>. QED  BY <4>1, <4>2, <4>3
    <3>2. s[i + (j - 1)] \in Plain /\ Reads(from, s, i + (j - 1))
      BY <2>4, <3>1
    <3>. QED  BY <2>5, <3>1, <3>2, PlainPassed
  <2>6. from[i + 4].end = Len(s)
    <3>1. from[i + 10].end = Len(s)
      BY <2>1 DEF p
    <3>2. /\ 10 \in 5..10 /\ 9 \in 5..10 /\ 8 \in 5..10 /\ 7 \in 5..10 /\ 6 \in 5..10 /\ 5 \in 5..10
          /\ 10 - 1 = 9 /\ 9 - 1 = 8 /\ 8 - 1 = 7 /\ 7 - 1 = 6 /\ 6 - 1 = 5 /\ 5 - 1 = 4
      OBVIOUS
    <3>3. from[i + 9].end = Len(s)
      BY <2>5, <3>1, <3>2
    <3>4. from[i + 8].end = Len(s)
      BY <2>5, <3>2, <3>3
    <3>5. from[i + 7].end = Len(s)
      BY <2>5, <3>2, <3>4
    <3>6. from[i + 6].end = Len(s)
      BY <2>5, <3>2, <3>5
    <3>7. from[i + 5].end = Len(s)
      BY <2>5, <3>2, <3>6
    <3>. QED  BY <2>5, <3>2, <3>7
  <2>7. At(s, i) # Quote /\ Turn(s, i).c # Eof /\ Turn(s, i).next = i + 4
    <3>1. HexChar(15) = 102 /\ 15 \in 0..15
      BY DEF HexChar
    <3>2. i + 3 <= Len(s)
      BY <2>2
    <3>. QED  BY <2>3, <3>1, <3>2, HexRead
  <2>8. from[i].end = Len(s)
    BY <1>3, <2>6, <2>7, OneRead
  <2>. QED  BY <1>2, <2>1, <2>8
<1>7. CASE AsItself(c)
  <2>1. c \in 32..126 /\ c # Quote /\ c # Backslash /\ Len(p) = 1 /\ p[1] = c
    BY <1>7 DEF AsItself
  <2>. HIDE DEF p
  <2>2. s[i] = c
    <3>1. \A j \in 1..1 : s[i + j - 1] = p[j]
      BY <2>1 DEF Stands, p
    <3>2. s[i + 1 - 1] = p[1] /\ i + 1 - 1 = i
      BY <3>1
    <3>. QED  BY <2>1, <3>2
  <2>3. At(s, i) # Quote /\ Turn(s, i).c = c /\ Turn(s, i).c # Eof /\ Turn(s, i).next = i + 1
    BY <2>1, <2>2, PlainRead
  <2>. QED  BY <1>2, <1>3, <2>1, <2>3, OneRead DEF p
<1>. QED  BY <1>1, <1>4, <1>5, <1>6, <1>7

\* Where the characters of a text stand in what is printed of it.
Printing(text, at, s) ==
    /\ s \in Seq(Int) /\ at \in [0..Len(text) -> Nat]
    /\ at[0] = 2 /\ s # <<>> /\ s[1] = Quote
    /\ \A k \in 1..Len(text) : /\ at[k] = at[k - 1] + Len(PrintedChar(text[k]))
                               /\ at[k - 1] \in 2..Len(s)
                               /\ Stands(s, at[k - 1], PrintedChar(text[k]))
    /\ at[Len(text)] = Len(s) /\ Len(s) >= 2 /\ s[Len(s)] = Quote

\* The characters of a text stand one behind the other in what is printed of it.
LEMMA PrintedStands ==
    ASSUME NEW text \in Seq(Chars)
    PROVE  \E at : Printing(text, at, Printed(text))
<1>. DEFINE n == Len(text)
            V == Seq(Int)
            H == [x \in V \X (1..n) |-> x[1] \o PrintedChar(text[x[2]])]
            Is(f) == f = [i \in 0 .. Len(text) |-> IF i = 0 THEN <<Quote>> ELSE f[i - 1] \o PrintedChar(text[i])]
            upto == CHOOSE f : Is(f)
            s == Append(upto[n], Quote)
            end(k) == Len(upto[k])
<1>1. n \in Nat /\ Quote \in Int /\ <<Quote>> \in V
  BY DEF Quote
<1>2. ASSUME NEW k \in 1..n PROVE PrintedChar(text[k]) \in V /\ Len(PrintedChar(text[k])) \in Nat /\ Len(PrintedChar(text[k])) >= 1
  <2>1. text[k] \in Chars
    OBVIOUS
  <2>. DEFINE p == PrintedChar(text[k])
  <2>2. p \in Seq(Int) /\ p # <<>>
    BY <2>1, Ways
  <2>. HIDE DEF p
  <2>3. Len(p) \in Nat /\ Len(p) >= 1
    BY <2>2
  <2>. QED  BY <2>2, <2>3 DEF p
<1>3. \E f : Is(f)
  <2>. DEFINE Equal(f) == f = [i \in 0..n |-> IF i = 0 THEN <<Quote>> ELSE f[i - 1] \o PrintedChar(text[i])]
  <2>1. \A f : Equal(f) => Is(f)
    OBVIOUS
  <2>. HIDE DEF Is, n
  <2>2. \A v \in V, k \in 1..n : v \o PrintedChar(text[k]) \in V
    BY <1>2
  <2>3. H \in [V \X (1..n) -> V] /\ \A v \in V, k \in 1..n : H[<<v, k>>] = v \o PrintedChar(text[k])
    BY <2>2
  <2>. HIDE DEF H, V
  <2>4. PICK g : GoesOn(g, n, V, <<Quote>>, H)
    BY <1>1, <2>3, Iterates
  <2>5. g \in [0..n -> V] /\ g[0] = <<Quote>> /\ \A k \in 1..n : g[k] = H[<<g[k - 1], k>>]
    BY <2>4 DEF GoesOn
  <2>6. ASSUME NEW k \in 1..n PROVE g[k] = g[k - 1] \o PrintedChar(text[k])
    <3>1. g[k - 1] \in V
      BY <1>1, <2>5
    <3>. QED  BY <2>3, <2>5, <3>1
  <2>7. \A k \in 0..n : g[k] = IF k = 0 THEN <<Quote>> ELSE g[k - 1] \o PrintedChar(text[k])
    <3>1. \A k \in 0..n : k = 0 \/ k \in 1..n
      BY <1>1
    <3>2. \A k \in 1..n : k # 0
      OBVIOUS
    <3>. QED  BY <2>5, <2>6, <3>1, <3>2
  <2>8. Equal(g)
    BY <2>5, <2>7
  <2>. QED  BY <2>1, <2>8
<1>4. Is(upto)
  <2>. HIDE DEF Is
  <2>. QED  BY <1>3
<1>5. Printed(text) = s
  BY DEF Printed
<1>. HIDE DEF upto
<1>6. upto[0] = <<Quote>> /\ \A k \in 1..n : upto[k] = upto[k - 1] \o PrintedChar(text[k])
  <2>1. \A k \in 0..n : upto[k] = IF k = 0 THEN <<Quote>> ELSE upto[k - 1] \o PrintedChar(text[k])
    BY <1>4
  <2>. HIDE DEF Is, n
  <2>2. 0 \in 0..n /\ \A k \in 1..n : k \in 0..n /\ k # 0
    BY <1>1
  <2>. QED  BY <2>1, <2>2
<1>. HIDE DEF Is, n, V, s
<1>7. \A k \in 0..n : upto[k] \in V
  <2>. DEFINE S == {k \in Nat : upto[k] \in V}
  <2>1. 0 \in S
    BY <1>1, <1>6
  <2>2. ASSUME NEW k \in 1..n, k - 1 \in S PROVE k \in S
    <3>1. upto[k - 1] \in Seq(Int) /\ PrintedChar(text[k]) \in Seq(Int)
      BY <1>2, <2>2 DEF V
    <3>2. upto[k] \in V
      BY <1>6, <3>1, JoinedAt DEF V
    <3>3. k \in Nat
      BY <1>1
    <3>. QED  BY <3>2, <3>3
  <2>. HIDE DEF S
  <2>3. \A k \in 0..n : k \in S
    BY <1>1, <2>1, <2>2, UpTo
  <2>. QED  BY <2>3 DEF S
<1>8. ASSUME NEW k \in 1..n
      PROVE  /\ end(k - 1) \in Nat /\ end(k) = end(k - 1) + Len(PrintedChar(text[k]))
             /\ \A j \in 1..end(k - 1) : upto[k][j] = upto[k - 1][j]
             /\ \A j \in 1..Len(PrintedChar(text[k])) : upto[k][end(k - 1) + j] = PrintedChar(text[k])[j]
  <2>. DEFINE a == upto[k - 1]  b == PrintedChar(text[k])
  <2>1. a \in V /\ b \in V /\ upto[k] = a \o b
    <3>1. k - 1 \in 0..n
      BY <1>1
    <3>. QED  BY <1>2, <1>6, <1>7, <3>1
  <2>. HIDE DEF a, b
  <2>2. IsJoined(upto[k], a, b) /\ Len(a) \in Nat
    BY <2>1, JoinedAt DEF V
  <2>. QED  BY <2>2 DEF IsJoined, a, b
<1>9. /\ s \in Seq(Int) /\ Len(s) = end(n) + 1 /\ s[Len(s)] = Quote /\ end(n) \in Nat
      /\ \A j \in 1..end(n) : s[j] = upto[n][j]
  <2>. DEFINE a == upto[n]
  <2>1. a \in Seq(Int) /\ s = Append(a, Quote)
    BY <1>1, <1>7 DEF s, V
  <2>. HIDE DEF a
  <2>2. s \in Seq(Int) /\ Len(s) = Len(a) + 1 /\ s[Len(a) + 1] = Quote /\ Len(a) \in Nat /\ \A j \in 1..Len(a) : s[j] = a[j]
    BY <1>1, <2>1
  <2>. QED  BY <2>2 DEF a
<1>10. \A k \in 0..n : end(k) \in Nat /\ end(k) >= 1
  <2>. DEFINE S == {k \in Nat : end(k) \in Nat /\ end(k) >= 1}
  <2>1. 0 \in S
    <3>1. end(0) = 1
      BY <1>6
    <3>. HIDE DEF end
    <3>. QED  BY <3>1
  <2>2. ASSUME NEW k \in 1..n, k - 1 \in S PROVE k \in S
    <3>1. end(k) = end(k - 1) + Len(PrintedChar(text[k])) /\ Len(PrintedChar(text[k])) \in Nat
      BY <1>2, <1>8
    <3>. HIDE DEF end
    <3>. QED  BY <2>2, <3>1
  <2>. HIDE DEF S
  <2>3. \A k \in 0..n : k \in S
    BY <1>1, <2>1, <2>2, UpTo
  <2>. QED  BY <2>3 DEF S
<1>. HIDE DEF end
<1>11. ASSUME NEW k \in 0..n PROVE end(k) <= end(n) /\ \A j \in 1..end(k) : s[j] = upto[k][j]
  <2>. DEFINE S == {d \in 0..n : end(n - d) <= end(n) /\ \A j \in 1..end(n - d) : s[j] = upto[n - d][j]}
  <2>1. 0 \in S
    <3>1. n - 0 = n /\ 0 \in 0..n /\ end(n) <= end(n)
      BY <1>1, <1>9
    <3>. QED  BY <1>9, <3>1
  <2>2. ASSUME NEW d \in 1..n, d - 1 \in S PROVE d \in S
    <3>. DEFINE m == n - (d - 1)
    <3>1. m \in 1..n /\ m \in 0..n /\ n - d = m - 1 /\ m - 1 \in 0..n
      BY <1>1
    <3>2. end(m) <= end(n) /\ \A j \in 1..end(m) : s[j] = upto[m][j]
      BY <2>2
    <3>. HIDE DEF m
    <3>3. end(m) \in Nat /\ end(m - 1) \in Nat /\ end(m - 1) <= end(m) /\ \A j \in 1..end(m - 1) : upto[m][j] = upto[m - 1][j]
      BY <1>2, <1>8, <1>10, <3>1
    <3>4. end(m - 1) <= end(n) /\ \A j \in 1..end(m - 1) : s[j] = upto[m - 1][j]
      BY <1>9, <3>2, <3>3
    <3>. QED  BY <3>1, <3>4
  <2>. HIDE DEF S
  <2>3. \A d \in 0..n : d \in S
    BY <1>1, <2>1, <2>2, UpTo
  <2>4. n - k \in 0..n /\ n - (n - k) = k
    BY <1>1
  <2>5. n - k \in S
    BY <2>3, <2>4
  <2>. QED  BY <2>4, <2>5 DEF S
<1>. DEFINE at == [k \in 0..n |-> end(k) + 1]
<1>12. at \in [0..n -> Nat] /\ \A k \in 0..n : at[k] = end(k) + 1
  BY <1>10
<1>. HIDE DEF at
<1>13. at[0] = 2
  <2>1. end(0) = 1
    BY <1>6 DEF end
  <2>. QED  BY <1>1, <1>12, <2>1
<1>14. s # <<>> /\ s[1] = Quote
  <2>1. end(0) = 1 /\ upto[0][1] = Quote
    BY <1>6 DEF end
  <2>2. s[1] = upto[0][1]
    BY <1>1, <1>11, <2>1
  <2>3. Len(s) >= 1
    BY <1>9
  <2>. QED  BY <1>9, <2>1, <2>2, <2>3
<1>15. ASSUME NEW k \in 1..n
       PROVE  /\ at[k] = at[k - 1] + Len(PrintedChar(text[k])) /\ at[k - 1] \in 2..Len(s)
              /\ Stands(s, at[k - 1], PrintedChar(text[k]))
  <2>. DEFINE p == PrintedChar(text[k])  e == end(k - 1)
  <2>1. k - 1 \in 0..n /\ k \in 0..n
    BY <1>1
  <2>2. at[k - 1] = e + 1 /\ at[k] = end(k) + 1 /\ end(k) = e + Len(p) /\ Len(p) \in Nat /\ Len(p) >= 1 /\ e \in Nat /\ e >= 1
    BY <1>2, <1>8, <1>10, <1>12, <2>1
  <2>3. end(k) <= end(n) /\ \A j \in 1..end(k) : s[j] = upto[k][j]
    BY <1>11, <2>1
  <2>4. \A j \in 1..Len(p) : upto[k][e + j] = p[j]
    BY <1>8
  <2>. HIDE DEF p, e
  <2>5. ASSUME NEW j \in 1..Len(p) PROVE s[at[k - 1] + j - 1] = p[j]
    <3>1. at[k - 1] + j - 1 = e + j /\ e + j \in 1..end(k)
      BY <2>2
    <3>. QED  BY <2>3, <2>4, <3>1
  <2>6. at[k - 1] + Len(p) - 1 <= Len(s) /\ at[k - 1] \in 2..Len(s) /\ at[k] = at[k - 1] + Len(p)
    BY <1>9, <2>2, <2>3
  <2>. QED  BY <2>5, <2>6 DEF Stands, p
<1>16. at[n] = Len(s) /\ Len(s) >= 2
  BY <1>1, <1>9, <1>10, <1>12
<1>17. Printing(text, at, s)
  BY <1>9, <1>12, <1>13, <1>14, <1>15, <1>16 DEF Printing, n
<1>. QED  BY <1>5, <1>17

\* What is printed of a text is one literal, and the same text when it has seven
\* bits: from the quote at its end back to its first character.
LEMMA EveryTextKept ==
    ASSUME NEW text \in Seq(Chars)
    PROVE  /\ Parsed(Printed(text)).end = Len(Printed(text))
           /\ (\A i \in DOMAIN text : text[i] >= 0) => Parsed(Printed(text)).text = text
<1>. DEFINE n == Len(text)  s == Printed(text)
            SevenBit == \A i \in DOMAIN text : text[i] >= 0
<1>1. PICK at : Printing(text, at, s)
  BY PrintedStands
<1>. HIDE DEF s
<1>2. /\ s \in Seq(Int) /\ at \in [0..n -> Nat] /\ at[0] = 2 /\ s # <<>> /\ s[1] = Quote
      /\ \A k \in 1..n : /\ at[k] = at[k - 1] + Len(PrintedChar(text[k]))
                         /\ at[k - 1] \in 2..Len(s)
                         /\ Stands(s, at[k - 1], PrintedChar(text[k]))
      /\ at[n] = Len(s) /\ Len(s) >= 2 /\ s[Len(s)] = Quote
  BY <1>1 DEF Printing
<1>3. PICK from : (\A i \in 2 .. Len(s) + 1 : Reads(from, s, i)) /\ Parsed(s) = from[2]
  BY <1>2, ParsedReads
<1>4. n \in Nat /\ DOMAIN text = 1..n /\ \A k \in 1..n : text[k] \in Chars /\ text[k] \in Int
  <2>1. \A c \in Chars : c \in Int
    BY DEF Chars
  <2>. QED  BY <2>1
<1>. DEFINE rest(k) == from[at[k]]
            Right(k) == /\ rest(k).end = Len(s)
                        /\ SevenBit => /\ rest(k).text \in Seq(Int) /\ Len(rest(k).text) = n - k
                                       /\ \A j \in 1 .. n - k : rest(k).text[j] = text[k + j]
            S == {d \in 0..n : Right(n - d)}
<1>5. 0 \in S
  <2>1. n - 0 = n /\ 0 \in 0..n /\ Len(s) \in 1 .. Len(s) + 1 /\ Len(s) \in 2 .. Len(s) + 1
    BY <1>2, <1>4
  <2>2. At(s, Len(s)) = Quote
    BY <1>2, <2>1, Looks
  <2>3. Reads(from, s, Len(s))
    BY <1>3, <2>1
  <2>4. rest(n) = [text |-> <<>>, end |-> Len(s)]
    BY <1>2, <2>2, <2>3 DEF Reads
  <2>. HIDE DEF n, SevenBit
  <2>5. Right(n)
    BY <1>4, <2>4
  <2>. HIDE DEF Right
  <2>. QED  BY <2>1, <2>5
<1>6. ASSUME NEW d \in 1..n, d - 1 \in S PROVE d \in S
  <2>. DEFINE k == n - (d - 1)  c == text[k]
  <2>1. k \in 1..n /\ n - d = k - 1 /\ d \in 0..n
    BY <1>4
  <2>2. Right(k)
    BY <1>6
  <2>. HIDE DEF k, S, n
  <2>3. rest(k).end = Len(s)
    BY <2>2
  <2>4. c \in Chars /\ at[k - 1] \in 2..Len(s) /\ at[k] = at[k - 1] + Len(PrintedChar(c)) /\ Stands(s, at[k - 1], PrintedChar(c))
    BY <1>2, <1>4, <2>1
  <2>. HIDE DEF c, SevenBit
  <2>5. rest(k - 1).end = Len(s) /\ (c >= 0 => rest(k - 1).text = <<c>> \o rest(k).text)
    <3>1. from[at[k - 1] + Len(PrintedChar(c))].end = Len(s)
      BY <2>3, <2>4
    <3>2. /\ from[at[k - 1]].end = Len(s)
          /\ c >= 0 => from[at[k - 1]].text = <<c>> \o from[at[k - 1] + Len(PrintedChar(c))].text
      BY <1>2, <1>3, <2>4, <3>1, PrintedRead
    <3>. QED  BY <2>4, <3>2
  <2>. HIDE DEF rest
  <2>6. ASSUME SevenBit
        PROVE  /\ rest(k - 1).text \in Seq(Int) /\ Len(rest(k - 1).text) = n - (k - 1)
               /\ \A j \in 1 .. n - (k - 1) : rest(k - 1).text[j] = text[(k - 1) + j]
    <3>. DEFINE t == rest(k).text  u == rest(k - 1).text
    <3>1. t \in Seq(Int) /\ Len(t) = n - k /\ \A j \in 1 .. n - k : t[j] = text[k + j]
      BY <2>2, <2>6
    <3>2. c >= 0 /\ c \in Int
      BY <1>4, <2>1, <2>6 DEF SevenBit, c
    <3>3. u = <<c>> \o t
      BY <2>5, <3>2
    <3>. HIDE DEF t, u
    <3>4. u \in Seq(Int) /\ Len(u) = n - k + 1 /\ u[1] = c /\ \A j \in 1 .. n - k : u[1 + j] = t[j]
      <4>. DEFINE one == <<c>>
      <4>1. one \in Seq(Int) /\ Len(one) = 1 /\ one[1] = c
        BY <3>2
      <4>2. u = one \o t
        BY <3>3
      <4>. HIDE DEF one
      <4>3. u \in Seq(Int) /\ IsJoined(u, one, t)
        BY <3>1, <4>1, <4>2, JoinedAt
      <4>4. n - k \in Nat
        BY <1>4, <2>1
      <4>. QED  BY <3>1, <4>1, <4>3, <4>4 DEF IsJoined
    <3>5. ASSUME NEW j \in 1 .. n - (k - 1) PROVE u[j] = text[(k - 1) + j]
      <4>1. CASE j = 1
        <5>1. (k - 1) + 1 = k
          BY <2>1
        <5>. QED  BY <3>4, <4>1, <5>1 DEF c
      <4>2. CASE j # 1
        <5>1. j - 1 \in 1 .. n - k /\ 1 + (j - 1) = j /\ k + (j - 1) = (k - 1) + j
          BY <1>4, <2>1, <4>2
        <5>. QED  BY <3>1, <3>4, <5>1
      <4>. QED  BY <4>1, <4>2
    <3>6. n - k + 1 = n - (k - 1)
      BY <1>4, <2>1
    <3>. QED  BY <3>4, <3>5, <3>6 DEF u
  <2>7. Right(k - 1)
    BY <2>5, <2>6
  <2>. HIDE DEF Right
  <2>8. Right(n - d)
    BY <2>1, <2>7
  <2>. QED  BY <2>1, <2>8 DEF S
<1>. HIDE DEF S
<1>7. n \in S
  <2>1. \A d \in 0..n : d \in S
    BY <1>4, <1>5, <1>6, UpTo
  <2>. QED  BY <1>4, <2>1
<1>8. Right(0)
  <2>1. n - n = 0
    BY <1>4
  <2>2. Right(n - n)
    <3>. HIDE DEF Right
    <3>. QED  BY <1>7 DEF S
  <2>. HIDE DEF Right
  <2>. QED  BY <2>1, <2>2
<1>9. rest(0) = Parsed(s)
  BY <1>2, <1>3
<1>10. Parsed(s).end = Len(s)
  BY <1>8, <1>9
<1>11. ASSUME SevenBit PROVE Parsed(s).text = text
  <2>. DEFINE t == rest(0).text
  <2>1. t \in Seq(Int) /\ Len(t) = n - 0 /\ \A j \in 1 .. n - 0 : t[j] = text[0 + j]
    BY <1>8, <1>11
  <2>. HIDE DEF t, rest
  <2>2. n - 0 = n /\ \A j \in 1..n : 0 + j = j
    BY <1>4
  <2>3. Len(t) = n /\ \A j \in 1..n : t[j] = text[j]
    BY <2>1, <2>2
  <2>4. t = text
    BY <1>4, <2>1, <2>3, SeqEqual
  <2>. QED  BY <1>9, <2>4 DEF t
<1>. QED  BY <1>10, <1>11 DEF s

IsText == chars \in Seq(Characters)

LEMMA TextInit == CodecInit => IsText
BY DEF CodecInit, IsText

LEMMA TextNext == IsText /\ [CodecNext]_codecVars => IsText'
<1>. SUFFICES ASSUME IsText, [CodecNext]_codecVars PROVE IsText'
  OBVIOUS
<1>1. ASSUME chars' = chars PROVE IsText'
  BY <1>1 DEF IsText
<1>2. CASE NextText
  <2>1. CASE chars' = <<>>
    BY <2>1 DEF IsText
  <2>2. ASSUME NEW c \in Characters, chars' = Append(chars, c) PROVE IsText'
    <3>1. Append(chars, c) \in Seq(Characters)
      BY AppendProperties DEF IsText
    <3>. QED  BY <2>2, <3>1 DEF IsText
  <2>. QED  BY <1>2, <2>1, <2>2 DEF NextText
<1>. QED  BY <1>1, <1>2 DEF CodecNext, NextWord, codecVars

LEMMA TextKept == IsText => LiteralKept
<1>. SUFFICES ASSUME IsText PROVE LiteralKept
  OBVIOUS
<1>1. chars \in Seq(Chars)
  BY CodecAssumption DEF IsText
<1>. QED  BY <1>1, EveryTextKept DEF LiteralKept

\* A text that lsstr_print printed is one literal for lsstr_parse, and the same text
\* if its characters have seven bits, whatever its length.
THEOREM LiteralsKept == CodecSpec => []LiteralKept
BY TextInit, TextNext, TextKept, PTL DEF CodecSpec
=============================================================================
