----------------------------- MODULE HashTable ------------------------------
(***************************************************************************)
(* The chained hash table of common/hash.c. A put looks whether the table  *)
(* must grow, moves every entry to a table twice as wide if so, one after  *)
(* the other, and inserts. lshash_remove has no caller in the program.     *)
(***************************************************************************)
EXTENDS Integers, Sequences

CONSTANTS Keys, Values,
          Hash,           \* lsstr_calc_hash of every key
          FirstCapacity,  \* 16 in the code
          CorruptAbove    \* 2^26 in the code: a wider table counts as corrupt

ASSUME TableAssumption ==
    /\ Hash \in [Keys -> Nat]
    /\ FirstCapacity \in Nat \ {0}
    /\ CorruptAbove \in Nat

VARIABLES entries,   \* the chain of each bucket
          size, capacity,
          answer,    \* what the last call found: <<value>>, or <<>>
          op,        \* the put under way
          fresh, count, width,  \* the table entries move to, as they do
          bucket, pos           \* the entry to move next

new == <<fresh, count, width, bucket, pos>>
vars == <<entries, size, capacity, answer, op, new>>

Idle == [call |-> "none"]
Calls == [call : {"rehash", "insert"}, key : Keys, value : Values]
Entries == [key : Keys, value : Values]
Empty(c) == [b \in 0 .. c - 1 |-> <<>>]
Home(key, c) == Hash[key] % c

Has(chain, key) == \E j \in 1 .. Len(chain) : chain[j].key = key
Position(chain, key) ==
    CHOOSE j \in 1 .. Len(chain) :
        chain[j].key = key /\ \A i \in 1 .. j - 1 : chain[i].key # key
Find(chain, key) ==
    IF Has(chain, key) THEN <<chain[Position(chain, key)].value>> ELSE <<>>
PutRaw(chain, key, value) ==
    IF Has(chain, key)
    THEN [chain EXCEPT ![Position(chain, key)] = [key |-> key, value |-> value]]
    ELSE Append(chain, [key |-> key, value |-> value])

NoRehash == fresh' = <<>> /\ count' = 0 /\ width' = 0 /\ bucket' = 0 /\ pos' = 1

Init ==
    /\ entries = Empty(FirstCapacity) /\ size = 0 /\ capacity = FirstCapacity
    /\ answer = <<>> /\ op = Idle
    /\ fresh = <<>> /\ count = 0 /\ width = 0 /\ bucket = 0 /\ pos = 1

Wider(c, n) == IF 2 * c < n THEN 2 * n ELSE 2 * c

-----------------------------------------------------------------------------
(* The start of a put: a table that looks corrupt is emptied.              *)
PutTable(key, value, c, n) ==
    /\ capacity' = c /\ size' = n
    /\ IF 4 * n >= 3 * c
       THEN /\ op' = [call |-> "rehash", key |-> key, value |-> value]
            /\ width' = Wider(c, n) /\ fresh' = Empty(Wider(c, n))
            /\ UNCHANGED <<count, bucket, pos>>
       ELSE /\ op' = [call |-> "insert", key |-> key, value |-> value]
            /\ UNCHANGED new
    /\ UNCHANGED answer

Put(key, value) ==
    /\ op = Idle /\ capacity <= CorruptAbove
    /\ PutTable(key, value, capacity, size)
    /\ UNCHANGED entries

PutCorrupt(key, value) ==
    /\ op = Idle /\ capacity > CorruptAbove
    /\ entries' = Empty(FirstCapacity)
    /\ PutTable(key, value, FirstCapacity, 0)

(* lshash_rehash.                                                          *)
MoveSkips ==
    /\ op # Idle /\ op.call = "rehash" /\ bucket < capacity /\ pos <= Len(entries[bucket])
    /\ pos' = pos + 2
    /\ LET e == entries[bucket][pos]
           b == Home(e.key, width)
       IN  /\ fresh' = [fresh EXCEPT ![b] = PutRaw(@, e.key, e.value)]
           /\ count' = IF Has(fresh[b], e.key) THEN count ELSE count + 1
    /\ UNCHANGED <<entries, size, capacity, answer, op, width, bucket>>

Move ==
    /\ op # Idle /\ op.call = "rehash" /\ bucket < capacity /\ pos <= Len(entries[bucket])
    /\ LET e == entries[bucket][pos]
           b == Home(e.key, width)
       IN  /\ fresh' = [fresh EXCEPT ![b] = PutRaw(@, e.key, e.value)]
           /\ count' = IF Has(fresh[b], e.key) THEN count ELSE count + 1
    /\ pos' = pos + 1
    /\ UNCHANGED <<entries, size, capacity, answer, op, width, bucket>>

NextBucket ==
    /\ op # Idle /\ op.call = "rehash" /\ bucket < capacity /\ pos > Len(entries[bucket])
    /\ bucket' = bucket + 1 /\ pos' = 1
    /\ UNCHANGED <<entries, size, capacity, answer, op, fresh, count, width>>

Rehashed ==
    /\ op # Idle /\ op.call = "rehash" /\ bucket = capacity
    /\ entries' = fresh /\ size' = count /\ capacity' = width
    /\ op' = [op EXCEPT !.call = "insert"]
    /\ NoRehash
    /\ UNCHANGED answer

InsertUncounted ==
    /\ op # Idle /\ op.call = "insert"
    /\ LET b == Home(op.key, capacity)
       IN  /\ entries' = [entries EXCEPT ![b] = PutRaw(@, op.key, op.value)]
           /\ size' = size + 1
           /\ answer' = Find(entries[b], op.key)
    /\ op' = Idle
    /\ UNCHANGED <<capacity, new>>

(* The end of a put.                                                       *)
Insert ==
    /\ op # Idle /\ op.call = "insert"
    /\ LET b == Home(op.key, capacity)
       IN  /\ entries' = [entries EXCEPT ![b] = PutRaw(@, op.key, op.value)]
           /\ size' = IF Has(entries[b], op.key) THEN size ELSE size + 1
           /\ answer' = Find(entries[b], op.key)
    /\ op' = Idle
    /\ UNCHANGED <<capacity, new>>

Get(key) ==
    /\ op = Idle
    /\ answer' = Find(entries[Home(key, capacity)], key)
    /\ UNCHANGED <<entries, size, capacity, op, new>>

Continue == Move \/ NextBucket \/ Rehashed \/ Insert
Next ==
    \/ Continue
    \/ \E key \in Keys : Get(key)
    \/ \E key \in Keys, value \in Values : Put(key, value) \/ PutCorrupt(key, value)
Spec == Init /\ [][Next]_vars

(* lshash_foreach: bucket after bucket, each from its first entry.         *)
Visited ==
    LET upto[b \in 0 .. capacity] == IF b = 0 THEN <<>> ELSE upto[b - 1] \o entries[b - 1]
    IN  upto[capacity]

-----------------------------------------------------------------------------
Contents ==
    [key \in {k \in Keys : Has(entries[Home(k, capacity)], k)} |->
        Find(entries[Home(key, capacity)], key)[1]]
Map == INSTANCE TextMap WITH map <- Contents

(* The table is a map: whatever was put under a key is found, through      *)
(* collisions and while and after the table grows, until it is wider than  *)
(* CorruptAbove: then the next put empties it.                             *)
ImplementsMap == Map!Init /\ [][capacity <= CorruptAbove => Map!Next]_<<Contents, answer>>

(* A walk over the table (the members of a namespace) meets every entry of *)
(* it once, and their number is the one growing goes by.                   *)
WalkComplete ==
    /\ {Visited[i] : i \in 1 .. Len(Visited)}
         = {[key |-> k, value |-> Contents[k]] : k \in DOMAIN Contents}
    /\ \A i, j \in 1 .. Len(Visited) : Visited[i].key = Visited[j].key => i = j
    /\ size = Len(Visited)

=============================================================================
