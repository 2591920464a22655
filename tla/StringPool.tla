----------------------------- MODULE StringPool -----------------------------
(***************************************************************************)
(* The pool of common/str.c that keeps one object for every text: open     *)
(* addressing with linear probing. The table itself keeps its objects      *)
(* alive, so their finalizer, which would take them out, never runs.       *)
(***************************************************************************)
EXTENDS Integers, Sequences, FiniteSets

CONSTANTS Texts,
          TextHash,     \* lsstr_calc_hash_bare of every text
          PoolCapacity  \* of a new pool, 16 in the code

VARIABLES ents,      \* the object in each slot, or Free
          filled,    \* lsth_size
          slots,     \* lsth_cap
          texts,     \* the text of every object made so far
          given      \* the last text asked for and the object it got

poolVars == <<ents, filled, slots, texts, given>>

ASSUME PoolAssumption ==
    TextHash \in [Texts -> Nat] /\ PoolCapacity \in Nat \ {0}

Free == 0

PoolInit ==
    /\ ents = [i \in 0 .. PoolCapacity - 1 |-> Free]
    /\ filled = 0 /\ slots = PoolCapacity /\ texts = <<>> /\ given = <<>>

(* lsstr_ht_get_raw: from the slot of its hash on, and round the end of    *)
(* the table, the first slot with the text or with nothing.                *)
Probe(cap, text, d) ==
    LET i == (TextHash[text] % cap) + d IN IF i >= cap THEN i - cap ELSE i

Stops(table, cap, text, d) ==
    LET o == table[Probe(cap, text, d)] IN o = Free \/ texts[o] = text

Slot(table, cap, text) ==
    Probe(cap, text, CHOOSE d \in 0 .. cap - 1 :
                        /\ Stops(table, cap, text, d)
                        /\ \A e \in 0 .. d - 1 : ~Stops(table, cap, text, e))

ResizedInPlace(cap) ==
    [j \in 0 .. cap - 1 |-> IF j < slots THEN ents[j] ELSE Free]

(* lsstr_ht_resize: the objects, slot by slot, into a table of cap slots.  *)
Resized(cap) ==
    LET upto[i \in 0 .. slots] ==
            IF i = 0 THEN [j \in 0 .. cap - 1 |-> Free]
            ELSE LET table == upto[i - 1]
                     o == ents[i - 1]
                 IN  IF o = Free THEN table
                     ELSE [table EXCEPT ![Slot(table, cap, texts[o])] = o]
    IN  upto[slots]

(* The loops below double a width for as long as it is too small. A round  *)
(* adds at least one slot, so these are rounds enough.                     *)
Rounds == 2 * (filled + 1)

WidthWhenFull ==
    LET after[k \in 0 .. Rounds] ==
            IF k = 0 THEN slots
            ELSE LET cap == after[k - 1] IN IF filled >= cap THEN 2 * cap ELSE cap
    IN  after[Rounds]

(* Less than half of the slots are to be in use, the new text counted.     *)
Width ==
    LET after[k \in 0 .. Rounds] ==
            IF k = 0 THEN slots
            ELSE LET cap == after[k - 1] IN IF (filled + 1) * 2 >= cap THEN 2 * cap ELSE cap
    IN  after[Rounds]

(* lsstr_new: the object of the text, made if there is none.               *)
New(text) ==
    LET table == IF Width = slots THEN ents ELSE Resized(Width)
        slot == Slot(table, Width, text)
    IN  /\ slots' = Width
        /\ IF table[slot] # Free
           THEN ents' = table /\ UNCHANGED <<filled, texts>>
           ELSE /\ texts' = Append(texts, text)
                /\ ents' = [table EXCEPT ![slot] = Len(texts) + 1]
                /\ filled' = filled + 1
        /\ given' = <<text, ents'[slot]>>

PoolNext == \E text \in Texts : New(text)
PoolSpec == PoolInit /\ [][PoolNext]_poolVars

-----------------------------------------------------------------------------
(* A text gets an object of its own and never a second one, though objects *)
(* move when the pool grows and lie in slots of other hashes.              *)
OneObject ==
    /\ \A o, p \in 1 .. Len(texts) : texts[o] = texts[p] => o = p
    /\ given # <<>> => texts[given[2]] = given[1]

(* Probing ends, whatever text is looked for: a slot is free, and the size *)
(* that growing goes by is the number of slots that are not.               *)
ProbesEnd ==
    LET used == {i \in 0 .. slots - 1 : ents[i] # Free}
    IN  filled = Cardinality(used) /\ filled < slots
=============================================================================
