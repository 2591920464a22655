-------------------------- MODULE LstiImageProofs --------------------------
(***************************************************************************)
(* For all graphs, names of files and histories of writes, loads and       *)
(* processes that end: a file is accepted exactly when its write was       *)
(* completed, and the graph made of it is the one that was written.        *)
(* ImageInv is about which parts of a file are there and fit together,     *)
(* GraphInv about what is in them.                                         *)
(***************************************************************************)
EXTENDS LstiImage, ThunkGraphProofs

-----------------------------------------------------------------------------
(* The blobs *)

\* Texts have lengths, however they got into a blob.
Measured(texts) == Sequence(texts) /\ \A i \in 1..Len(texts) : texts[i].len \in Nat

\* In a blob each text ends behind the one before, and none behind its end.
LEMMA EndsGrow ==
    ASSUME NEW texts, Measured(texts)
    PROVE  /\ BlobLen(texts) \in Nat
           /\ \A i \in 1..Len(texts) : /\ Ends(texts)[i - 1] \in Nat
                                       /\ Ends(texts)[i - 1] + texts[i].len <= BlobLen(texts)
           /\ \A i, j \in 1..Len(texts) : i < j => Ends(texts)[i - 1] + texts[i].len <= Ends(texts)[j - 1]
<1>. DEFINE n == Len(texts)
            next(m, i) == m + texts[i].len
            H == [x \in Nat \X (1..n) |-> next(x[1], x[2])]
            Is(g) == g = [i \in 0..Len(texts) |-> IF i = 0 THEN 0 ELSE g[i - 1] + texts[i].len]
            end == CHOOSE g : Is(g)
<1>1. n \in Nat /\ \A i \in 1..n : texts[i].len \in Nat
  BY SequenceProperties DEF Measured
<1>2. Ends(texts) = end
  BY DEF Ends
<1>3. \E g : Is(g) /\ g \in [0..n -> Nat]
  <2>1. H \in [Nat \X (1..n) -> Nat]
    BY <1>1
  <2>2. \A m \in Nat, i \in 1..n : H[<<m, i>>] = next(m, i)
    OBVIOUS
  <2>. HIDE DEF H
  <2>3. \E g : GoesOn(g, n, Nat, 0, H)
    BY <1>1, <2>1, Iterates
  <2>4. PICK g \in [0..n -> Nat] : g[0] = 0 /\ \A i \in 1..n : g[i] = H[<<g[i - 1], i>>]
    BY <2>3 DEF GoesOn
  <2>5. ASSUME NEW i \in 1..n PROVE g[i] = next(g[i - 1], i)
    <3>1. g[i - 1] \in Nat
      BY <1>1
    <3>. QED  BY <2>2, <2>4, <3>1
  <2>6. \A i \in 0..n : g[i] = IF i = 0 THEN 0 ELSE next(g[i - 1], i)
    BY <1>1, <2>4, <2>5
  <2>7. Is(g)
    BY <2>6
  <2>. QED  BY <2>7
<1>4. Is(end)
  <2>. HIDE DEF Is
  <2>. QED  BY <1>3
<1>. HIDE DEF end
<1>5. end[0] = 0 /\ \A i \in 1..n : end[i] = end[i - 1] + texts[i].len
  BY <1>1, <1>4
<1>. HIDE DEF Is
<1>. DEFINE T == {k \in Nat : end[k] \in Nat /\ \A i \in 0..k : end[i] \in Nat /\ end[i] <= end[k]}
<1>6. 0 \in T
  BY <1>5
<1>7. ASSUME NEW k \in 1..n, k - 1 \in T PROVE k \in T
  <2>1. end[k - 1] \in Nat /\ \A i \in 0..(k - 1) : end[i] \in Nat /\ end[i] <= end[k - 1]
    BY <1>7
  <2>2. texts[k].len \in Nat /\ end[k] = end[k - 1] + texts[k].len
    BY <1>1, <1>5
  <2>3. end[k] \in Nat /\ end[k - 1] <= end[k]
    BY <2>1, <2>2
  <2>4. ASSUME NEW i \in 0..k PROVE end[i] \in Nat /\ end[i] <= end[k]
    <3>1. CASE i = k
      BY <2>3, <3>1
    <3>2. CASE i # k
      <4>1. i \in 0..(k - 1)
        BY <3>2
      <4>2. end[i] \in Nat /\ end[i] <= end[k - 1]
        BY <2>1, <4>1
      <4>. QED  BY <2>1, <2>3, <4>2
    <3>. QED  BY <3>1, <3>2
  <2>. QED  BY <2>3, <2>4
<1>. HIDE DEF T
<1>8. \A k \in 0..n : k \in T
  BY <1>1, <1>6, <1>7, UpTo
<1>9. end[n] \in Nat /\ \A i \in 0..n : end[i] \in Nat /\ end[i] <= end[n]
  <2>1. n \in 0..n
    BY <1>1
  <2>. QED  BY <1>8, <2>1 DEF T
<1>10. ASSUME NEW i \in 1..n PROVE end[i - 1] \in Nat /\ end[i - 1] + texts[i].len <= end[n]
  <2>1. i - 1 \in 0..n /\ i \in 0..n
    BY <1>1
  <2>. QED  BY <1>5, <1>9, <2>1
<1>11. ASSUME NEW i \in 1..n, NEW j \in 1..n, i < j PROVE end[i - 1] + texts[i].len <= end[j - 1]
  <2>1. i \in 0..(j - 1) /\ j - 1 \in 0..n
    BY <1>1, <1>11
  <2>. QED  BY <1>5, <1>8, <2>1 DEF T
<1>. QED  BY <1>2, <1>9, <1>10, <1>11 DEF BlobLen

-----------------------------------------------------------------------------
(* The pools *)

IsPool(pool) == Sequence(pool) /\ \A i \in 1..Len(pool) : DOMAIN pool[i] = {"text", "off"}
TextsIn(pool) == {pool[i].text : i \in 1..Len(pool)}

(* Each entry of a text of the blob lies in the blob, whatever else is in  *)
(* the pool.                                                               *)
Fits(pool, blob) ==
    /\ IsPool(pool)
    /\ Range(blob) \subseteq TextsIn(pool)
    /\ \A i \in 1..Len(pool) : pool[i].text \in Range(blob) =>
           pool[i].off \in Nat /\ pool[i].off + pool[i].text.len <= BlobLen(blob)

-----------------------------------------------------------------------------
(* The invariant *)

FileFields == {"head", "table", "strings", "symbols", "patterns", "thunks", "roots"}
ThunkFields == {"kind", "text", "num", "kids", "pat", "tgt"}

Records ==
    /\ DOMAIN mem = {"th", "pat"}
    /\ DOMAIN wr = {"file", "roots", "nodes", "qh", "next", "params", "spool", "ypool"}
    /\ DOMAIN ld = {"file", "nodes"}
    /\ DOMAIN disk = Files /\ DOMAIN wrote = Files
    /\ \A f \in Files : DOMAIN disk[f] = FileFields

(* A thunk of a memory of n thunks.                                        *)
GoodThunk(n, t) ==
    /\ DOMAIN t = ThunkFields
    /\ t.kind \in Kinds
    /\ t.text.len \in Nat
    /\ t.kids \in Seq(0..n)
    /\ t.kind = "appl" => t.kids # <<>>
    /\ t.kind = "choice" => t.num \in 1..3

MemInv ==
    /\ Sequence(mem.th)
    /\ \A a \in 1..Len(mem.th) : GoodThunk(Len(mem.th), mem.th[a])
    /\ Sequence(held)
    /\ \A i \in 1..Len(held) : held[i] \in Seq(0..Len(mem.th))

(* An entry of an image of n thunks.                                       *)
GoodEntry(file, n, e) ==
    /\ e.kind \in Kinds
    /\ e.len \in Nat
    /\ e.kids \in Seq(1..n)
    /\ e.kind \in StringKinds => file.strings # <<>> /\ e.off + e.len <= BlobLen(file.strings)
    /\ e.kind \in SymbolKinds => file.symbols # <<>> /\ e.off + e.len <= BlobLen(file.symbols)
    /\ e.kind = "appl" => e.kids # <<>>
    /\ e.kind = "choice" => e.num \in 1..3
    /\ e.kind = "lambda" => e.pat \in 1..Len(file.patterns)

GoodEntries(file, n) ==
    /\ Sequence(file.thunks)
    /\ \A i \in 1..Len(file.thunks) : GoodEntry(file, n, file.thunks[i])

GoodTexts(file) == Measured(file.strings) /\ Measured(file.symbols)

GoodImage(file) ==
    /\ file.head
    /\ {"thunks", "roots"} \subseteq file.table
    /\ file.strings # <<>> => "strings" \in file.table
    /\ file.symbols # <<>> => "symbols" \in file.table
    /\ file.patterns # <<>> => "patterns" \in file.table
    /\ Sequence(file.patterns)
    /\ GoodTexts(file)
    /\ GoodEntries(file, Len(file.thunks))
    /\ file.roots \in Seq(1..Len(file.thunks))

DiskInv == \A f \in Files :
    /\ wrote[f] = NoGraph => "roots" \notin disk[f].table
    /\ wrote[f] # NoGraph => GoodImage(disk[f])

(* Of the thunks whose turn has come everything that was to be collected   *)
(* has been.                                                               *)
Turned(t, nodes, params) ==
    /\ Range(t.kids) \subseteq Range(nodes) \cup {NULL}
    /\ t.kind = "lambda" => t.pat \in Range(params)
TextKept(t, strings, symbols) ==
    /\ t.kind \in StringKinds => t.text \in strings
    /\ t.kind \in SymbolKinds => t.text \in symbols

Turn(i) == mem.th[wr.nodes[i]]

WriterInv ==
    /\ wr.file \in Files /\ wrote[wr.file] = NoGraph
    /\ wr.nodes \in Seq(1..Len(mem.th))
    /\ Sequence(wr.roots) /\ Range(wr.roots) \subseteq Range(wr.nodes) \cup {NULL}
    /\ Sequence(wr.params)
    /\ wr.qh \in 0..Len(wr.nodes)
    /\ op # "collect" => wr.qh = Len(wr.nodes)
    /\ \A i \in 1..wr.qh : Turned(Turn(i), wr.nodes, wr.params)

Collecting ==
    /\ IsPool(wr.spool) /\ Measured(Texts(wr.spool))
    /\ IsPool(wr.ypool) /\ Measured(Texts(wr.ypool))
    /\ \A i \in 1..wr.qh : TextKept(Turn(i), TextsIn(wr.spool), TextsIn(wr.ypool))
    /\ Out = IF op = "blobs" THEN [EmptyFile EXCEPT !.head = TRUE] ELSE EmptyFile

Filling ==
    /\ Out.head
    /\ GoodTexts(Out)
    /\ Fits(wr.spool, Out.strings) /\ Fits(wr.ypool, Out.symbols)
    /\ \A i \in 1..wr.qh : TextKept(Turn(i), Range(Out.strings), Range(Out.symbols))
    /\ Sequence(Out.patterns)
    /\ GoodEntries(Out, Len(wr.nodes))
    /\ wr.next \in Nat \ {0}
    /\ op = "patterns" =>
         /\ wr.next = Len(Out.patterns) + 1 /\ wr.next <= Len(wr.params) + 1
         /\ Out.thunks = <<>>
    /\ op \in {"thunks", "table"} => Len(Out.patterns) = Len(wr.params)
    /\ op = "thunks" => wr.next = Len(Out.thunks) + 1 /\ wr.next <= Len(wr.nodes) + 1
    /\ op = "table" =>
         /\ Len(Out.thunks) = Len(wr.nodes)
         /\ Out.roots \in Seq(1..Len(wr.nodes))
         /\ wr.next <= Len(Sections)
         /\ \A i \in 1..(wr.next - 1) : Sections[i] \in Out.table

(* A thunk made so far is of the kind of its entry.                        *)
LoaderInv ==
    /\ ld.file \in Files /\ wrote[ld.file] # NoGraph
    /\ ld.nodes \in Seq(1..Len(mem.th))
    /\ Len(ld.nodes) <= Len(In.thunks)
    /\ \A i \in 1..Len(ld.nodes) : mem.th[ld.nodes[i]].kind = In.thunks[i].kind

ImageInv ==
    /\ Records /\ MemInv /\ DiskInv
    /\ op \in {"collect", "blobs", "patterns", "thunks", "table"} => WriterInv
    /\ op \in {"collect", "blobs"} => Collecting
    /\ op \in {"patterns", "thunks", "table"} => Filling
    /\ op = "nodes" => LoaderInv

-----------------------------------------------------------------------------
(* The operators on pools *)

LEMMA EmptyPool ==
    /\ IsPool(<<>>) /\ TextsIn(<<>>) = {}
    /\ Measured(Texts(<<>>))
<1>1. Sequence(<<>>) /\ Len(<<>>) = 0
  BY EmptySeq DEF Sequence
<1>2. Texts(<<>>) = <<>>
  BY DEF Texts
<1>. QED  BY <1>1, <1>2 DEF IsPool, TextsIn, Measured

\* The texts of a pool, in its order.
LEMMA TextsOf ==
    ASSUME NEW pool, IsPool(pool)
    PROVE  /\ Sequence(Texts(pool)) /\ Len(Texts(pool)) = Len(pool)
           /\ \A i \in 1..Len(pool) : Texts(pool)[i] = pool[i].text
           /\ Range(Texts(pool)) = TextsIn(pool)
<1>. DEFINE n == Len(pool)
            texts == Texts(pool)
<1>1. n \in Nat /\ DOMAIN pool = 1..n
  BY SequenceProperties DEF IsPool
<1>2. texts = [i \in 1..n |-> pool[i].text]
  BY <1>1 DEF Texts
<1>3. texts \in Seq(TextsIn(pool)) /\ Len(texts) = n
  <2>1. texts \in [1..n -> TextsIn(pool)]
    BY <1>2 DEF TextsIn
  <2>. HIDE DEF texts, n
  <2>2. DOMAIN texts = 1..n
    BY <1>2
  <2>. QED  BY <1>1, <2>1, <2>2, SeqDef, LenProperties
<1>4. Sequence(texts)
  BY <1>3, SequenceOf
<1>5. Range(texts) = TextsIn(pool)
  BY <1>2 DEF Range, TextsIn
<1>. QED  BY <1>2, <1>3, <1>4, <1>5

\* A text that is pooled is in the pool, and nothing else that was not.
LEMMA PooledHas ==
    ASSUME NEW pool, IsPool(pool), NEW text
    PROVE  /\ IsPool(Pooled(pool, text))
           /\ TextsIn(Pooled(pool, text)) = TextsIn(pool) \cup {text}
<1>. DEFINE entry == [text |-> text, off |-> 0]
            longer == Append(pool, entry)
<1>1. Len(pool) \in Nat /\ DOMAIN pool = 1..Len(pool) /\ Sequence(pool)
  BY SequenceProperties DEF IsPool
<1>2. CASE \E i \in DOMAIN pool : pool[i].text = text
  BY <1>1, <1>2 DEF Pooled, TextsIn
<1>3. CASE ~ \E i \in DOMAIN pool : pool[i].text = text
  <2>1. Pooled(pool, text) = longer
    BY <1>3 DEF Pooled
  <2>2. entry.text = text /\ DOMAIN entry = {"text", "off"}
    OBVIOUS
  <2>3. longer[Len(pool) + 1] = entry
    BY <1>1, AppendProperties DEF Sequence
  <2>. HIDE DEF entry
  <2>4. Sequence(longer) /\ Len(longer) = Len(pool) + 1 /\ \A i \in 1..Len(pool) : longer[i] = pool[i]
    BY <1>1, ElementAppended
  <2>. HIDE DEF longer
  <2>5. \A i \in 1..Len(longer) : i \in 1..Len(pool) \/ i = Len(pool) + 1
    BY <1>1, <2>4
  <2>6. IsPool(longer)
    BY <2>2, <2>3, <2>4, <2>5 DEF IsPool
  <2>7. TextsIn(longer) = TextsIn(pool) \cup {text}
    <3>1. \A i \in 1..Len(pool) : i \in 1..Len(longer)
      BY <1>1, <2>4
    <3>2. Len(pool) + 1 \in 1..Len(longer)
      BY <1>1, <2>4
    <3>. QED  BY <2>2, <2>3, <2>4, <2>5, <3>1, <3>2 DEF TextsIn
  <2>. QED  BY <2>1, <2>6, <2>7
<1>. QED  BY <1>2, <1>3

\* The texts of a pool stay texts with a length when another one is pooled.
LEMMA PooledMeasured ==
    ASSUME NEW pool, IsPool(pool), Measured(Texts(pool)), NEW text, text.len \in Nat
    PROVE  Measured(Texts(Pooled(pool, text)))
<1>. DEFINE new == Pooled(pool, text)
<1>1. IsPool(new) /\ TextsIn(new) = TextsIn(pool) \cup {text}
  BY PooledHas
<1>2. \A t \in TextsIn(pool) : t.len \in Nat
  BY TextsOf DEF Measured, TextsIn
<1>. HIDE DEF new
<1>3. Sequence(Texts(new)) /\ Len(Texts(new)) = Len(new) /\ \A i \in 1..Len(new) : Texts(new)[i] = new[i].text
  BY <1>1, TextsOf
<1>4. \A i \in 1..Len(new) : new[i].text \in TextsIn(pool) \cup {text}
  BY <1>1 DEF TextsIn
<1>. QED  BY <1>2, <1>3, <1>4 DEF Measured, new

\* The offsets a blob is written with are those of its texts.
LEMMA PlacedFits ==
    ASSUME NEW pool, IsPool(pool), Measured(Texts(pool))
    PROVE  /\ Texts(Placed(pool)) = Texts(pool)
           /\ Fits(Placed(pool), Texts(pool))
<1>. DEFINE n == Len(pool)
            blob == Texts(pool)
            new == Placed(pool)
<1>1. n \in Nat /\ DOMAIN pool = 1..n /\ Sequence(pool)
  BY SequenceProperties DEF IsPool
<1>2. new = [i \in 1..n |-> [pool[i] EXCEPT !.off = Ends(blob)[i - 1]]]
  BY <1>1 DEF Placed
<1>3. \A i \in 1..n : DOMAIN pool[i] = {"text", "off"}
  BY DEF IsPool
<1>4. \A i \in 1..n : /\ DOMAIN new[i] = {"text", "off"}
                      /\ new[i].text = pool[i].text
                      /\ new[i].off = Ends(blob)[i - 1]
  BY <1>2, <1>3
<1>5. Sequence(new) /\ Len(new) = n
  <2>1. DOMAIN new = 1..n
    BY <1>2
  <2>. DEFINE S == {new[i] : i \in 1..n}
  <2>2. new \in [1..n -> S]
    BY <1>2
  <2>. HIDE DEF new, S, n
  <2>3. new \in Seq(S) /\ Len(new) = n
    BY <1>1, <2>1, <2>2, SeqDef, LenProperties
  <2>. QED  BY <2>3, SequenceOf
<1>. HIDE DEF new
<1>6. IsPool(new)
  BY <1>4, <1>5 DEF IsPool
<1>7. Len(blob) = n /\ Range(blob) = TextsIn(pool) /\ \A i \in 1..n : blob[i] = pool[i].text
  BY TextsOf
<1>8. Texts(new) = blob
  <2>1. DOMAIN new = 1..n
    BY <1>5, SequenceProperties
  <2>2. Texts(new) = [i \in 1..n |-> pool[i].text]
    BY <1>4, <2>1 DEF Texts
  <2>3. blob = [i \in 1..n |-> pool[i].text]
    BY <1>1 DEF Texts
  <2>. QED  BY <2>2, <2>3
<1>9. TextsIn(new) = TextsIn(pool)
  BY <1>4, <1>5 DEF TextsIn
<1>10. \A i \in 1..n : Ends(blob)[i - 1] \in Nat /\ Ends(blob)[i - 1] + blob[i].len <= BlobLen(blob)
  BY <1>7, EndsGrow
<1>. HIDE DEF blob
<1>11. \A i \in 1..Len(new) : new[i].off \in Nat /\ new[i].off + new[i].text.len <= BlobLen(blob)
  BY <1>4, <1>5, <1>7, <1>10
<1>. QED  BY <1>6, <1>7, <1>8, <1>9, <1>11 DEF Fits, new, blob

\* A text pooled when the blob has been written is none of its texts.
LEMMA PooledFits ==
    ASSUME NEW pool, NEW blob, Fits(pool, blob), NEW text
    PROVE  Fits(Pooled(pool, text), blob)
<1>. DEFINE entry == [text |-> text, off |-> 0]
            longer == Append(pool, entry)
<1>1. Len(pool) \in Nat /\ DOMAIN pool = 1..Len(pool) /\ Sequence(pool) /\ IsPool(pool)
  BY SequenceProperties DEF IsPool, Fits
<1>2. CASE \E i \in DOMAIN pool : pool[i].text = text
  BY <1>2 DEF Pooled
<1>3. CASE ~ \E i \in DOMAIN pool : pool[i].text = text
  <2>1. Pooled(pool, text) = longer
    BY <1>3 DEF Pooled
  <2>2. text \notin Range(blob)
    BY <1>1, <1>3 DEF Fits, TextsIn
  <2>3. IsPool(longer) /\ TextsIn(longer) = TextsIn(pool) \cup {text}
    BY <1>1, <2>1, PooledHas
  <2>4. entry.text = text
    OBVIOUS
  <2>5. longer[Len(pool) + 1] = entry
    BY <1>1, AppendProperties DEF Sequence
  <2>. HIDE DEF entry
  <2>6. Len(longer) = Len(pool) + 1 /\ \A i \in 1..Len(pool) : longer[i] = pool[i]
    BY <1>1, ElementAppended
  <2>. HIDE DEF longer
  <2>7. ASSUME NEW i \in 1..Len(longer), longer[i].text \in Range(blob)
        PROVE  longer[i].off \in Nat /\ longer[i].off + longer[i].text.len <= BlobLen(blob)
    <3>1. i \in 1..Len(pool)
      BY <1>1, <2>2, <2>4, <2>5, <2>6, <2>7
    <3>. QED  BY <2>6, <2>7, <3>1 DEF Fits
  <2>. QED  BY <2>1, <2>3, <2>7 DEF Fits
<1>. QED  BY <1>2, <1>3

\* A text of the blob has an offset in the blob.
LEMMA OffFits ==
    ASSUME NEW pool, NEW blob, Fits(pool, blob), NEW text \in Range(blob)
    PROVE  OffOf(pool, text) + text.len <= BlobLen(blob)
<1>1. DOMAIN pool = 1..Len(pool)
  BY SequenceProperties DEF Fits, IsPool
<1>2. \E i \in DOMAIN pool : pool[i].text = text
  BY <1>1 DEF Fits, TextsIn
<1>3. PICK i \in DOMAIN pool : pool[i].text = text /\ OffOf(pool, text) = pool[i].off
  BY <1>2 DEF OffOf
<1>. QED  BY <1>1, <1>3 DEF Fits

-----------------------------------------------------------------------------
(* The initial states, and what most steps leave alone *)

LEMMA ImageInvInit == Init => ImageInv
<1>. SUFFICES ASSUME Init PROVE ImageInv
  OBVIOUS
<1>1. PICK p \in Programs : mem = Memory(p.th, p.pat) /\ held = p.held
  BY DEF Init
<1>2. /\ p.th \in Seq(ThunkRecords)
      /\ \A a \in DOMAIN p.th : WellFormed(p.th, p.th[a])
      /\ p.held \in Seq(Seq(DOMAIN p.th \cup {NULL}))
  BY ProgramsAssumption
<1>3. mem.th = p.th /\ DOMAIN mem = {"th", "pat"}
  BY <1>1 DEF Memory
<1>. DEFINE n == Len(mem.th)
<1>4. n \in Nat /\ DOMAIN mem.th = 1..n /\ DOMAIN mem.th \cup {NULL} = 0..n
  BY <1>2, <1>3 DEF NULL
<1>5. Sequence(mem.th) /\ Sequence(held)
  BY <1>1, <1>2, <1>3, SequenceOf
<1>6. ASSUME NEW a \in 1..n PROVE GoodThunk(n, mem.th[a])
  <2>. DEFINE t == mem.th[a]
  <2>1. t \in ThunkRecords /\ WellFormed(mem.th, t)
    BY <1>2, <1>3, <1>4
  <2>. HIDE DEF n, t
  <2>2. /\ DOMAIN t = ThunkFields /\ t.kind \in Kinds /\ t.text.len \in Nat /\ t.kids \in Seq(Nat)
        /\ Range(t.kids) \subseteq 0..n
    BY <1>4, <2>1 DEF ThunkRecords, ThunkFields, WellFormed
  <2>3. t.kids \in Seq(0..n)
    <3>1. t.kids \in [1..Len(t.kids) -> Nat] /\ Len(t.kids) \in Nat
      BY <2>2, LenProperties
    <3>2. \A i \in 1..Len(t.kids) : t.kids[i] \in 0..n
      BY <2>2, <3>1 DEF Range
    <3>3. t.kids \in [1..Len(t.kids) -> 0..n]
      BY <3>1, <3>2
    <3>. QED  BY <3>1, <3>3, SeqDef
  <2>. QED  BY <2>1, <2>2, <2>3 DEF GoodThunk, WellFormed, t
<1>7. \A i \in 1..Len(held) : held[i] \in Seq(0..n)
  <2>1. held \in Seq(Seq(DOMAIN mem.th \cup {NULL}))
    BY <1>1, <1>2, <1>3
  <2>2. held \in Seq(Seq(0..n))
    BY <1>4, <2>1
  <2>. HIDE DEF n
  <2>. QED  BY <2>2, ElementOfSeq
<1>8. MemInv
  BY <1>5, <1>6, <1>7 DEF MemInv
<1>9. Records
  BY <1>3 DEF Init, Records, NoWriter, NoLoader, EmptyFile, FileFields
<1>10. DiskInv
  BY DEF Init, DiskInv, EmptyFile, NoGraph
<1>. QED  BY <1>8, <1>9, <1>10 DEF ImageInv, Init

Fills(file) == disk' = [disk EXCEPT ![wr.file] = file]

\* A step that fills a file whose write is not complete, and of the locals of
\* lsti_write changes what is given.
LEMMA PartKeeps ==
    ASSUME ImageInv, NEW file,
           op \in {"collect", "blobs", "patterns", "thunks", "table"},
           Fills(file),
           UNCHANGED <<mem, held, ld, wrote>>,
           DOMAIN file = FileFields, "roots" \notin file.table, DOMAIN wr' = DOMAIN wr, wr'.file = wr.file
    PROVE  Records' /\ MemInv' /\ DiskInv' /\ Out' = file
<1>1. Records /\ MemInv /\ DiskInv /\ WriterInv
  BY DEF ImageInv
<1>2. wr.file \in Files /\ wrote[wr.file] = NoGraph /\ DOMAIN disk = Files
  BY <1>1 DEF WriterInv, Records
<1>3. /\ DOMAIN disk' = Files /\ disk'[wr.file] = file
      /\ \A f \in Files : f # wr.file => disk'[f] = disk[f]
  BY <1>2 DEF Fills
<1>4. MemInv'
  BY <1>1 DEF MemInv
<1>5. Records'
  BY <1>1, <1>3 DEF Records
<1>6. DiskInv'
  BY <1>1, <1>2, <1>3 DEF DiskInv
<1>7. Out' = file
  BY <1>3 DEF Out
<1>. QED  BY <1>4, <1>5, <1>6, <1>7

\* What has been collected is not collected again.
LEMMA WriterKeeps ==
    ASSUME WriterInv, UNCHANGED <<mem, wrote>>,
           wr'.file = wr.file, wr'.nodes = wr.nodes, wr'.roots = wr.roots, wr'.params = wr.params,
           wr'.qh = wr.qh, op' # "collect" => wr.qh = Len(wr.nodes)
    PROVE  WriterInv' /\ \A i \in 1..wr.qh : Turn(i)' = Turn(i)
BY DEF WriterInv, Turn, Turned

\* An operation that ends without a file leaves all as it is.
LEMMA IdleKeeps ==
    ASSUME ImageInv, op' \in {"idle", "fault"}, UNCHANGED <<mem, held, disk, ld, wrote>>, wr' \in {wr, NoWriter}
    PROVE  ImageInv'
<1>1. Records /\ MemInv /\ DiskInv
  BY DEF ImageInv
<1>2. MemInv'
  BY <1>1 DEF MemInv
<1>3. Records'
  BY <1>1 DEF Records, NoWriter
<1>4. DiskInv'
  BY <1>1 DEF DiskInv
<1>. QED  BY <1>2, <1>3, <1>4 DEF ImageInv

-----------------------------------------------------------------------------
(* Writing *)

LEMMA WriteKeeps ==
    ASSUME ImageInv, NEW f \in Files, NEW i \in DOMAIN held, Write(f, held[i])
    PROVE  ImageInv'
<1>. DEFINE roots == held[i]
            n == Len(mem.th)
            nodes == Numbered(<<>>, roots)
<1>1. Records /\ MemInv /\ DiskInv
  BY DEF ImageInv
<1>2. n \in Nat /\ roots \in Seq(0..n)
  <2>1. Sequence(mem.th) /\ Sequence(held)
    BY <1>1 DEF MemInv
  <2>2. i \in 1..Len(held)
    BY <2>1, SequenceProperties
  <2>. QED  BY <1>1, <2>1, <2>2, SequenceProperties DEF MemInv
<1>3. /\ op' = "collect" /\ UNCHANGED <<mem, held, ld>>
      /\ wr' = [NoWriter EXCEPT !.file = f, !.roots = roots, !.nodes = nodes]
      /\ disk' = [disk EXCEPT ![f] = EmptyFile]
      /\ wrote' = [wrote EXCEPT ![f] = NoGraph]
  BY DEF Write
<1>4. nodes \in Seq(1..n) /\ Range(roots) \subseteq Range(nodes) \cup {NULL}
  <2>1. roots \in Seq((1..n) \cup {NULL})
    <3>1. (1..n) \cup {NULL} = 0..n
      BY <1>2 DEF NULL
    <3>. QED  BY <1>2, <3>1
  <2>2. <<>> \in Seq(1..n)
    BY EmptySeq
  <2>. HIDE DEF roots, n
  <2>. QED  BY <2>1, <2>2, NumberedHas
<1>. HIDE DEF roots, nodes, n
<1>5. /\ wr'.file = f /\ wr'.roots = roots /\ wr'.nodes = nodes /\ wr'.qh = 0
      /\ wr'.params = <<>> /\ wr'.spool = <<>> /\ wr'.ypool = <<>>
      /\ DOMAIN wr' = {"file", "roots", "nodes", "qh", "next", "params", "spool", "ypool"}
  BY <1>3 DEF NoWriter
<1>6. DOMAIN EmptyFile = FileFields /\ EmptyFile.table = {}
  BY DEF EmptyFile, FileFields
<1>7. /\ DOMAIN disk' = Files /\ disk'[f] = EmptyFile /\ \A g \in Files : g # f => disk'[g] = disk[g]
      /\ DOMAIN wrote' = Files /\ wrote'[f] = NoGraph /\ \A g \in Files : g # f => wrote'[g] = wrote[g]
  BY <1>1, <1>3 DEF Records
<1>8. Records'
  BY <1>1, <1>3, <1>5, <1>6, <1>7 DEF Records
<1>9. MemInv'
  BY <1>1, <1>3 DEF MemInv
<1>10. DiskInv'
  BY <1>1, <1>6, <1>7 DEF DiskInv
<1>11. WriterInv'
  <2>1. Sequence(<<>>) /\ Len(nodes) \in Nat /\ Sequence(roots)
    BY <1>2, <1>4, EmptySeq, LenProperties, SequenceOf DEF Sequence
  <2>2. 0 \in 0..Len(nodes) /\ 1..0 = {}
    BY <2>1
  <2>3. Len(mem'.th) = n
    BY <1>3 DEF n
  <2>4. \A j \in 1..wr'.qh : FALSE
    BY <1>5, <2>2
  <2>. QED  BY <1>3, <1>4, <1>5, <1>7, <2>1, <2>2, <2>3, <2>4 DEF WriterInv
<1>12. Collecting'
  <2>1. Out' = EmptyFile
    BY <1>5, <1>7 DEF Out
  <2>2. \A j \in 1..wr'.qh : FALSE
    BY <1>5
  <2>. QED  BY <1>3, <1>5, <2>1, <2>2, EmptyPool DEF Collecting
<1>. QED  BY <1>3, <1>8, <1>9, <1>10, <1>11, <1>12 DEF ImageInv

\* A thunk whose turn has come is one of the memory.
LEMMA TurnIsThunk ==
    ASSUME Records, MemInv, WriterInv, NEW i \in 1..Len(wr.nodes)
    PROVE  GoodThunk(Len(mem.th), Turn(i)) /\ Len(mem.th) \in Nat
<1>1. wr.nodes[i] \in 1..Len(mem.th)
  BY ElementOfSeq DEF WriterInv
<1>. QED  BY <1>1, SequenceProperties DEF MemInv, Turn

LEMMA CollectKeeps ==
    ASSUME ImageInv, Collect
    PROVE  ImageInv'
<1>. DEFINE i == wr.qh + 1
            t == Turn(i)
            n == Len(mem.th)
            nodes == Numbered(wr.nodes, t.kids)
            params == IF t.kind = "lambda" THEN Known(wr.params, t.pat) ELSE wr.params
            spool == IF t.kind \in StringKinds THEN Pooled(wr.spool, t.text) ELSE wr.spool
            ypool == IF t.kind \in SymbolKinds THEN Pooled(wr.ypool, t.text) ELSE wr.ypool
<1>1. Records /\ MemInv /\ DiskInv /\ WriterInv /\ Collecting /\ op = "collect" /\ Out = EmptyFile
  BY DEF ImageInv, Collect, Collecting
<1>2. /\ op' = "collect" /\ UNCHANGED <<mem, held, disk, ld, wrote>>
      /\ wr' = [wr EXCEPT !.qh = i, !.nodes = nodes, !.params = params, !.spool = spool, !.ypool = ypool]
  BY <1>1 DEF Collect, Turn
<1>3. wr.nodes \in Seq(1..n) /\ wr.qh \in Nat /\ Len(wr.nodes) \in Nat /\ i \in 1..Len(wr.nodes)
  BY <1>1, LenProperties DEF WriterInv, Collect
<1>4. GoodThunk(n, t) /\ n \in Nat
  BY <1>1, <1>3, TurnIsThunk
<1>5. /\ nodes \in Seq(1..n) /\ Prolongs(nodes, wr.nodes)
      /\ Range(t.kids) \subseteq Range(nodes) \cup {NULL}
  <2>1. t.kids \in Seq((1..n) \cup {NULL})
    <3>1. (1..n) \cup {NULL} = 0..n
      BY <1>4 DEF NULL
    <3>. QED  BY <1>4, <3>1 DEF GoodThunk
  <2>. HIDE DEF t, n
  <2>. QED  BY <1>3, <2>1, NumberedHas
<1>6. /\ Sequence(params) /\ Range(wr.params) \subseteq Range(params)
      /\ t.kind = "lambda" => t.pat \in Range(params)
  <2>1. Sequence(wr.params)
    BY <1>1 DEF WriterInv
  <2>. HIDE DEF t
  <2>2. CASE t.kind = "lambda"
    <3>1. LET k == Known(wr.params, t.pat) IN Sequence(k) /\ Prolongs(k, wr.params) /\ t.pat \in Range(k)
      BY <2>1, KnownHas
    <3>. QED  BY <2>1, <2>2, <3>1, ProlongsRange
  <2>. QED  BY <2>1, <2>2
<1>7. /\ IsPool(spool) /\ Measured(Texts(spool)) /\ TextsIn(wr.spool) \subseteq TextsIn(spool)
      /\ t.kind \in StringKinds => t.text \in TextsIn(spool)
  <2>1. IsPool(wr.spool) /\ Measured(Texts(wr.spool)) /\ t.text.len \in Nat
    BY <1>1, <1>4 DEF Collecting, GoodThunk
  <2>. HIDE DEF t
  <2>2. CASE t.kind \in StringKinds
    BY <2>1, <2>2, PooledHas, PooledMeasured
  <2>. QED  BY <2>1, <2>2
<1>8. /\ IsPool(ypool) /\ Measured(Texts(ypool)) /\ TextsIn(wr.ypool) \subseteq TextsIn(ypool)
      /\ t.kind \in SymbolKinds => t.text \in TextsIn(ypool)
  <2>1. IsPool(wr.ypool) /\ Measured(Texts(wr.ypool)) /\ t.text.len \in Nat
    BY <1>1, <1>4 DEF Collecting, GoodThunk
  <2>. HIDE DEF t
  <2>2. CASE t.kind \in SymbolKinds
    BY <2>1, <2>2, PooledHas, PooledMeasured
  <2>. QED  BY <2>1, <2>2
<1>. HIDE DEF nodes, params, spool, ypool
<1>9. /\ wr'.file = wr.file /\ wr'.roots = wr.roots /\ wr'.nodes = nodes /\ wr'.qh = i
      /\ wr'.params = params /\ wr'.spool = spool /\ wr'.ypool = ypool
      /\ DOMAIN wr' = DOMAIN wr
  BY <1>1, <1>2 DEF Records
<1>10. Records'
  BY <1>1, <1>2, <1>9 DEF Records
<1>11. MemInv' /\ DiskInv'
  BY <1>1, <1>2 DEF MemInv, DiskInv
<1>12. /\ Sequence(wr.nodes) /\ Sequence(nodes)
       /\ Range(wr.nodes) \subseteq Range(nodes) /\ Len(nodes) \in Nat /\ Len(wr.nodes) <= Len(nodes)
       /\ \A j \in 1..Len(wr.nodes) : nodes[j] = wr.nodes[j]
  <2>1. Sequence(wr.nodes) /\ Sequence(nodes)
    BY <1>3, <1>5, SequenceOf
  <2>. QED  BY <1>5, <2>1, ProlongsRange, SequenceProperties DEF Prolongs
<1>13. ASSUME NEW j \in 1..i
       PROVE  /\ Turn(j)' = Turn(j)
              /\ Turned(Turn(j), nodes, params)
              /\ TextKept(Turn(j), TextsIn(spool), TextsIn(ypool))
  <2>1. j \in 1..Len(wr.nodes)
    BY <1>3
  <2>2. Turn(j)' = Turn(j)
    BY <1>2, <1>9, <1>12, <2>1 DEF Turn
  <2>3. CASE j = i
    BY <1>5, <1>6, <1>7, <1>8, <2>2, <2>3 DEF Turned, TextKept
  <2>4. CASE j # i
    <3>1. j \in 1..wr.qh
      BY <1>3, <2>4
    <3>2. Turned(Turn(j), wr.nodes, wr.params) /\ TextKept(Turn(j), TextsIn(wr.spool), TextsIn(wr.ypool))
      BY <1>1, <3>1 DEF WriterInv, Collecting
    <3>. QED  BY <1>6, <1>7, <1>8, <1>12, <2>2, <3>2 DEF Turned, TextKept
  <2>. QED  BY <2>3, <2>4
<1>. HIDE DEF i, t
<1>14. WriterInv'
  <2>1. /\ wr'.file \in Files /\ wrote'[wr'.file] = NoGraph
        /\ Sequence(wr'.roots) /\ Range(wr'.roots) \subseteq Range(wr'.nodes) \cup {NULL}
    BY <1>1, <1>2, <1>9, <1>12 DEF WriterInv
  <2>2. wr'.nodes \in Seq(1..Len(mem'.th)) /\ Sequence(wr'.params)
    BY <1>2, <1>5, <1>6, <1>9 DEF n
  <2>3. wr'.qh \in 0..Len(wr'.nodes)
    BY <1>3, <1>9, <1>12
  <2>4. \A j \in 1..wr'.qh : Turned(Turn(j)', wr'.nodes, wr'.params)
    BY <1>9, <1>13
  <2>. QED  BY <1>2, <2>1, <2>2, <2>3, <2>4 DEF WriterInv
<1>15. Collecting'
  <2>1. Out' = EmptyFile
    BY <1>1, <1>2, <1>9 DEF Out
  <2>2. \A j \in 1..wr'.qh : TextKept(Turn(j)', TextsIn(wr'.spool), TextsIn(wr'.ypool))
    BY <1>9, <1>13
  <2>. QED  BY <1>2, <1>7, <1>8, <1>9, <2>1, <2>2 DEF Collecting
<1>. QED  BY <1>2, <1>10, <1>11, <1>14, <1>15 DEF ImageInv

LEMMA HeaderKeeps ==
    ASSUME ImageInv, WriteHeader
    PROVE  ImageInv'
<1>. DEFINE file == [Out EXCEPT !.head = TRUE]
<1>1. Records /\ MemInv /\ DiskInv /\ WriterInv /\ Collecting /\ op = "collect" /\ Out = EmptyFile
  BY DEF ImageInv, WriteHeader, Part, Collecting
<1>2. /\ op' = "blobs" /\ UNCHANGED <<mem, held, ld, wrote>> /\ wr' = wr /\ wr.qh = Len(wr.nodes)
      /\ Fills(file)
  BY DEF Fills, WriteHeader, Part
<1>3. DOMAIN file = FileFields /\ file.table = {}
  BY <1>1 DEF EmptyFile, FileFields
<1>. HIDE DEF file
<1>4. Records' /\ MemInv' /\ DiskInv' /\ Out' = file
  BY <1>1, <1>2, <1>3, PartKeeps
<1>5. WriterInv' /\ \A i \in 1..wr.qh : Turn(i)' = Turn(i)
  BY <1>1, <1>2, WriterKeeps
<1>6. Collecting'
  BY <1>1, <1>2, <1>4, <1>5 DEF Collecting, file
<1>. QED  BY <1>2, <1>4, <1>5, <1>6 DEF ImageInv

LEMMA BlobsKeep ==
    ASSUME ImageInv, WriteBlobs
    PROVE  ImageInv'
<1>. DEFINE s == Placed(wr.spool)
            y == Placed(wr.ypool)
            file == [Out EXCEPT !.strings = Texts(s), !.symbols = Texts(y)]
            locals == [wr EXCEPT !.spool = s, !.ypool = y, !.next = 1]
<1>1. /\ Records /\ MemInv /\ DiskInv /\ WriterInv /\ Collecting /\ op = "blobs"
      /\ Out = [EmptyFile EXCEPT !.head = TRUE]
  BY DEF ImageInv, WriteBlobs, Part, Collecting
<1>2. /\ op' = "patterns" /\ UNCHANGED <<mem, held, ld, wrote>> /\ wr' = locals
      /\ Fills(file)
  BY DEF Fills, WriteBlobs, Part
<1>3. /\ IsPool(wr.spool) /\ Measured(Texts(wr.spool))
      /\ IsPool(wr.ypool) /\ Measured(Texts(wr.ypool))
  BY <1>1 DEF Collecting
<1>4. /\ Texts(s) = Texts(wr.spool) /\ Fits(s, Texts(wr.spool)) /\ Range(Texts(wr.spool)) = TextsIn(wr.spool)
      /\ Texts(y) = Texts(wr.ypool) /\ Fits(y, Texts(wr.ypool)) /\ Range(Texts(wr.ypool)) = TextsIn(wr.ypool)
  BY <1>3, PlacedFits, TextsOf
<1>. HIDE DEF s, y
<1>5. /\ DOMAIN file = FileFields /\ file.table = {} /\ file.head
      /\ file.strings = Texts(wr.spool) /\ file.symbols = Texts(wr.ypool)
      /\ file.patterns = <<>> /\ file.thunks = <<>>
  BY <1>1, <1>4 DEF EmptyFile, FileFields
<1>6. /\ DOMAIN locals = DOMAIN wr /\ locals.next = 1 /\ locals.spool = s /\ locals.ypool = y
      /\ locals.file = wr.file /\ locals.nodes = wr.nodes /\ locals.roots = wr.roots
      /\ locals.params = wr.params /\ locals.qh = wr.qh
  BY <1>1 DEF Records
<1>. HIDE DEF file, locals
<1>7. Records' /\ MemInv' /\ DiskInv' /\ Out' = file
  BY <1>1, <1>2, <1>5, <1>6, PartKeeps
<1>8. WriterInv' /\ \A i \in 1..wr.qh : Turn(i)' = Turn(i)
  <2>1. wr.qh = Len(wr.nodes)
    BY <1>1 DEF WriterInv
  <2>. QED  BY <1>1, <1>2, <1>6, <2>1, WriterKeeps
<1>9. Filling'
  <2>1. Sequence(<<>>) /\ Len(<<>>) = 0
    BY EmptySeq DEF Sequence
  <2>2. Out'.head /\ GoodTexts(Out')
    BY <1>3, <1>5, <1>7 DEF GoodTexts
  <2>3. Fits(wr'.spool, Out'.strings) /\ Fits(wr'.ypool, Out'.symbols)
    BY <1>2, <1>4, <1>5, <1>6, <1>7
  <2>4. \A i \in 1..wr'.qh : TextKept(Turn(i)', Range(Out'.strings), Range(Out'.symbols))
    BY <1>1, <1>2, <1>4, <1>5, <1>6, <1>7, <1>8 DEF Collecting
  <2>5. Sequence(Out'.patterns) /\ GoodEntries(Out', Len(wr'.nodes)) /\ Out'.thunks = <<>>
    BY <1>5, <1>7, <2>1 DEF GoodEntries
  <2>6. wr'.next = 1 /\ Len(Out'.patterns) = 0 /\ wr'.next <= Len(wr'.params) + 1
    <3>1. Len(wr.params) \in Nat
      BY <1>1, SequenceProperties DEF WriterInv
    <3>. QED  BY <1>2, <1>5, <1>6, <1>7, <2>1, <3>1
  <2>. QED  BY <1>2, <2>2, <2>3, <2>4, <2>5, <2>6 DEF Filling
<1>. QED  BY <1>2, <1>7, <1>8, <1>9 DEF ImageInv

LEMMA PatternKeeps ==
    ASSUME ImageInv, WritePattern
    PROVE  ImageInv'
<1>. DEFINE p == mem.pat[wr.params[wr.next]]
            pools == PatternPools(p)
            file == [Out EXCEPT !.patterns = Append(@, PatternEntry(p, pools))]
<1>1. CASE WriteFails
  BY <1>1, IdleKeeps DEF WriteFails
<1>2. CASE ~ WriteFails
  <2>1. Records /\ MemInv /\ DiskInv /\ WriterInv /\ Filling /\ op = "patterns" /\ wr.next <= Len(wr.params)
    BY DEF ImageInv, WritePattern
  <2>2. /\ op' = "patterns" /\ UNCHANGED <<mem, held, ld, wrote>> /\ wr' = pools
        /\ Fills(file)
    BY <1>2 DEF Fills, WritePattern, Part
  <2>3. DOMAIN Out = FileFields /\ wr.file \in Files /\ wrote[wr.file] = NoGraph
    BY <2>1 DEF Records, WriterInv, Out
  <2>4. /\ DOMAIN file = FileFields /\ file.table = Out.table /\ file.head = Out.head
        /\ file.strings = Out.strings /\ file.symbols = Out.symbols /\ file.thunks = Out.thunks
        /\ \E e : file.patterns = Append(Out.patterns, e)
    BY <2>3 DEF FileFields
  <2>5. /\ DOMAIN pools = DOMAIN wr /\ pools.next = wr.next + 1
        /\ pools.file = wr.file /\ pools.nodes = wr.nodes /\ pools.roots = wr.roots
        /\ pools.params = wr.params /\ pools.qh = wr.qh
        /\ pools.spool = wr.spool \/ \E t : pools.spool = Pooled(wr.spool, t)
        /\ pools.ypool = wr.ypool \/ \E t : pools.ypool = Pooled(wr.ypool, t)
    BY <2>1 DEF Records, PatternPools
  <2>. HIDE DEF file, pools
  <2>6. "roots" \notin file.table
    BY <2>1, <2>3, <2>4 DEF DiskInv, Out
  <2>7. Records' /\ MemInv' /\ DiskInv' /\ Out' = file
    BY <2>1, <2>2, <2>4, <2>5, <2>6, PartKeeps
  <2>8. WriterInv' /\ \A i \in 1..wr.qh : Turn(i)' = Turn(i)
    <3>1. wr.qh = Len(wr.nodes)
      BY <2>1 DEF WriterInv
    <3>. QED  BY <2>1, <2>2, <2>5, <3>1, WriterKeeps
  <2>9. Filling'
    <3>1. Out'.head /\ GoodTexts(Out')
      BY <2>1, <2>4, <2>7 DEF GoodTexts, Filling
    <3>2. Fits(wr'.spool, Out'.strings) /\ Fits(wr'.ypool, Out'.symbols)
      <4>1. Fits(wr.spool, Out.strings) /\ Fits(wr.ypool, Out.symbols)
        BY <2>1 DEF Filling
      <4>2. \A t : Fits(Pooled(wr.spool, t), Out.strings) /\ Fits(Pooled(wr.ypool, t), Out.symbols)
        BY <4>1, PooledFits
      <4>. QED  BY <2>2, <2>4, <2>5, <2>7, <4>1, <4>2
    <3>3. \A i \in 1..wr'.qh : TextKept(Turn(i)', Range(Out'.strings), Range(Out'.symbols))
      BY <2>1, <2>2, <2>4, <2>5, <2>7, <2>8 DEF Filling
    <3>4. Sequence(Out'.patterns) /\ Len(Out'.patterns) = Len(Out.patterns) + 1
      <4>1. PICK e : file.patterns = Append(Out.patterns, e)
        BY <2>4
      <4>2. Sequence(Out.patterns)
        BY <2>1 DEF Filling
      <4>3. Sequence(Append(Out.patterns, e)) /\ Len(Append(Out.patterns, e)) = Len(Out.patterns) + 1
        BY <4>2, ElementAppended
      <4>. QED  BY <2>7, <4>1, <4>3
    <3>5. GoodEntries(Out', Len(wr'.nodes)) /\ Out'.thunks = <<>>
      <4>1. Sequence(<<>>) /\ Len(<<>>) = 0
        BY EmptySeq DEF Sequence
      <4>. QED  BY <2>1, <2>4, <2>7, <4>1 DEF GoodEntries, Filling
    <3>6. /\ wr'.next \in Nat \ {0} /\ wr'.next = Len(Out'.patterns) + 1
          /\ wr'.next <= Len(wr'.params) + 1
      <4>1. Len(wr.params) \in Nat /\ wr.next \in Nat /\ wr.next = Len(Out.patterns) + 1
        BY <2>1, SequenceProperties DEF WriterInv, Filling
      <4>. QED  BY <2>1, <2>2, <2>5, <3>4, <4>1
    <3>. QED  BY <2>2, <3>1, <3>2, <3>3, <3>4, <3>5, <3>6 DEF Filling
  <2>. QED  BY <2>2, <2>7, <2>8, <2>9 DEF ImageInv
<1>. QED  BY <1>1, <1>2

LEMMA PatternsEndKeeps ==
    ASSUME ImageInv, PatternsEnd
    PROVE  ImageInv'
<1>. DEFINE locals == [wr EXCEPT !.next = 1]
<1>1. Records /\ MemInv /\ DiskInv /\ WriterInv /\ Filling /\ op = "patterns" /\ wr.next > Len(wr.params)
  BY DEF ImageInv, PatternsEnd, Part
<1>2. /\ op' = "thunks" /\ UNCHANGED <<mem, held, ld, wrote>> /\ wr' = locals
      /\ Fills(Out)
  BY DEF Fills, PatternsEnd, Part
<1>3. DOMAIN Out = FileFields /\ wr.file \in Files /\ wrote[wr.file] = NoGraph
  BY <1>1 DEF Records, WriterInv, Out
<1>4. /\ DOMAIN locals = DOMAIN wr /\ locals.next = 1 /\ locals.spool = wr.spool /\ locals.ypool = wr.ypool
      /\ locals.file = wr.file /\ locals.nodes = wr.nodes /\ locals.roots = wr.roots
      /\ locals.params = wr.params /\ locals.qh = wr.qh
  BY <1>1 DEF Records
<1>. HIDE DEF locals
<1>5. "roots" \notin Out.table
  BY <1>1, <1>3 DEF DiskInv, Out
<1>6. Records' /\ MemInv' /\ DiskInv' /\ Out' = Out
  BY <1>1, <1>2, <1>3, <1>4, <1>5, PartKeeps
<1>7. WriterInv' /\ \A i \in 1..wr.qh : Turn(i)' = Turn(i)
  <2>1. wr.qh = Len(wr.nodes)
    BY <1>1 DEF WriterInv
  <2>. QED  BY <1>1, <1>2, <1>4, <2>1, WriterKeeps
<1>8. Filling'
  <2>1. Len(wr.params) \in Nat /\ Len(wr.nodes) \in Nat
    BY <1>1, SequenceProperties, LenProperties DEF WriterInv
  <2>2. Len(Out.patterns) = Len(wr.params) /\ Out.thunks = <<>>
    <3>1. Len(Out.patterns) \in Nat
      BY <1>1, SequenceProperties DEF Filling
    <3>. QED  BY <1>1, <2>1, <3>1 DEF Filling
  <2>3. Len(<<>>) = 0
    BY EmptySeq
  <2>4. \A i \in 1..wr'.qh : TextKept(Turn(i)', Range(Out'.strings), Range(Out'.symbols))
    BY <1>1, <1>2, <1>4, <1>6, <1>7 DEF Filling
  <2>. QED  BY <1>1, <1>2, <1>4, <1>6, <2>1, <2>2, <2>3, <2>4 DEF Filling
<1>. QED  BY <1>2, <1>6, <1>7, <1>8 DEF ImageInv

\* An entry is good whatever else is in the file but blobs and patterns.
LEMMA EntriesStay ==
    ASSUME NEW f, NEW g, NEW n, NEW e, GoodEntry(f, n, e),
           g.strings = f.strings, g.symbols = f.symbols, g.patterns = f.patterns
    PROVE  GoodEntry(g, n, e)
BY DEF GoodEntry

\* The entry that is written of a thunk.
LEMMA EntryGood ==
    ASSUME ImageInv, op = "thunks", NEW i \in 1..Len(wr.nodes), NULL \notin Range(Turn(i).kids)
    PROVE  GoodEntry(Out, Len(wr.nodes), ThunkEntry(Turn(i)))
<1>. DEFINE t == Turn(i)
            e == ThunkEntry(t)
            n == Len(wr.nodes)
<1>1. Records /\ MemInv /\ WriterInv /\ Filling
  BY DEF ImageInv
<1>2. GoodThunk(Len(mem.th), t)
  BY <1>1, TurnIsThunk
<1>3. /\ Turned(t, wr.nodes, wr.params) /\ TextKept(t, Range(Out.strings), Range(Out.symbols))
      /\ Sequence(wr.params) /\ Len(Out.patterns) = Len(wr.params)
      /\ Fits(wr.spool, Out.strings) /\ Fits(wr.ypool, Out.symbols)
  BY <1>1 DEF WriterInv, Filling
<1>4. Sequence(wr.nodes)
  BY <1>1, SequenceOf DEF WriterInv
<1>5. NULL \notin Range(t.kids)
  OBVIOUS
<1>. HIDE DEF t
<1>6. /\ e.kind = SavedKind(t.kind) /\ e.num = t.num /\ e.len = t.text.len
      /\ e.kids = IdsOf(wr.nodes, t.kids)
      /\ t.kind = "lambda" => e.pat = IdOf(wr.params, t.pat)
      /\ t.kind \in StringKinds => e.off = OffOf(wr.spool, t.text)
      /\ t.kind \in SymbolKinds => e.off = OffOf(wr.ypool, t.text)
  BY DEF ThunkEntry, StringKinds, SymbolKinds
<1>7. /\ e.kind \in Kinds
      /\ e.kind \in StringKinds => t.kind \in StringKinds
      /\ e.kind \in SymbolKinds => t.kind \in SymbolKinds
      /\ e.kind \in {"appl", "choice", "lambda"} => t.kind = e.kind
  BY <1>2, <1>6 DEF GoodThunk, Kinds, SavedKind, StringKinds, SymbolKinds
<1>. HIDE DEF e
<1>8. e.kids \in Seq(1..n) /\ (t.kids # <<>> => e.kids # <<>>)
  <2>1. Sequence(t.kids) /\ Range(t.kids) \subseteq Range(wr.nodes)
    BY <1>2, <1>3, <1>5, SequenceOf DEF GoodThunk, Turned
  <2>2. IdsOf(wr.nodes, t.kids) \in Seq(1..n) /\ Len(IdsOf(wr.nodes, t.kids)) = Len(t.kids)
    BY <1>4, <2>1, IdsOfKnown
  <2>3. t.kids # <<>> => Len(t.kids) # 0
    BY <1>2, EmptySeq DEF GoodThunk
  <2>. QED  BY <1>6, <2>2, <2>3, EmptySeq
<1>9. ASSUME e.kind \in StringKinds
      PROVE  Out.strings # <<>> /\ e.off + e.len <= BlobLen(Out.strings)
  <2>1. t.text \in Range(Out.strings)
    BY <1>3, <1>7, <1>9 DEF TextKept
  <2>2. OffOf(wr.spool, t.text) + t.text.len <= BlobLen(Out.strings)
    BY <1>3, <2>1, OffFits
  <2>3. Out.strings # <<>>
    BY <2>1 DEF Range
  <2>. QED  BY <1>6, <1>7, <1>9, <2>2, <2>3
<1>10. ASSUME e.kind \in SymbolKinds
       PROVE  Out.symbols # <<>> /\ e.off + e.len <= BlobLen(Out.symbols)
  <2>1. t.text \in Range(Out.symbols)
    BY <1>3, <1>7, <1>10 DEF TextKept
  <2>2. OffOf(wr.ypool, t.text) + t.text.len <= BlobLen(Out.symbols)
    BY <1>3, <2>1, OffFits
  <2>3. Out.symbols # <<>>
    BY <2>1 DEF Range
  <2>. QED  BY <1>6, <1>7, <1>10, <2>2, <2>3
<1>11. ASSUME e.kind = "lambda" PROVE e.pat \in 1..Len(Out.patterns)
  <2>1. t.pat \in Range(wr.params)
    BY <1>3, <1>7, <1>11 DEF Turned
  <2>2. IdOf(wr.params, t.pat) \in 1..Len(wr.params)
    BY <1>3, <2>1, IdOfKnown
  <2>. QED  BY <1>3, <1>6, <1>7, <1>11, <2>2
<1>12. e.len \in Nat /\ (e.kind = "appl" => e.kids # <<>>) /\ (e.kind = "choice" => e.num \in 1..3)
  BY <1>2, <1>6, <1>7, <1>8 DEF GoodThunk
<1>13. GoodEntry(Out, n, e)
  BY <1>7, <1>8, <1>9, <1>10, <1>11, <1>12 DEF GoodEntry
<1>. QED  BY <1>13 DEF e, t

\* A step that fills the file and leaves blobs, patterns and pools.
LEMMA FillingStays ==
    ASSUME ImageInv, op \in {"thunks", "table"}, NEW file,
           Fills(file), UNCHANGED <<mem, held, ld, wrote>>,
           DOMAIN file = FileFields, "roots" \notin file.table, file.head,
           file.strings = Out.strings, file.symbols = Out.symbols, file.patterns = Out.patterns,
           wr' = [wr EXCEPT !.next = wr.next + 1] \/ wr' = [wr EXCEPT !.next = 1],
           op' \in {"thunks", "table"}, GoodEntries(file, Len(wr.nodes))
    PROVE  /\ Records' /\ MemInv' /\ DiskInv' /\ WriterInv' /\ Out' = file
           /\ (op' = "thunks" => wr'.next = Len(Out'.thunks) + 1 /\ wr'.next <= Len(wr.nodes) + 1)
              /\ (op' = "table" =>
                    /\ Len(Out'.thunks) = Len(wr.nodes)
                    /\ Out'.roots \in Seq(1..Len(wr.nodes))
                    /\ wr'.next <= Len(Sections')
                    /\ \A i \in 1..(wr'.next - 1) : Sections'[i] \in Out'.table)
              => Filling'
<1>1. Records /\ MemInv /\ DiskInv /\ WriterInv /\ Filling
  BY DEF ImageInv
<1>2. wr.next \in Nat /\ DOMAIN wr = {"file", "roots", "nodes", "qh", "next", "params", "spool", "ypool"}
  BY <1>1 DEF Filling, Records
<1>3. /\ DOMAIN wr' = DOMAIN wr /\ wr'.next \in {wr.next + 1, 1}
      /\ wr'.spool = wr.spool /\ wr'.ypool = wr.ypool
      /\ wr'.file = wr.file /\ wr'.nodes = wr.nodes /\ wr'.roots = wr.roots
      /\ wr'.params = wr.params /\ wr'.qh = wr.qh
  BY <1>2
<1>4. Records' /\ MemInv' /\ DiskInv' /\ Out' = file
  BY <1>3, PartKeeps
<1>5. WriterInv' /\ \A i \in 1..wr.qh : Turn(i)' = Turn(i)
  <2>1. wr.qh = Len(wr.nodes)
    BY <1>1 DEF WriterInv
  <2>. QED  BY <1>1, <1>3, <2>1, WriterKeeps
<1>6. wr'.next \in Nat \ {0}
  BY <1>2, <1>3
<1>7. \A i \in 1..wr'.qh : TextKept(Turn(i)', Range(Out'.strings), Range(Out'.symbols))
  BY <1>1, <1>3, <1>4, <1>5 DEF Filling
<1>8. GoodTexts(Out')
  BY <1>1, <1>4 DEF Filling, GoodTexts
<1>9. Fits(wr'.spool, Out'.strings) /\ Fits(wr'.ypool, Out'.symbols) /\ Sequence(Out'.patterns)
  BY <1>1, <1>3, <1>4 DEF Filling
<1>10. Len(Out'.patterns) = Len(wr'.params)
  BY <1>1, <1>3, <1>4 DEF Filling
<1>11. op' # "patterns" /\ GoodEntries(Out', Len(wr'.nodes)) /\ Out'.head
  BY <1>3, <1>4
<1>. QED  BY <1>3, <1>4, <1>5, <1>6, <1>7, <1>8, <1>9, <1>10, <1>11 DEF Filling

LEMMA ThunkKeeps ==
    ASSUME ImageInv, WriteThunk
    PROVE  ImageInv'
<1>. DEFINE t == Turn(wr.next)
            e == ThunkEntry(t)
            file == [Out EXCEPT !.thunks = Append(@, e)]
<1>1. CASE WriteFails
  BY <1>1, IdleKeeps DEF WriteFails
<1>2. CASE ~ WriteFails
  <2>1. Records /\ MemInv /\ DiskInv /\ WriterInv /\ Filling /\ op = "thunks" /\ wr.next <= Len(wr.nodes)
    BY DEF ImageInv, WriteThunk
  <2>2. /\ op' = "thunks" /\ UNCHANGED <<mem, held, ld, wrote>> /\ wr' = [wr EXCEPT !.next = wr.next + 1]
        /\ Fills(file) /\ NULL \notin Range(t.kids)
    BY <1>2, <2>1 DEF WriteThunk, Part, Fills, Turn
  <2>3. wr.next \in 1..Len(wr.nodes) /\ Len(wr.nodes) \in Nat
    BY <2>1, LenProperties DEF WriterInv, Filling
  <2>4. GoodEntry(Out, Len(wr.nodes), e)
    BY <2>1, <2>2, <2>3, EntryGood
  <2>5. DOMAIN Out = FileFields /\ "roots" \notin Out.table /\ Out.head
    BY <2>1 DEF Records, WriterInv, Out, DiskInv, Filling
  <2>. HIDE DEF e
  <2>6. /\ DOMAIN file = FileFields /\ file.table = Out.table /\ file.head
        /\ file.strings = Out.strings /\ file.symbols = Out.symbols /\ file.patterns = Out.patterns
        /\ file.thunks = Append(Out.thunks, e)
    BY <2>5 DEF FileFields
  <2>. HIDE DEF file
  <2>7. /\ GoodEntries(file, Len(wr.nodes))
        /\ Len(file.thunks) = Len(Out.thunks) + 1 /\ Len(Out.thunks) \in Nat
    <3>. DEFINE old == Out.thunks
    <3>1. Sequence(old) /\ \A i \in 1..Len(old) : GoodEntry(Out, Len(wr.nodes), old[i])
      BY <2>1 DEF Filling, GoodEntries
    <3>. HIDE DEF old
    <3>2. Len(old) \in Nat
      BY <3>1, SequenceProperties
    <3>3. Sequence(Append(old, e)) /\ Len(Append(old, e)) = Len(old) + 1
          /\ \A i \in 1..Len(old) : Append(old, e)[i] = old[i]
      BY <3>1, ElementAppended
    <3>4. Append(old, e)[Len(old) + 1] = e
      BY <3>1, <3>2, AppendProperties DEF Sequence
    <3>5. file.thunks = Append(old, e)
      BY <2>6 DEF old
    <3>6. ASSUME NEW i \in 1..Len(file.thunks) PROVE GoodEntry(file, Len(wr.nodes), file.thunks[i])
      <4>1. i \in 1..Len(old) \/ i = Len(old) + 1
        BY <3>2, <3>3, <3>5
      <4>2. GoodEntry(Out, Len(wr.nodes), file.thunks[i])
        BY <2>4, <3>1, <3>3, <3>4, <3>5, <4>1
      <4>. QED  BY <2>6, <4>2, EntriesStay
    <3>. QED  BY <3>2, <3>3, <3>5, <3>6 DEF GoodEntries, old
  <2>8. wr'.next = wr.next + 1 /\ wr.next = Len(Out.thunks) + 1
    BY <2>1, <2>2 DEF Records, Filling
  <2>9. /\ Records' /\ MemInv' /\ DiskInv' /\ WriterInv' /\ Out' = file
        /\ wr'.next = Len(Out'.thunks) + 1 /\ wr'.next <= Len(wr.nodes) + 1 => Filling'
    BY <2>1, <2>2, <2>5, <2>6, <2>7, FillingStays
  <2>10. wr'.next = Len(Out'.thunks) + 1 /\ wr'.next <= Len(wr.nodes) + 1
    BY <2>3, <2>7, <2>8, <2>9
  <2>. QED  BY <2>2, <2>9, <2>10 DEF ImageInv
<1>. QED  BY <1>1, <1>2

\* The sections an image has: the two it always has, the last of them ROOTS,
\* and each of the others when there is something in it.
SectionNames == {"strings", "symbols", "patterns", "thunks", "roots"}

LEMMA SectionIs ==
    ASSUME NEW M, NEW name \in M, NEW content
    PROVE  /\ Section(name, content) \in Seq(M)
           /\ content # <<>> => name \in Range(Section(name, content))
<1>1. <<>> \in Seq(M)
  BY EmptySeq
<1>2. <<name>> \in Seq(M) /\ name \in Range(<<name>>)
  BY DEF Range
<1>. QED  BY <1>1, <1>2 DEF Section

LEMMA SectionsAre ==
    /\ Sections \in Seq(SectionNames) /\ Len(Sections) \in Nat /\ Len(Sections) >= 2
    /\ Sections[Len(Sections)] = "roots"
    /\ \A i \in 1..Len(Sections) : i # Len(Sections) => Sections[i] # "roots"
    /\ {"thunks", "roots"} \subseteq Range(Sections)
    /\ Out.strings # <<>> => "strings" \in Range(Sections)
    /\ Out.symbols # <<>> => "symbols" \in Range(Sections)
    /\ wr.params # <<>> => "patterns" \in Range(Sections)
<1>. DEFINE a == Section("strings", Out.strings)
            b == Section("symbols", Out.symbols)
            c == Section("patterns", wr.params)
            r == <<"thunks", "roots">>
            M == {"strings", "symbols", "patterns"}
<1>1. Sections = a \o b \o c \o r
  BY DEF Sections
<1>2. /\ a \in Seq(M) /\ b \in Seq(M) /\ c \in Seq(M)
      /\ Out.strings # <<>> => "strings" \in Range(a)
      /\ Out.symbols # <<>> => "symbols" \in Range(b)
      /\ wr.params # <<>> => "patterns" \in Range(c)
  <2>1. "strings" \in M /\ "symbols" \in M /\ "patterns" \in M
    OBVIOUS
  <2>. HIDE DEF M
  <2>. QED  BY <2>1, SectionIs
<1>3. r \in Seq(SectionNames) /\ Len(r) = 2 /\ r[1] = "thunks" /\ r[2] = "roots" /\ Range(r) = {"thunks", "roots"}
  BY DEF SectionNames, Range
<1>4. M \subseteq SectionNames /\ "roots" \notin M
  BY DEF SectionNames
<1>. HIDE DEF a, b, c, r, M
<1>. DEFINE ab == a \o b
            p == ab \o c
<1>5. ab \in Seq(M) /\ Range(ab) = Range(a) \cup Range(b)
  BY <1>2, ConcatProperties, RangeConcatenation
<1>. HIDE DEF ab
<1>6. p \in Seq(M) /\ Range(p) = Range(ab) \cup Range(c)
  BY <1>2, <1>5, ConcatProperties, RangeConcatenation
<1>7. Sections = p \o r
  BY <1>1 DEF ab
<1>. HIDE DEF p
<1>8. p \in Seq(SectionNames)
  BY <1>4, <1>6, SeqMonotonic
<1>9. /\ Sections \in Seq(SectionNames) /\ Len(Sections) = Len(p) + Len(r)
      /\ Range(Sections) = Range(p) \cup Range(r)
  <2>1. p \o r \in Seq(SectionNames) /\ Len(p \o r) = Len(p) + Len(r)
    BY <1>3, <1>8, ConcatProperties
  <2>2. Range(p \o r) = Range(p) \cup Range(r)
    BY <1>3, <1>8, RangeConcatenation
  <2>. QED  BY <1>7, <2>1, <2>2
<1>10. \A i \in 1..Len(p) + Len(r) : Sections[i] = IF i <= Len(p) THEN p[i] ELSE r[i - Len(p)]
  BY <1>3, <1>7, <1>8, ConcatProperties
<1>11. Len(p) \in Nat /\ \A i \in 1..Len(p) : p[i] \in M
  BY <1>6, LenProperties, ElementOfSeq
<1>12. Sections[Len(p) + 2] = "roots"
  <2>1. Len(p) + 2 \in 1..Len(p) + Len(r) /\ ~ (Len(p) + 2 <= Len(p)) /\ (Len(p) + 2) - Len(p) = 2
    BY <1>3, <1>11
  <2>. QED  BY <1>3, <1>10, <2>1
<1>13. ASSUME NEW i \in 1..Len(Sections), i # Len(Sections) PROVE Sections[i] # "roots"
  <2>1. Sections[i] = IF i <= Len(p) THEN p[i] ELSE r[i - Len(p)]
    BY <1>9, <1>10
  <2>2. CASE i <= Len(p)
    <3>1. i \in 1..Len(p)
      BY <1>11, <2>2
    <3>. QED  BY <1>4, <1>11, <2>1, <2>2, <3>1
  <2>3. CASE ~ (i <= Len(p))
    <3>1. i - Len(p) = 1
      BY <1>3, <1>9, <1>11, <1>13, <2>3
    <3>. QED  BY <1>3, <2>1, <2>3, <3>1
  <2>. QED  BY <2>2, <2>3
<1>. QED  BY <1>2, <1>3, <1>5, <1>6, <1>9, <1>11, <1>12, <1>13

LEMMA RootsKeep ==
    ASSUME ImageInv, WriteRoots
    PROVE  ImageInv'
<1>. DEFINE roots == IdsOf(wr.nodes, wr.roots)
            file == [Out EXCEPT !.roots = roots]
            n == Len(wr.nodes)
<1>1. CASE WriteFails
  BY <1>1, IdleKeeps DEF WriteFails
<1>2. CASE ~ WriteFails
  <2>1. Records /\ MemInv /\ DiskInv /\ WriterInv /\ Filling /\ op = "thunks" /\ wr.next > n
    BY DEF ImageInv, WriteRoots
  <2>2. /\ op' = "table" /\ UNCHANGED <<mem, held, ld, wrote>> /\ wr' = [wr EXCEPT !.next = 1]
        /\ Fills(file) /\ NULL \notin Range(wr.roots)
    BY <1>2, <2>1 DEF WriteRoots, Part, Fills
  <2>3. roots \in Seq(1..n)
    <3>1. Sequence(wr.nodes) /\ Sequence(wr.roots) /\ Range(wr.roots) \subseteq Range(wr.nodes)
      BY <2>1, <2>2, SequenceOf DEF WriterInv
    <3>. QED  BY <3>1, IdsOfKnown
  <2>4. DOMAIN Out = FileFields /\ "roots" \notin Out.table /\ Out.head
    BY <2>1 DEF Records, WriterInv, Out, DiskInv, Filling
  <2>. HIDE DEF roots
  <2>5. /\ DOMAIN file = FileFields /\ file.table = Out.table /\ file.head
        /\ file.strings = Out.strings /\ file.symbols = Out.symbols /\ file.patterns = Out.patterns
        /\ file.thunks = Out.thunks /\ file.roots = roots
    BY <2>4 DEF FileFields
  <2>. HIDE DEF file
  <2>6. GoodEntries(file, n)
    BY <2>1, <2>5, EntriesStay DEF Filling, GoodEntries
  <2>7. Len(Out.thunks) = n
    <3>1. Len(Out.thunks) \in Nat /\ n \in Nat
      BY <2>1, SequenceProperties, LenProperties DEF WriterInv, Filling, GoodEntries
    <3>. QED  BY <2>1, <3>1 DEF Filling
  <2>8. wr'.next = 1
    BY <2>1, <2>2 DEF Records
  <2>9. /\ Records' /\ MemInv' /\ DiskInv' /\ WriterInv' /\ Out' = file
        /\ (/\ Len(Out'.thunks) = n
            /\ Out'.roots \in Seq(1..n)
            /\ wr'.next <= Len(Sections')
            /\ \A i \in 1..(wr'.next - 1) : Sections'[i] \in Out'.table) => Filling'
    BY <2>1, <2>2, <2>4, <2>5, <2>6, FillingStays
  <2>10. Len(Sections') \in Nat /\ Len(Sections') >= 2
    <3>1. wr'.params = wr.params
      BY <2>1, <2>2 DEF Records
    <3>2. Sections' = Sections
      BY <2>5, <2>9, <3>1 DEF Sections
    <3>. QED  BY <3>2, SectionsAre
  <2>11. \A i \in 1..(wr'.next - 1) : FALSE
    BY <2>8
  <2>12. Len(Out'.thunks) = n /\ Out'.roots \in Seq(1..n)
    BY <2>3, <2>5, <2>7, <2>9
  <2>13. Filling'
    BY <2>8, <2>9, <2>10, <2>11, <2>12
  <2>. QED  BY <2>2, <2>9, <2>13 DEF ImageInv
<1>. QED  BY <1>1, <1>2

LEMMA TableKeeps ==
    ASSUME ImageInv, WriteTable
    PROVE  ImageInv'
<1>. DEFINE name == Sections[wr.next]
            file == [Out EXCEPT !.table = @ \cup {name}]
            n == Len(wr.nodes)
<1>1. Records /\ MemInv /\ DiskInv /\ WriterInv /\ Filling /\ op = "table" /\ wr.next < Len(Sections)
  BY DEF ImageInv, WriteTable, Part
<1>2. /\ op' = "table" /\ UNCHANGED <<mem, held, ld, wrote>> /\ wr' = [wr EXCEPT !.next = wr.next + 1]
      /\ Fills(file)
  BY <1>1 DEF WriteTable, Part, Fills
<1>3. DOMAIN Out = FileFields /\ "roots" \notin Out.table /\ Out.head
  BY <1>1 DEF Records, WriterInv, Out, DiskInv, Filling
<1>4. name # "roots" /\ wr.next \in Nat /\ Len(Sections) \in Nat
  <2>1. wr.next \in 1..Len(Sections) /\ wr.next # Len(Sections)
    BY <1>1, SectionsAre DEF Filling
  <2>. QED  BY <2>1, SectionsAre
<1>. HIDE DEF name
<1>5. /\ DOMAIN file = FileFields /\ file.table = Out.table \cup {name} /\ file.head
      /\ file.strings = Out.strings /\ file.symbols = Out.symbols /\ file.patterns = Out.patterns
      /\ file.thunks = Out.thunks /\ file.roots = Out.roots
  BY <1>3 DEF FileFields
<1>. HIDE DEF file
<1>6. GoodEntries(file, n)
  BY <1>1, <1>5, EntriesStay DEF Filling, GoodEntries
<1>7. /\ Records' /\ MemInv' /\ DiskInv' /\ WriterInv' /\ Out' = file
      /\ (/\ Len(Out'.thunks) = n
          /\ Out'.roots \in Seq(1..n)
          /\ wr'.next <= Len(Sections')
          /\ \A i \in 1..(wr'.next - 1) : Sections'[i] \in Out'.table) => Filling'
  BY <1>1, <1>2, <1>3, <1>4, <1>5, <1>6, FillingStays
<1>8. wr'.next = wr.next + 1 /\ wr'.params = wr.params
  BY <1>1, <1>2 DEF Records
<1>9. Sections' = Sections
  BY <1>5, <1>7, <1>8 DEF Sections
<1>10. \A i \in 1..(wr'.next - 1) : Sections'[i] \in Out'.table
  <2>. SUFFICES ASSUME NEW i \in 1..wr.next PROVE Sections[i] \in Out.table \cup {name}
    BY <1>4, <1>5, <1>7, <1>8, <1>9
  <2>1. CASE i = wr.next
    BY <2>1 DEF name
  <2>2. CASE i # wr.next
    <3>1. i \in 1..(wr.next - 1)
      BY <1>4, <2>2
    <3>. QED  BY <1>1, <3>1 DEF Filling
  <2>. QED  BY <2>1, <2>2
<1>11. Len(Out'.thunks) = n /\ Out'.roots \in Seq(1..n)
  BY <1>1, <1>5, <1>7 DEF Filling
<1>12. wr'.next <= Len(Sections')
  BY <1>1, <1>4, <1>8, <1>9
<1>13. Filling'
  BY <1>7, <1>10, <1>11, <1>12
<1>. QED  BY <1>2, <1>7, <1>13 DEF ImageInv

\* The image that is there when the last entry of the section table is.
LEMMA DoneKeeps ==
    ASSUME ImageInv, WriteDone
    PROVE  ImageInv'
<1>. DEFINE file == [Out EXCEPT !.table = @ \cup {Last(Sections)}]
            f == wr.file
            n == Len(wr.nodes)
            graph == << [mem |-> mem, roots |-> wr.roots] >>
<1>1. Records /\ MemInv /\ DiskInv /\ WriterInv /\ Filling /\ op = "table" /\ wr.next = Len(Sections)
  BY DEF ImageInv, WriteDone
<1>2. /\ op' = "idle" /\ UNCHANGED <<mem, held, ld>> /\ wr' = NoWriter
      /\ disk' = [disk EXCEPT ![f] = file]
      /\ wrote' = [wrote EXCEPT ![f] = graph]
  BY DEF WriteDone
<1>3. f \in Files /\ DOMAIN Out = FileFields /\ Out.head /\ graph # NoGraph
  BY <1>1 DEF Records, WriterInv, Out, Filling, NoGraph
<1>4. Last(Sections) = Sections[Len(Sections)]
  BY DEF Last
<1>. HIDE DEF graph
<1>5. /\ DOMAIN file = FileFields /\ file.table = Out.table \cup {Sections[Len(Sections)]} /\ file.head
      /\ file.strings = Out.strings /\ file.symbols = Out.symbols /\ file.patterns = Out.patterns
      /\ file.thunks = Out.thunks /\ file.roots = Out.roots
  BY <1>3, <1>4 DEF FileFields
<1>. HIDE DEF file
<1>6. /\ DOMAIN disk' = Files /\ disk'[f] = file /\ \A g \in Files : g # f => disk'[g] = disk[g]
      /\ DOMAIN wrote' = Files /\ wrote'[f] = graph /\ \A g \in Files : g # f => wrote'[g] = wrote[g]
  BY <1>1, <1>2, <1>3 DEF Records
<1>7. Range(Sections) \subseteq file.table
  <2>1. Sequence(Sections)
    BY SectionsAre, SequenceOf
  <2>. SUFFICES ASSUME NEW i \in 1..Len(Sections) PROVE Sections[i] \in file.table
    BY <2>1, InRange
  <2>2. CASE i = Len(Sections)
    BY <1>5, <2>2
  <2>3. CASE i # Len(Sections)
    <3>1. i \in 1..(wr.next - 1)
      BY <1>1, <2>3, SectionsAre
    <3>. QED  BY <1>1, <1>5, <3>1 DEF Filling
  <2>. QED  BY <2>2, <2>3
<1>8. Len(Out.thunks) = n
  BY <1>1 DEF Filling
<1>9. GoodImage(file)
  <2>1. {"thunks", "roots"} \subseteq file.table
    BY <1>7, SectionsAre
  <2>2. /\ file.strings # <<>> => "strings" \in file.table
        /\ file.symbols # <<>> => "symbols" \in file.table
    BY <1>5, <1>7, SectionsAre
  <2>3. file.patterns # <<>> => "patterns" \in file.table
    <3>1. Sequence(Out.patterns) /\ Sequence(wr.params) /\ Len(Out.patterns) = Len(wr.params)
      BY <1>1 DEF Filling, WriterInv
    <3>2. Out.patterns # <<>> => wr.params # <<>>
      BY <3>1, EmptySeq DEF Sequence
    <3>. QED  BY <1>5, <1>7, <3>2, SectionsAre
  <2>4. Sequence(file.patterns) /\ GoodTexts(file) /\ file.roots \in Seq(1..Len(file.thunks))
    BY <1>1, <1>5, <1>8 DEF Filling, GoodTexts
  <2>5. GoodEntries(file, Len(file.thunks))
    BY <1>1, <1>5, <1>8, EntriesStay DEF Filling, GoodEntries
  <2>. QED  BY <1>5, <2>1, <2>2, <2>3, <2>4, <2>5 DEF GoodImage
<1>10. DiskInv'
  BY <1>1, <1>3, <1>6, <1>9 DEF DiskInv
<1>11. Records'
  BY <1>1, <1>2, <1>5, <1>6 DEF Records, NoWriter
<1>12. MemInv'
  BY <1>1, <1>2 DEF MemInv
<1>. QED  BY <1>2, <1>10, <1>11, <1>12 DEF ImageInv

-----------------------------------------------------------------------------
(* Loading *)

LEMMA LoadKeeps ==
    ASSUME ImageInv, NEW f \in Files, Load(f) \/ LoadRefused(f)
    PROVE  ImageInv'
<1>1. Records /\ MemInv /\ DiskInv
  BY DEF ImageInv
<1>2. CASE Load(f)
  <2>1. /\ op' = "nodes" /\ UNCHANGED <<mem, held, disk, wr, wrote>> /\ ld' = [NoLoader EXCEPT !.file = f]
        /\ Accepted(disk[f])
    BY <1>2 DEF Load
  <2>2. DOMAIN ld' = {"file", "nodes"} /\ ld'.file = f /\ ld'.nodes = <<>>
    BY <2>1 DEF NoLoader
  <2>3. Records' /\ MemInv' /\ DiskInv'
    BY <1>1, <2>1, <2>2 DEF Records, MemInv, DiskInv
  <2>4. wrote[f] # NoGraph
    BY <1>1, <2>1 DEF DiskInv, Accepted, ValidTables
  <2>5. LoaderInv'
    <3>1. <<>> \in Seq(1..Len(mem.th)) /\ Len(<<>>) = 0
      BY EmptySeq
    <3>2. Len(disk[f].thunks) \in Nat
      BY <1>1, <2>4, SequenceProperties DEF DiskInv, GoodImage, GoodEntries
    <3>3. In' = disk[f]
      BY <2>1, <2>2 DEF In
    <3>4. ld'.file \in Files /\ wrote'[ld'.file] # NoGraph /\ ld'.nodes \in Seq(1..Len(mem'.th))
      BY <2>1, <2>2, <2>4, <3>1
    <3>5. Len(ld'.nodes) <= Len(In'.thunks) /\ \A i \in 1..Len(ld'.nodes) : FALSE
      BY <2>2, <3>1, <3>2, <3>3
    <3>. QED  BY <3>4, <3>5 DEF LoaderInv
  <2>. QED  BY <2>1, <2>3, <2>5 DEF ImageInv
<1>3. CASE LoadRefused(f)
  <2>1. UNCHANGED <<mem, held, disk, op, wr, ld, wrote>>
    BY <1>3 DEF LoadRefused
  <2>2. Records' /\ MemInv' /\ DiskInv' /\ op \notin {"collect", "blobs", "patterns", "thunks", "table", "nodes"}
    BY <1>1, <1>3, <2>1 DEF Records, MemInv, DiskInv, LoadRefused
  <2>. QED  BY <2>1, <2>2 DEF ImageInv
<1>. QED  BY <1>2, <1>3

\* What is in an image that is being loaded.
LEMMA LoadedImage ==
    ASSUME ImageInv, op = "nodes"
    PROVE  /\ Records /\ MemInv /\ DiskInv /\ LoaderInv
           /\ GoodImage(In) /\ Len(In.thunks) \in Nat
           /\ \A i \in 1..Len(In.thunks) : GoodEntry(In, Len(In.thunks), In.thunks[i])
<1>1. Records /\ MemInv /\ DiskInv /\ LoaderInv
  BY DEF ImageInv
<1>2. GoodImage(In)
  BY <1>1 DEF LoaderInv, DiskInv, In
<1>. QED  BY <1>1, <1>2, SequenceProperties DEF GoodImage, GoodEntries

\* The text at an offset of a blob has a length, whatever the offset.
LEMMA TextMeasured ==
    ASSUME NEW blob, Measured(blob), NEW off, NEW len \in Nat
    PROVE  TextAt(blob, off, len).len \in Nat
<1>. DEFINE here == {i \in DOMAIN blob : Ends(blob)[i - 1] = off /\ blob[i].len = len}
<1>1. DOMAIN blob = 1..Len(blob) /\ \A i \in 1..Len(blob) : blob[i].len \in Nat
  BY SequenceProperties DEF Measured
<1>2. CASE here # {}
  <2>1. TextAt(blob, off, len) = blob[CHOOSE i \in here : TRUE]
    BY <1>2 DEF TextAt
  <2>2. (CHOOSE i \in here : TRUE) \in here
    BY <1>2
  <2>. QED  BY <1>1, <2>1, <2>2
<1>3. CASE here = {}
  BY <1>3 DEF TextAt, NoText, Text
<1>. QED  BY <1>2, <1>3

\* The thunk that is made for an entry, its children still to come.
LEMMA NewThunkGood ==
    ASSUME ImageInv, op = "nodes", NEW i \in 1..Len(In.thunks), NEW param
    PROVE  LET t == NewThunk(In.thunks[i], param) IN
           t.kind = In.thunks[i].kind /\ \A n \in Nat : GoodThunk(n, t)
<1>. DEFINE e == In.thunks[i]
            t == NewThunk(e, param)
            text == CASE e.kind \in StringKinds -> TextAt(In.strings, e.off, e.len)
                      [] e.kind \in SymbolKinds -> TextAt(In.symbols, e.off, e.len)
                      [] OTHER -> NoText
            kids == [k \in DOMAIN e.kids |-> NULL]
<1>1. GoodEntry(In, Len(In.thunks), e) /\ Measured(In.strings) /\ Measured(In.symbols)
  BY LoadedImage DEF GoodImage, GoodTexts
<1>. HIDE DEF e
<1>2. text.len \in Nat
  <2>1. e.len \in Nat
    BY <1>1 DEF GoodEntry
  <2>2. CASE e.kind \in StringKinds
    <3>1. TextAt(In.strings, e.off, e.len).len \in Nat
      BY <1>1, <2>1, TextMeasured
    <3>2. text = TextAt(In.strings, e.off, e.len)
      BY <2>2 DEF StringKinds, SymbolKinds
    <3>. HIDE DEF text
    <3>. QED  BY <3>1, <3>2
  <2>3. CASE e.kind \notin StringKinds /\ e.kind \in SymbolKinds
    <3>1. TextAt(In.symbols, e.off, e.len).len \in Nat
      BY <1>1, <2>1, TextMeasured
    <3>2. text = TextAt(In.symbols, e.off, e.len)
      BY <2>3
    <3>. HIDE DEF text
    <3>. QED  BY <3>1, <3>2
  <2>4. CASE e.kind \notin StringKinds /\ e.kind \notin SymbolKinds
    <3>1. text = NoText
      BY <2>4
    <3>2. NoText.len \in Nat
      BY DEF NoText, Text
    <3>. HIDE DEF text
    <3>. QED  BY <3>1, <3>2
  <2>. QED  BY <2>2, <2>3, <2>4
<1>3. t = [Thunk(e.kind, text, e.num, kids) EXCEPT
              !.pat = param, !.tgt = IF e.kind = "ref" /\ text \in PreludeNames THEN Prelude ELSE NULL]
  BY DEF NewThunk
<1>. HIDE DEF text, kids
<1>4. DOMAIN t = ThunkFields /\ t.kind = e.kind /\ t.text = text /\ t.num = e.num /\ t.kids = kids
  BY <1>3 DEF Thunk, ThunkFields
<1>. HIDE DEF t
<1>5. ASSUME NEW n \in Nat PROVE kids \in Seq(0..n)
  <2>1. DOMAIN e.kids = 1..Len(e.kids) /\ Len(e.kids) \in Nat
    BY <1>1, LenProperties DEF GoodEntry
  <2>2. kids \in [1..Len(e.kids) -> 0..n]
    BY <2>1 DEF kids, NULL
  <2>. QED  BY <2>1, <2>2, SeqDef
<1>6. e.kids # <<>> => kids # <<>>
  <2>1. DOMAIN e.kids = 1..Len(e.kids) /\ Len(e.kids) \in Nat /\ (e.kids # <<>> => Len(e.kids) # 0)
    BY <1>1, LenProperties, EmptySeq DEF GoodEntry
  <2>2. DOMAIN kids = DOMAIN e.kids
    BY DEF kids
  <2>3. DOMAIN <<>> = 1..0
    OBVIOUS
  <2>4. e.kids # <<>> => 1 \in DOMAIN kids /\ 1 \notin DOMAIN <<>>
    BY <2>1, <2>2, <2>3
  <2>. QED  BY <2>4
<1>7. \A n \in Nat : GoodThunk(n, t)
  BY <1>1, <1>2, <1>4, <1>5, <1>6 DEF GoodThunk, GoodEntry
<1>. QED  BY <1>4, <1>7 DEF e, t

\* Addresses of a memory are addresses of a larger one.
LEMMA MoreMemory ==
    ASSUME MemInv, NEW t, GoodThunk(Len(mem.th) + 1, t),
           mem'.th = Append(mem.th, t), held' = held
    PROVE  /\ MemInv' /\ Len(mem'.th) = Len(mem.th) + 1 /\ Len(mem.th) \in Nat
           /\ mem'.th[Len(mem.th) + 1] = t
           /\ \A a \in 1..Len(mem.th) : mem'.th[a] = mem.th[a]
<1>. DEFINE n == Len(mem.th)
            th == Append(mem.th, t)
<1>1. n \in Nat /\ Sequence(mem.th)
  BY SequenceProperties DEF MemInv
<1>2. Sequence(th) /\ Len(th) = n + 1 /\ \A a \in 1..n : th[a] = mem.th[a]
  BY <1>1, ElementAppended
<1>3. th[n + 1] = t
  BY <1>1, AppendProperties DEF Sequence
<1>. HIDE DEF th
<1>4. 0..n \subseteq 0..(n + 1)
  BY <1>1
<1>5. Seq(0..n) \subseteq Seq(0..(n + 1))
  BY <1>4, SeqMonotonic
<1>6. ASSUME NEW a \in 1..(n + 1) PROVE GoodThunk(n + 1, th[a])
  <2>1. CASE a = n + 1
    BY <1>3, <2>1
  <2>2. CASE a # n + 1
    <3>1. a \in 1..n
      BY <1>1, <2>2
    <3>. QED  BY <1>2, <1>5, <3>1 DEF MemInv, GoodThunk
  <2>. QED  BY <2>1, <2>2
<1>7. mem'.th = th
  BY DEF th
<1>8. \A i \in 1..Len(held) : held[i] \in Seq(0..(n + 1))
  BY <1>5 DEF MemInv
<1>. HIDE DEF n
<1>9. MemInv'
  <2>1. Sequence(mem'.th) /\ Len(mem'.th) = n + 1
    BY <1>2, <1>7
  <2>2. \A a \in 1..Len(mem'.th) : GoodThunk(Len(mem'.th), mem'.th[a])
    BY <1>6, <1>7, <2>1
  <2>3. Sequence(held') /\ \A i \in 1..Len(held') : held'[i] \in Seq(0..Len(mem'.th))
    BY <1>8, <2>1 DEF MemInv
  <2>. QED  BY <2>1, <2>2, <2>3 DEF MemInv
<1>. QED  BY <1>1, <1>2, <1>3, <1>7, <1>9 DEF n

LEMMA MadeKeeps ==
    ASSUME ImageInv, op = "nodes", NEW i \in 1..Len(In.thunks), i = Len(ld.nodes) + 1,
           NEW param, NEW pats, Made(NewThunk(In.thunks[i], param), pats)
    PROVE  ImageInv'
<1>. DEFINE t == NewThunk(In.thunks[i], param)
            n == Len(mem.th)
            nodes == Append(ld.nodes, n + 1)
<1>1. Records /\ MemInv /\ DiskInv /\ LoaderInv /\ GoodImage(In) /\ Len(In.thunks) \in Nat
  BY LoadedImage
<1>2. n \in Nat /\ Len(ld.nodes) \in Nat
  BY <1>1, SequenceProperties, LenProperties DEF MemInv, LoaderInv
<1>3. t.kind = In.thunks[i].kind /\ \A m \in Nat : GoodThunk(m, t)
  BY NewThunkGood
<1>4. /\ mem' = Memory(Append(mem.th, t), pats)
      /\ ld' = [ld EXCEPT !.nodes = nodes]
      /\ UNCHANGED <<held, disk, op, wr, wrote>>
  BY DEF Made
<1>. HIDE DEF t
<1>5. /\ mem'.th = Append(mem.th, t) /\ DOMAIN mem' = {"th", "pat"}
      /\ DOMAIN ld' = {"file", "nodes"} /\ ld'.file = ld.file /\ ld'.nodes = nodes
  BY <1>1, <1>4 DEF Memory, Records
<1>6. GoodThunk(n + 1, t)
  BY <1>2, <1>3
<1>7. /\ MemInv' /\ Len(mem'.th) = n + 1
      /\ mem'.th[n + 1] = t /\ \A a \in 1..n : mem'.th[a] = mem.th[a]
  BY <1>1, <1>4, <1>5, <1>6, MoreMemory
<1>8. Records' /\ DiskInv' /\ In' = In
  BY <1>1, <1>4, <1>5 DEF Records, DiskInv, In
<1>9. LoaderInv'
  <2>1. ld.nodes \in Seq(1..(n + 1))
    <3>1. 1..n \subseteq 1..(n + 1)
      BY <1>2
    <3>. QED  BY <1>1, <3>1, SeqMonotonic DEF LoaderInv
  <2>2. n + 1 \in 1..(n + 1)
    BY <1>2
  <2>3. /\ nodes \in Seq(1..(n + 1)) /\ Len(nodes) = Len(ld.nodes) + 1
        /\ nodes[Len(ld.nodes) + 1] = n + 1
        /\ \A j \in 1..Len(ld.nodes) : nodes[j] = ld.nodes[j]
    BY <2>1, <2>2, AppendProperties
  <2>. HIDE DEF nodes
  <2>4. ASSUME NEW j \in 1..Len(nodes) PROVE mem'.th[nodes[j]].kind = In.thunks[j].kind
    <3>1. CASE j = i
      BY <1>3, <1>7, <2>3, <3>1
    <3>2. CASE j # i
      <4>1. j \in 1..Len(ld.nodes)
        BY <1>2, <2>3, <3>2
      <4>2. ld.nodes[j] \in 1..n
        BY <1>1, <4>1, ElementOfSeq DEF LoaderInv
      <4>. QED  BY <1>1, <1>7, <2>3, <4>1, <4>2 DEF LoaderInv
    <3>. QED  BY <3>1, <3>2
  <2>5. Len(nodes) <= Len(In.thunks)
    BY <1>1, <1>2, <2>3
  <2>6. ld'.file \in Files /\ wrote'[ld'.file] # NoGraph
    BY <1>1, <1>4, <1>5 DEF LoaderInv
  <2>. QED  BY <1>5, <1>7, <1>8, <2>3, <2>4, <2>5, <2>6 DEF LoaderInv
<1>10. op' = "nodes"
  BY <1>4
<1>. QED  BY <1>7, <1>8, <1>9, <1>10 DEF ImageInv

LEMMA LoadThunkKeeps ==
    ASSUME ImageInv, LoadThunk \/ LoadLambda
    PROVE  ImageInv'
<1>1. op = "nodes"
  BY DEF LoadThunk, LoadLambda, Loading
<1>. DEFINE i == Len(ld.nodes) + 1
<1>2. i \in 1..Len(In.thunks)
  <2>1. Len(ld.nodes) \in Nat /\ Len(In.thunks) \in Nat /\ Len(ld.nodes) < Len(In.thunks)
    BY <1>1, LoadedImage, LenProperties DEF LoadThunk, LoadLambda, Loading, LoaderInv
  <2>. QED  BY <2>1
<1>3. CASE LoadThunk
  <2>1. Made(NewThunk(In.thunks[i], NULL), mem.pat)
    BY <1>3 DEF LoadThunk, Loading
  <2>. QED  BY <1>1, <1>2, <2>1, MadeKeeps
<1>4. CASE LoadLambda
  <2>1. CASE op' = "fault" /\ UNCHANGED <<mem, held, pdec, disk, wr, ld, ops, wrote>>
    BY <2>1, IdleKeeps
  <2>2. CASE ~ (op' = "fault" /\ UNCHANGED <<mem, held, pdec, disk, wr, ld, ops, wrote>>)
    <3>1. \E param, pats : Made(NewThunk(In.thunks[i], param), pats)
      BY <1>4, <2>2 DEF LoadLambda, Loading
    <3>. QED  BY <1>1, <1>2, <3>1, MadeKeeps
  <2>. QED  BY <2>1, <2>2
<1>. QED  BY <1>3, <1>4

LEMMA WireKeeps ==
    ASSUME ImageInv, Wire
    PROVE  ImageInv'
<1>. DEFINE n == Len(mem.th)
            m == Len(In.thunks)
            new(a) == LET e == In.thunks[IdOf(ld.nodes, a)] IN
                      [mem.th[a] EXCEPT !.kids = [k \in DOMAIN e.kids |-> ld.nodes[e.kids[k]]]]
            roots == [i \in DOMAIN In.roots |-> ld.nodes[In.roots[i]]]
<1>1. /\ op = "nodes" /\ op' = "idle" /\ Len(ld.nodes) = m
      /\ mem' = [mem EXCEPT !.th = [a \in DOMAIN mem.th |-> IF a \in Range(ld.nodes) THEN new(a) ELSE mem.th[a]]]
      /\ held' = Append(held, roots)
      /\ ld' = NoLoader
      /\ UNCHANGED <<disk, wr, wrote>>
  BY DEF Wire, WireTo
<1>2. /\ Records /\ MemInv /\ DiskInv /\ LoaderInv /\ GoodImage(In) /\ m \in Nat
      /\ \A i \in 1..m : GoodEntry(In, m, In.thunks[i])
  BY <1>1, LoadedImage
<1>3. n \in Nat /\ DOMAIN mem.th = 1..n /\ Sequence(mem.th) /\ Sequence(held)
  BY <1>2, SequenceProperties DEF MemInv
<1>4. /\ mem'.th = [a \in 1..n |-> IF a \in Range(ld.nodes) THEN new(a) ELSE mem.th[a]]
      /\ DOMAIN mem' = DOMAIN mem
  BY <1>1, <1>2, <1>3 DEF Records
<1>5. ld.nodes \in Seq(1..n) /\ Sequence(ld.nodes) /\ \A i \in 1..m : ld.nodes[i] \in 1..n
  BY <1>1, <1>2, SequenceOf, ElementOfSeq DEF LoaderInv
<1>6. \* what is wired is a sequence of addresses
      ASSUME NEW ids \in Seq(1..m)
      PROVE  [k \in DOMAIN ids |-> ld.nodes[ids[k]]] \in Seq(0..n)
  <2>1. DOMAIN ids = 1..Len(ids) /\ Len(ids) \in Nat /\ \A k \in 1..Len(ids) : ids[k] \in 1..m
    BY LenProperties, ElementOfSeq
  <2>2. \A k \in 1..Len(ids) : ld.nodes[ids[k]] \in 0..n
    <3>1. 1..n \subseteq 0..n
      BY <1>3
    <3>. HIDE DEF n, m
    <3>. QED  BY <1>5, <2>1, <3>1
  <2>3. [k \in DOMAIN ids |-> ld.nodes[ids[k]]] \in [1..Len(ids) -> 0..n]
    BY <2>1, <2>2
  <2>. QED  BY <2>1, <2>3, SeqDef
<1>7. ASSUME NEW a \in 1..n, a \in Range(ld.nodes) PROVE GoodThunk(n, new(a))
  <2>. DEFINE i == IdOf(ld.nodes, a)
              e == In.thunks[i]
              t == mem.th[a]
              kids == [k \in DOMAIN e.kids |-> ld.nodes[e.kids[k]]]
  <2>1. i \in 1..m /\ ld.nodes[i] = a
    BY <1>1, <1>5, <1>7, IdOfKnown
  <2>2. GoodEntry(In, m, e) /\ t.kind = e.kind
    BY <1>1, <1>2, <2>1 DEF LoaderInv
  <2>3. GoodThunk(n, t)
    BY <1>2 DEF MemInv
  <2>. HIDE DEF i, e, t
  <2>4. e.kids \in Seq(1..m)
    BY <2>2 DEF GoodEntry
  <2>5. kids \in Seq(0..n)
    BY <1>6, <2>4
  <2>6. e.kids # <<>> => kids # <<>>
    <3>1. DOMAIN kids = DOMAIN e.kids /\ DOMAIN e.kids = 1..Len(e.kids) /\ Len(e.kids) \in Nat
      BY <2>4, LenProperties
    <3>2. e.kids # <<>> => Len(e.kids) # 0
      BY <2>4, EmptySeq
    <3>3. e.kids # <<>> => 1 \in DOMAIN kids
      BY <3>1, <3>2
    <3>4. 1 \notin DOMAIN <<>>
      OBVIOUS
    <3>. QED  BY <3>3, <3>4
  <2>7. new(a) = [t EXCEPT !.kids = kids]
    BY DEF e, t, i
  <2>. HIDE DEF kids, new
  <2>8. DOMAIN t = ThunkFields
    BY <2>3 DEF GoodThunk
  <2>9. /\ DOMAIN new(a) = ThunkFields /\ new(a).kids = kids
        /\ new(a).kind = t.kind /\ new(a).text = t.text /\ new(a).num = t.num
    BY <2>7, <2>8 DEF ThunkFields
  <2>10. /\ t.kind = "appl" => kids # <<>>
         /\ t.kind \in Kinds /\ t.text.len \in Nat
         /\ t.kind = "choice" => t.num \in 1..3
    BY <2>2, <2>3, <2>6 DEF GoodThunk, GoodEntry
  <2>. QED  BY <2>5, <2>9, <2>10 DEF GoodThunk
<1>. HIDE DEF new
<1>8. \A a \in 1..n : GoodThunk(n, mem'.th[a])
  <2>. SUFFICES ASSUME NEW a \in 1..n PROVE GoodThunk(n, mem'.th[a])
    OBVIOUS
  <2>1. GoodThunk(n, mem.th[a])
    BY <1>2 DEF MemInv
  <2>. HIDE DEF n
  <2>. QED  BY <1>4, <1>7, <2>1
<1>9. Sequence(mem'.th) /\ Len(mem'.th) = n
  <2>. DEFINE S == {mem'.th[a] : a \in 1..n}
  <2>1. mem'.th \in [1..n -> S]
    BY <1>4
  <2>. HIDE DEF S, n
  <2>2. mem'.th \in Seq(S) /\ Len(mem'.th) = n
    BY <1>3, <2>1, SeqDef, LenProperties
  <2>. QED  BY <2>2, SequenceOf
<1>10. roots \in Seq(0..n)
  BY <1>2, <1>6 DEF GoodImage
<1>11. Sequence(held') /\ \A i \in 1..Len(held') : held'[i] \in Seq(0..n)
  <2>1. Sequence(Append(held, roots)) /\ Len(Append(held, roots)) = Len(held) + 1
        /\ \A i \in 1..Len(held) : Append(held, roots)[i] = held[i]
    BY <1>3, ElementAppended
  <2>2. Len(held) \in Nat
    BY <1>3, SequenceProperties
  <2>. HIDE DEF roots
  <2>3. Append(held, roots)[Len(held) + 1] = roots
    BY <1>3, <2>2, AppendProperties DEF Sequence
  <2>4. \A i \in 1..Len(held) : held[i] \in Seq(0..n)
    BY <1>2 DEF MemInv
  <2>. HIDE DEF n
  <2>5. ASSUME NEW i \in 1..Len(held') PROVE held'[i] \in Seq(0..n)
    <3>1. i \in 1..Len(held) \/ i = Len(held) + 1
      BY <1>1, <2>1, <2>2
    <3>. QED  BY <1>1, <1>10, <2>1, <2>3, <2>4, <3>1
  <2>. QED  BY <1>1, <2>1, <2>5
<1>12. MemInv'
  BY <1>8, <1>9, <1>11 DEF MemInv
<1>13. Records'
  BY <1>1, <1>2, <1>4 DEF Records, NoLoader
<1>14. DiskInv'
  BY <1>1, <1>2 DEF DiskInv
<1>. QED  BY <1>1, <1>12, <1>13, <1>14 DEF ImageInv

-----------------------------------------------------------------------------
(* The invariant holds *)

\* A process that ends takes its memory with it; the files stay.
LEMMA RestartKeeps == ImageInv /\ Restart => ImageInv'
<1>. SUFFICES ASSUME ImageInv, Restart PROVE ImageInv'
  OBVIOUS
<1>1. Records /\ DiskInv
  BY DEF ImageInv
<1>2. /\ op' = "idle" /\ mem' = NoMemory /\ held' = <<>> /\ wr' = NoWriter /\ ld' = NoLoader
      /\ UNCHANGED <<disk, wrote>>
  BY DEF Restart
<1>3. Sequence(<<>>) /\ Len(<<>>) = 0
  BY EmptySeq DEF Sequence
<1>4. mem'.th = <<>> /\ DOMAIN mem' = {"th", "pat"}
  BY <1>2 DEF NoMemory, Memory
<1>5. Records'
  BY <1>1, <1>2, <1>4 DEF Records, NoWriter, NoLoader
<1>6. MemInv'
  BY <1>2, <1>3, <1>4 DEF MemInv
<1>7. DiskInv'
  BY <1>1, <1>2 DEF DiskInv
<1>. QED  BY <1>2, <1>5, <1>6, <1>7 DEF ImageInv

LEMMA StutterKeeps == ImageInv /\ UNCHANGED vars => ImageInv'
<1>. SUFFICES ASSUME ImageInv, UNCHANGED vars PROVE ImageInv'
  OBVIOUS
<1>1. UNCHANGED <<mem, held, disk, op, wr, ld, wrote>>
  BY DEF vars
<1>2. Out' = Out /\ In' = In /\ Sections' = Sections
  BY <1>1 DEF Out, In, Sections
<1>. QED
  BY <1>1, <1>2 DEF ImageInv, Records, MemInv, DiskInv, WriterInv, Collecting, Filling, LoaderInv, Turn

LEMMA ImageInvStep == ImageInv /\ [Next]_vars => ImageInv'
<1>. SUFFICES ASSUME ImageInv, [Next]_vars PROVE ImageInv'
  OBVIOUS
<1>1. CASE \E f \in Files, i \in DOMAIN held : Write(f, held[i])
  BY <1>1, WriteKeeps
<1>2. CASE \E f \in Files : Load(f) \/ LoadRefused(f)
  BY <1>2, LoadKeeps
<1>. QED
  BY <1>1, <1>2, CollectKeeps, HeaderKeeps, BlobsKeep, PatternKeeps, PatternsEndKeeps, ThunkKeeps, RootsKeep,
     TableKeeps, DoneKeeps, LoadThunkKeeps, WireKeeps, RestartKeeps, StutterKeeps DEF Next

\* In every state memory, files, and what the writer and the loader have done
\* so far fit together.
THEOREM ImageInvHolds == Spec => []ImageInv
<1>. QED  BY ImageInvInit, ImageInvStep, PTL DEF Spec

-----------------------------------------------------------------------------
(* What a file is accepted for, and what loading leaves alone *)

LEMMA GoodIsValid ==
    ASSUME NEW file, GoodImage(file), NEW e, GoodEntry(file, Len(file.thunks), e)
    PROVE  ValidThunk(file, e)
<1>. DEFINE n == Len(file.thunks)
<1>1. /\ DOMAIN file.thunks = 1..n
      /\ Sequence(file.patterns) /\ DOMAIN file.patterns = 1..Len(file.patterns) /\ Len(file.patterns) \in Nat
  BY SequenceProperties DEF GoodImage, GoodEntries
<1>2. e.kids \in Seq(1..n)
  BY DEF GoodEntry
<1>3. Range(e.kids) \subseteq 1..n /\ (e.kids # <<>> => e.kids[1] \in 1..n)
  <2>1. Len(e.kids) \in Nat /\ \A k \in 1..Len(e.kids) : e.kids[k] \in 1..n
    BY <1>2, LenProperties, ElementOfSeq
  <2>2. e.kids # <<>> => Len(e.kids) # 0
    BY <1>2, EmptySeq
  <2>3. e.kids # <<>> => 1 \in 1..Len(e.kids)
    BY <2>1, <2>2
  <2>4. Range(e.kids) \subseteq 1..n
    BY <1>2, RangeOfSeq
  <2>. QED  BY <2>1, <2>3, <2>4
<1>4. e.kind \in StringKinds => InBlob(file, "strings", file.strings, e)
  BY DEF GoodEntry, GoodImage, InBlob
<1>5. e.kind \in SymbolKinds => InBlob(file, "symbols", file.symbols, e)
  BY DEF GoodEntry, GoodImage, InBlob
<1>6. e.kind = "appl" => e.kids[1] \in DOMAIN file.thunks
  BY <1>1, <1>3 DEF GoodEntry
<1>7. e.kind = "choice" => e.num \in 1..3 /\ Range(e.kids) \subseteq DOMAIN file.thunks
  BY <1>1, <1>3 DEF GoodEntry
<1>8. ASSUME e.kind = "lambda"
      PROVE  /\ "patterns" \in file.table
             /\ e.pat \in DOMAIN file.patterns
             /\ Range(e.kids) \subseteq DOMAIN file.thunks
  <2>1. e.pat \in 1..Len(file.patterns)
    BY <1>8 DEF GoodEntry
  <2>2. file.patterns # <<>>
    BY <1>1, <2>1, EmptySeq
  <2>3. "patterns" \in file.table
    BY <2>2 DEF GoodImage
  <2>. QED  BY <1>1, <1>3, <2>1, <2>3
<1>. HIDE DEF n
<1>9. CASE e.kind \in StringKinds
  BY <1>4, <1>9 DEF ValidThunk, StringKinds, SymbolKinds
<1>10. CASE e.kind \in SymbolKinds
  BY <1>5, <1>10 DEF ValidThunk, StringKinds, SymbolKinds
<1>11. CASE e.kind = "appl"
  BY <1>6, <1>11 DEF ValidThunk, StringKinds, SymbolKinds
<1>12. CASE e.kind = "choice"
  BY <1>7, <1>12 DEF ValidThunk, StringKinds, SymbolKinds
<1>13. CASE e.kind = "lambda"
  BY <1>8, <1>13 DEF ValidThunk, StringKinds, SymbolKinds
<1>14. CASE e.kind \notin StringKinds \cup SymbolKinds \cup {"appl", "choice", "lambda"}
  BY <1>14 DEF ValidThunk
<1>. QED  BY <1>9, <1>10, <1>11, <1>12, <1>13, <1>14

LEMMA GoodIsAccepted == ASSUME NEW file, GoodImage(file) PROVE Accepted(file)
<1>. DEFINE n == Len(file.thunks)
<1>1. /\ Sequence(file.thunks) /\ DOMAIN file.thunks = 1..n /\ n \in Nat
      /\ Sequence(file.patterns) /\ DOMAIN file.patterns = 1..Len(file.patterns) /\ Len(file.patterns) \in Nat
  BY SequenceProperties DEF GoodImage, GoodEntries
<1>2. ValidTables(file)
  <2>1. file.roots \in Seq(1..n)
    BY DEF GoodImage
  <2>2. \A i \in DOMAIN file.roots : file.roots[i] \in 1..n
    BY <2>1, LenProperties, ElementOfSeq
  <2>. QED  BY <1>1, <2>2 DEF ValidTables, GoodImage
<1>3. ASSUME NEW i \in 1..n PROVE ValidThunk(file, file.thunks[i])
  <2>1. GoodEntry(file, n, file.thunks[i])
    BY <1>3 DEF GoodImage, GoodEntries
  <2>. QED  BY <2>1, GoodIsValid
<1>. QED  BY <1>1, <1>2, <1>3 DEF Accepted

\* lsti_validate accepts a file exactly when lsti_write has completed it: none
\* that a process left half way or a refused write left behind, and every one
\* that was completed, whatever graphs are written, to whatever files, however
\* often.
THEOREM OnlyCompleteFilesAccepted == Spec => []AcceptedIffComplete
<1>1. ImageInv => AcceptedIffComplete
  <2>. SUFFICES ASSUME ImageInv, NEW f \in Files PROVE Accepted(disk[f]) <=> wrote[f] # NoGraph
    BY DEF AcceptedIffComplete
  <2>1. wrote[f] = NoGraph => "roots" \notin disk[f].table
    BY DEF ImageInv, DiskInv
  <2>2. wrote[f] # NoGraph => GoodImage(disk[f])
    BY DEF ImageInv, DiskInv
  <2>3. wrote[f] = NoGraph => ~ Accepted(disk[f])
    BY <2>1 DEF Accepted, ValidTables
  <2>4. wrote[f] # NoGraph => Accepted(disk[f])
    BY <2>2, GoodIsAccepted
  <2>. QED  BY <2>3, <2>4
<1>. QED  BY <1>1, ImageInvHolds, PTL

\* Loading an image changes no thunk that was in memory before.
THEOREM LoadingKeepsOthers == Spec => OthersKept
<1>. DEFINE A == op = "nodes" /\ held' # <<>> =>
                     \A a \in DOMAIN mem.th \ Range(ld.nodes) : mem'.th[a] = mem.th[a]
<1>1. ASSUME ImageInv, [Next]_vars PROVE A
  <2>. SUFFICES ASSUME op = "nodes", held' # <<>>, NEW a \in DOMAIN mem.th, a \notin Range(ld.nodes)
                PROVE  mem'.th[a] = mem.th[a]
    OBVIOUS
  <2>0. a \in DOMAIN mem.th /\ a \notin Range(ld.nodes)
    OBVIOUS
  <2>1. Records /\ Sequence(mem.th) /\ DOMAIN mem.th = 1..Len(mem.th)
    BY <1>1, SequenceProperties DEF ImageInv, MemInv
  <2>2. ASSUME NEW t, NEW pats, Made(t, pats) PROVE mem'.th[a] = mem.th[a]
    <3>1. mem'.th = Append(mem.th, t)
      BY <2>2 DEF Made, Memory
    <3>2. Append(mem.th, t)[a] = mem.th[a]
      BY <2>1, ElementAppended
    <3>. QED  BY <3>1, <3>2
  <2>3. CASE LoadThunk
    BY <2>2, <2>3 DEF LoadThunk
  <2>4. CASE LoadLambda
    <3>1. mem' = mem \/ \E t, pats : Made(t, pats)
      BY <2>4 DEF LoadLambda
    <3>. QED  BY <2>2, <3>1
  <2>5. CASE Wire
    <3>. DEFINE kids(b) == LET e == In.thunks[IdOf(ld.nodes, b)] IN [k \in DOMAIN e.kids |-> ld.nodes[e.kids[k]]]
    <3>1. mem' = [mem EXCEPT !.th = [b \in DOMAIN mem.th |->
                     IF b \in Range(ld.nodes) THEN [mem.th[b] EXCEPT !.kids = kids(b)] ELSE mem.th[b]]]
      BY <2>5 DEF Wire, WireTo
    <3>. HIDE DEF kids
    <3>2. mem'.th = [b \in DOMAIN mem.th |->
              IF b \in Range(ld.nodes) THEN [mem.th[b] EXCEPT !.kids = kids(b)] ELSE mem.th[b]]
      BY <2>1, <3>1 DEF Records
    <3>. QED  BY <2>0, <3>2
  <2>6. CASE Restart
    BY <2>6 DEF Restart
  <2>7. CASE UNCHANGED vars
    BY <2>7 DEF vars
  <2>8. LoadThunk \/ LoadLambda \/ Wire \/ Restart \/ UNCHANGED vars
    BY <1>1 DEF Next, Write, Collect, WriteHeader, WriteBlobs, WritePattern, PatternsEnd, WriteThunk, WriteRoots,
                WriteTable, WriteDone, Part, Load, LoadRefused
  <2>. QED  BY <2>3, <2>4, <2>5, <2>6, <2>7, <2>8
<1>2. ImageInv /\ [Next]_vars => [A]_vars
  BY <1>1
<1>. QED  BY <1>2, ImageInvHolds, PTL DEF Spec, OthersKept

-----------------------------------------------------------------------------
(* What a graph of the memory, of a file and of the loader have in common: *)
(* the second invariant.                                                   *)

Plain(text) == text.len = 0 => text = NoText
PlainThunk(t) == Plain(t.text) /\ (t.kind \notin TextKinds => t.text = NoText)
PlainMem == \A a \in 1..Len(mem.th) : PlainThunk(mem.th[a])

\* The text of an entry, where the image has it.
TextOf(file, e) ==
    CASE e.kind \in StringKinds -> TextAt(file.strings, e.off, e.len)
      [] e.kind \in SymbolKinds -> TextAt(file.symbols, e.off, e.len)
      [] OTHER -> NoText

(* e is the entry of t in the file, its thunks numbered by o.              *)
IsEntry(file, e, t, o) ==
    /\ e.kind = SavedKind(t.kind) /\ e.num = t.num
    /\ TextOf(file, e) = t.text /\ Plain(t.text)
    /\ Sequence(t.kids) /\ Range(t.kids) \subseteq Range(o) /\ e.kids = IdsOf(o, t.kids)

(* The file is the image of a graph, its thunks in the order o.            *)
IsImage(o, file, graph) ==
    /\ Sequence(graph.mem.th)
    /\ o \in Seq(1..Len(graph.mem.th)) /\ Distinct(o)
    /\ Len(file.thunks) = Len(o)
    /\ \A i \in 1..Len(o) : IsEntry(file, file.thunks[i], graph.mem.th[o[i]], o)
    /\ Sequence(graph.roots) /\ Range(graph.roots) \subseteq Range(o)
    /\ file.roots = IdsOf(o, graph.roots)

WrittenInv == \A f \in Files : wrote[f] # NoGraph => \E o : IsImage(o, disk[f], wrote[f][1])

(* Each text of the blob is at the offset that the pool has for it.        *)
Found(pool, blob) ==
    \A i \in 1..Len(pool) : pool[i].text \in Range(blob) =>
        TextAt(blob, pool[i].off, pool[i].text.len) = pool[i].text

PlainPool(pool) == \A i \in 1..Len(pool) : Plain(pool[i].text)

Entered == \A i \in 1..Len(Out.thunks) : IsEntry(Out, Out.thunks[i], Turn(i), wr.nodes)

WriterGraph ==
    /\ op \in {"collect", "blobs", "patterns", "thunks", "table"} => Distinct(wr.nodes)
    /\ op \in {"collect", "blobs"} => PlainPool(wr.spool) /\ PlainPool(wr.ypool)
    /\ op \in {"patterns", "thunks", "table"} =>
         Found(wr.spool, Out.strings) /\ Found(wr.ypool, Out.symbols) /\ Entered
    /\ op = "table" => Range(wr.roots) \subseteq Range(wr.nodes) /\ Out.roots = IdsOf(wr.nodes, wr.roots)

(* The loader has a thunk of its own for each entry it has read.           *)
LoaderGraph ==
    op = "nodes" =>
        /\ Distinct(ld.nodes)
        /\ \A i \in 1..Len(ld.nodes) :
             LET u == mem.th[ld.nodes[i]]  e == In.thunks[i] IN u.num = e.num /\ u.text = TextOf(In, e)

GraphInv == PlainMem /\ WrittenInv /\ WriterGraph /\ LoaderGraph

-----------------------------------------------------------------------------
(* Texts are found where they were put *)

\* At the offset of a text of a blob is that text. The lengths tell texts
\* apart that begin at the same offset: all but one of them are empty.
LEMMA TextFound ==
    ASSUME NEW blob, Measured(blob), \A j \in 1..Len(blob) : Plain(blob[j]), NEW i \in 1..Len(blob)
    PROVE  TextAt(blob, Ends(blob)[i - 1], blob[i].len) = blob[i]
<1>. DEFINE n == Len(blob)
            here == {j \in DOMAIN blob : Ends(blob)[j - 1] = Ends(blob)[i - 1] /\ blob[j].len = blob[i].len}
            k == CHOOSE j \in here : TRUE
<1>1. DOMAIN blob = 1..n /\ n \in Nat /\ \A j \in 1..n : blob[j].len \in Nat
  BY SequenceProperties DEF Measured
<1>2. i \in here
  BY <1>1
<1>3. TextAt(blob, Ends(blob)[i - 1], blob[i].len) = blob[k]
  BY <1>2 DEF TextAt
<1>4. k \in 1..n /\ Ends(blob)[k - 1] = Ends(blob)[i - 1] /\ blob[k].len = blob[i].len
  <2>1. k \in here
    BY <1>2
  <2>. QED  BY <1>1, <2>1
<1>. HIDE DEF k, here
<1>5. CASE blob[i].len = 0
  <2>1. Plain(blob[k]) /\ Plain(blob[i])
    BY <1>4
  <2>2. blob[k] = NoText /\ blob[i] = NoText
    BY <1>4, <1>5, <2>1 DEF Plain
  <2>. QED  BY <1>3, <2>2
<1>6. CASE blob[i].len # 0
  <2>. DEFINE end == [j \in 1..n |-> Ends(blob)[j - 1]]
  <2>1. \A j \in 1..n : end[j] \in Nat
    BY EndsGrow
  <2>2. \A j, m \in 1..n : j < m => end[j] + blob[j].len <= end[m]
    BY EndsGrow
  <2>3. end[k] = end[i]
    BY <1>4
  <2>. HIDE DEF end, n
  <2>4. ~ (k < i) /\ ~ (i < k)
    BY <1>1, <1>4, <1>6, <2>1, <2>2, <2>3 DEF n
  <2>5. k = i
    BY <1>4, <2>4 DEF n
  <2>. QED  BY <1>3, <2>5
<1>. QED  BY <1>3, <1>5, <1>6

\* The offsets a blob is written with lead to its texts.
LEMMA PlacedFound ==
    ASSUME NEW pool, IsPool(pool), Measured(Texts(pool)), PlainPool(pool)
    PROVE  Found(Placed(pool), Texts(pool))
<1>. DEFINE n == Len(pool)
            blob == Texts(pool)
            new == Placed(pool)
<1>1. n \in Nat /\ DOMAIN pool = 1..n
  BY SequenceProperties DEF IsPool
<1>2. Len(new) = n /\ \A i \in 1..n : new[i].text = pool[i].text /\ new[i].off = Ends(blob)[i - 1]
  <2>1. new = [i \in 1..n |-> [pool[i] EXCEPT !.off = Ends(blob)[i - 1]]]
    BY <1>1 DEF Placed
  <2>2. \A i \in 1..n : DOMAIN pool[i] = {"text", "off"}
    BY DEF IsPool
  <2>3. Len(new) = n
    BY <1>1, <2>1
  <2>. QED  BY <2>1, <2>2, <2>3
<1>3. Len(blob) = n /\ \A i \in 1..n : blob[i] = pool[i].text
  BY TextsOf
<1>. HIDE DEF new, blob
<1>4. \A i \in 1..n : TextAt(blob, Ends(blob)[i - 1], blob[i].len) = blob[i]
  BY <1>3, TextFound DEF blob, PlainPool
<1>5. Found(new, blob)
  BY <1>2, <1>3, <1>4 DEF Found
<1>. QED  BY <1>5 DEF new, blob

\* A text pooled when the blob has been written is none of its texts.
LEMMA PooledFound ==
    ASSUME NEW pool, NEW blob, Fits(pool, blob), Found(pool, blob), NEW text
    PROVE  Found(Pooled(pool, text), blob)
<1>. DEFINE entry == [text |-> text, off |-> 0]
            longer == Append(pool, entry)
<1>1. Len(pool) \in Nat /\ DOMAIN pool = 1..Len(pool) /\ Sequence(pool)
  BY SequenceProperties DEF IsPool, Fits
<1>2. CASE \E i \in DOMAIN pool : pool[i].text = text
  BY <1>2 DEF Pooled
<1>3. CASE ~ \E i \in DOMAIN pool : pool[i].text = text
  <2>1. Pooled(pool, text) = longer
    BY <1>3 DEF Pooled
  <2>2. text \notin Range(blob)
    BY <1>1, <1>3 DEF Fits, TextsIn
  <2>3. entry.text = text
    OBVIOUS
  <2>. HIDE DEF entry
  <2>4. /\ Len(longer) = Len(pool) + 1 /\ longer[Len(pool) + 1] = entry
        /\ \A i \in 1..Len(pool) : longer[i] = pool[i]
    BY <1>1, ElementAppended, RangeAppended
  <2>. HIDE DEF longer
  <2>5. ASSUME NEW i \in 1..Len(longer), longer[i].text \in Range(blob)
        PROVE  TextAt(blob, longer[i].off, longer[i].text.len) = longer[i].text
    <3>1. i \in 1..Len(pool)
      BY <1>1, <2>2, <2>3, <2>4, <2>5
    <3>. QED  BY <2>4, <2>5, <3>1 DEF Found
  <2>. QED  BY <2>1, <2>5 DEF Found
<1>. QED  BY <1>2, <1>3

LEMMA PooledPlain ==
    ASSUME NEW pool, IsPool(pool), PlainPool(pool), NEW text, Plain(text)
    PROVE  PlainPool(Pooled(pool, text))
<1>1. TextsIn(Pooled(pool, text)) = TextsIn(pool) \cup {text}
  BY PooledHas
<1>2. \A t \in TextsIn(pool) : Plain(t)
  BY DEF PlainPool, TextsIn
<1>3. \A t \in TextsIn(Pooled(pool, text)) : Plain(t)
  BY <1>1, <1>2
<1>. QED  BY <1>3 DEF PlainPool, TextsIn

\* What the writer notes of a text of the blob leads to it.
LEMMA OffFound ==
    ASSUME NEW pool, NEW blob, Fits(pool, blob), Found(pool, blob), NEW text \in Range(blob)
    PROVE  TextAt(blob, OffOf(pool, text), text.len) = text
<1>1. DOMAIN pool = 1..Len(pool)
  BY SequenceProperties DEF Fits, IsPool
<1>2. \E i \in DOMAIN pool : pool[i].text = text
  BY <1>1 DEF Fits, TextsIn
<1>3. PICK i \in DOMAIN pool : pool[i].text = text /\ OffOf(pool, text) = pool[i].off
  BY <1>2 DEF OffOf
<1>. QED  BY <1>1, <1>3 DEF Found

-----------------------------------------------------------------------------
(* The writer keeps the second invariant *)

LEMMA GraphInvInit == Init => GraphInv
<1>. SUFFICES ASSUME Init PROVE GraphInv
  OBVIOUS
<1>1. PICK p \in Programs : mem = Memory(p.th, p.pat)
  BY DEF Init
<1>2. p.th \in Seq(ThunkRecords) /\ \A a \in DOMAIN p.th : WellFormed(p.th, p.th[a])
  BY ProgramsAssumption
<1>3. mem.th = p.th
  BY <1>1 DEF Memory
<1>4. PlainMem
  BY <1>2, <1>3 DEF PlainMem, PlainThunk, Plain, WellFormed
<1>5. WrittenInv
  BY DEF Init, WrittenInv
<1>. QED  BY <1>4, <1>5 DEF Init, GraphInv, WriterGraph, LoaderGraph

\* An operation that ends without a file leaves all as it is.
LEMMA IdleKeepsGraph ==
    ASSUME GraphInv, op' \in {"idle", "fault"}, UNCHANGED <<mem, disk, wrote>>
    PROVE  GraphInv'
BY DEF GraphInv, PlainMem, WrittenInv, WriterGraph, LoaderGraph

\* A step that fills a file whose write is not complete.
LEMMA PartFills ==
    ASSUME ImageInv, op \in {"collect", "blobs", "patterns", "thunks", "table"}, NEW file,
           Fills(file), wr'.file = wr.file
    PROVE  Out' = file
BY DEF ImageInv, WriterInv, Records, Fills, Out

LEMMA PartKeepsGraph ==
    ASSUME ImageInv, GraphInv, op \in {"collect", "blobs", "patterns", "thunks", "table"}, NEW file,
           Fills(file), UNCHANGED <<mem, wrote>>, op' # "nodes", WriterGraph'
    PROVE  GraphInv'
<1>1. wr.file \in Files /\ wrote[wr.file] = NoGraph /\ DOMAIN disk = Files
  BY DEF ImageInv, WriterInv, Records
<1>2. \A f \in Files : f # wr.file => disk'[f] = disk[f]
  BY <1>1 DEF Fills
<1>3. WrittenInv'
  BY <1>1, <1>2 DEF GraphInv, WrittenInv
<1>. QED  BY <1>3 DEF GraphInv, PlainMem, LoaderGraph

LEMMA WriteKeepsGraph ==
    ASSUME ImageInv, GraphInv, NEW f \in Files, NEW i \in DOMAIN held, Write(f, held[i])
    PROVE  GraphInv'
<1>. DEFINE roots == held[i]
            N == Len(mem.th)
            nodes == Numbered(<<>>, roots)
<1>1. /\ op' = "collect" /\ wr' = [NoWriter EXCEPT !.file = f, !.roots = roots, !.nodes = nodes]
      /\ disk' = [disk EXCEPT ![f] = EmptyFile] /\ wrote' = [wrote EXCEPT ![f] = NoGraph] /\ mem' = mem
  BY DEF Write
<1>2. Records /\ MemInv /\ WrittenInv /\ PlainMem
  BY DEF ImageInv, GraphInv
<1>3. Distinct(nodes)
  <2>1. Sequence(held) /\ i \in 1..Len(held) /\ N \in Nat
    BY <1>2, SequenceProperties DEF MemInv
  <2>2. roots \in Seq((1..N) \cup {NULL})
    <3>1. (1..N) \cup {NULL} = 0..N
      BY <2>1 DEF NULL
    <3>2. roots \in Seq(0..N)
      BY <1>2, <2>1 DEF MemInv
    <3>. QED  BY <3>1, <3>2
  <2>3. <<>> \in Seq(1..N) /\ Distinct(<<>>)
    BY EmptySeq DEF Distinct
  <2>. HIDE DEF N, roots
  <2>. QED  BY <2>2, <2>3, NumberedHas
<1>. HIDE DEF nodes
<1>4. wr'.nodes = nodes /\ wr'.spool = <<>> /\ wr'.ypool = <<>>
  BY <1>1 DEF NoWriter
<1>5. PlainPool(<<>>)
  BY EmptySeq DEF PlainPool
<1>6. WriterGraph'
  BY <1>1, <1>3, <1>4, <1>5 DEF WriterGraph
<1>7. WrittenInv'
  <2>1. wrote'[f] = NoGraph /\ \A g \in Files : g # f => wrote'[g] = wrote[g] /\ disk'[g] = disk[g]
    BY <1>1, <1>2 DEF Records
  <2>. QED  BY <1>2, <2>1 DEF WrittenInv
<1>. QED  BY <1>1, <1>2, <1>6, <1>7 DEF GraphInv, PlainMem, LoaderGraph

LEMMA CollectKeepsGraph ==
    ASSUME ImageInv, GraphInv, Collect
    PROVE  GraphInv'
<1>. DEFINE i == wr.qh + 1
            t == Turn(i)
            N == Len(mem.th)
            nodes == Numbered(wr.nodes, t.kids)
            spool == IF t.kind \in StringKinds THEN Pooled(wr.spool, t.text) ELSE wr.spool
            ypool == IF t.kind \in SymbolKinds THEN Pooled(wr.ypool, t.text) ELSE wr.ypool
<1>1. /\ Records /\ MemInv /\ WriterInv /\ Collecting /\ op = "collect"
      /\ Distinct(wr.nodes) /\ PlainPool(wr.spool) /\ PlainPool(wr.ypool) /\ PlainMem /\ WrittenInv
  BY DEF ImageInv, GraphInv, WriterGraph, Collect
<1>2. /\ op' = "collect" /\ UNCHANGED <<mem, disk, wrote>>
      /\ wr'.nodes = nodes /\ wr'.spool = spool /\ wr'.ypool = ypool
  BY <1>1 DEF Collect, Records, Turn
<1>3. wr.nodes \in Seq(1..N) /\ i \in 1..Len(wr.nodes)
  <2>1. wr.nodes \in Seq(1..N) /\ wr.qh \in 0..Len(wr.nodes) /\ wr.qh < Len(wr.nodes)
    BY <1>1 DEF WriterInv, Collect
  <2>. QED  BY <2>1, LenProperties
<1>4. GoodThunk(N, t) /\ N \in Nat
  BY <1>1, <1>3, TurnIsThunk
<1>5. Plain(t.text)
  <2>1. wr.nodes[i] \in 1..N
    BY <1>3, ElementOfSeq
  <2>. QED  BY <1>1, <2>1 DEF PlainMem, PlainThunk, Turn
<1>6. Distinct(nodes)
  <2>1. t.kids \in Seq((1..N) \cup {NULL})
    <3>1. (1..N) \cup {NULL} = 0..N
      BY <1>4 DEF NULL
    <3>. QED  BY <1>4, <3>1 DEF GoodThunk
  <2>. HIDE DEF t, N
  <2>. QED  BY <1>1, <1>3, <2>1, NumberedHas
<1>. HIDE DEF nodes, t
<1>7. PlainPool(spool) /\ PlainPool(ypool)
  BY <1>1, <1>5, PooledPlain DEF Collecting
<1>. HIDE DEF spool, ypool
<1>8. WriterGraph'
  BY <1>2, <1>6, <1>7 DEF WriterGraph
<1>. QED  BY <1>1, <1>2, <1>8 DEF GraphInv, PlainMem, WrittenInv, LoaderGraph

LEMMA HeaderKeepsGraph ==
    ASSUME ImageInv, GraphInv, WriteHeader
    PROVE  GraphInv'
<1>1. /\ op = "collect" /\ op' = "blobs" /\ UNCHANGED <<mem, wr, wrote>>
      /\ \E file : Fills(file)
  BY DEF WriteHeader, Part, Fills
<1>2. WriterGraph'
  BY <1>1 DEF GraphInv, WriterGraph
<1>. QED  BY <1>1, <1>2, PartKeepsGraph

LEMMA BlobsKeepGraph ==
    ASSUME ImageInv, GraphInv, WriteBlobs
    PROVE  GraphInv'
<1>. DEFINE s == Placed(wr.spool)
            y == Placed(wr.ypool)
            file == [Out EXCEPT !.strings = Texts(s), !.symbols = Texts(y)]
            locals == [wr EXCEPT !.spool = s, !.ypool = y, !.next = 1]
<1>1. /\ Records /\ WriterInv /\ Collecting /\ op = "blobs"
      /\ Distinct(wr.nodes) /\ PlainPool(wr.spool) /\ PlainPool(wr.ypool)
      /\ Out = [EmptyFile EXCEPT !.head = TRUE]
  BY DEF ImageInv, GraphInv, WriterGraph, WriteBlobs, Part, Collecting
<1>2. op' = "patterns" /\ UNCHANGED <<mem, wrote>> /\ wr' = locals /\ Fills(file)
  BY DEF Fills, WriteBlobs, Part
<1>3. /\ Texts(s) = Texts(wr.spool) /\ Found(s, Texts(wr.spool))
      /\ Texts(y) = Texts(wr.ypool) /\ Found(y, Texts(wr.ypool))
  BY <1>1, PlacedFits, PlacedFound DEF Collecting
<1>. HIDE DEF s, y
<1>4. file.strings = Texts(wr.spool) /\ file.symbols = Texts(wr.ypool) /\ file.thunks = <<>>
  BY <1>1, <1>3 DEF EmptyFile
<1>5. locals.spool = s /\ locals.ypool = y /\ locals.file = wr.file /\ locals.nodes = wr.nodes
  BY <1>1 DEF Records
<1>. HIDE DEF file, locals
<1>6. Out' = file
  BY <1>1, <1>2, <1>5, PartFills
<1>7. Entered'
  BY <1>4, <1>6, EmptySeq DEF Entered
<1>8. WriterGraph'
  BY <1>1, <1>2, <1>3, <1>4, <1>5, <1>6, <1>7 DEF WriterGraph
<1>. QED  BY <1>1, <1>2, <1>8, PartKeepsGraph

\* An entry is one of a thunk whatever else is in the file but blobs.
LEMMA EntryStays ==
    ASSUME NEW f, NEW g, NEW e, NEW t, NEW o, IsEntry(f, e, t, o), g.strings = f.strings, g.symbols = f.symbols
    PROVE  IsEntry(g, e, t, o)
BY DEF IsEntry, TextOf

LEMMA EnteredStays ==
    ASSUME Entered, Out'.strings = Out.strings, Out'.symbols = Out.symbols, Out'.thunks = Out.thunks,
           mem' = mem, wr'.nodes = wr.nodes
    PROVE  Entered'
BY EntryStays DEF Entered, Turn

LEMMA PatternKeepsGraph ==
    ASSUME ImageInv, GraphInv, WritePattern
    PROVE  GraphInv'
<1>. DEFINE p == mem.pat[wr.params[wr.next]]
            pools == PatternPools(p)
            file == [Out EXCEPT !.patterns = Append(@, PatternEntry(p, pools))]
<1>1. CASE WriteFails
  BY <1>1, IdleKeepsGraph DEF WriteFails
<1>2. CASE ~ WriteFails
  <2>1. /\ Records /\ WriterInv /\ Filling /\ op = "patterns"
        /\ Distinct(wr.nodes) /\ Found(wr.spool, Out.strings) /\ Found(wr.ypool, Out.symbols) /\ Entered
    BY DEF ImageInv, GraphInv, WriterGraph, WritePattern
  <2>2. op' = "patterns" /\ UNCHANGED <<mem, wrote>> /\ wr' = pools /\ Fills(file)
    BY <1>2 DEF Fills, WritePattern, Part
  <2>3. DOMAIN Out = FileFields
    BY <2>1 DEF Records, WriterInv, Out
  <2>4. file.strings = Out.strings /\ file.symbols = Out.symbols /\ file.thunks = Out.thunks
    BY <2>3 DEF FileFields
  <2>5. /\ pools.file = wr.file /\ pools.nodes = wr.nodes
        /\ pools.spool = wr.spool \/ \E t : pools.spool = Pooled(wr.spool, t)
        /\ pools.ypool = wr.ypool \/ \E t : pools.ypool = Pooled(wr.ypool, t)
    BY <2>1 DEF Records, PatternPools
  <2>. HIDE DEF file, pools
  <2>6. Out' = file
    BY <2>1, <2>2, <2>5, PartFills
  <2>7. Found(wr'.spool, Out'.strings) /\ Found(wr'.ypool, Out'.symbols)
    <3>1. Fits(wr.spool, Out.strings) /\ Fits(wr.ypool, Out.symbols)
      BY <2>1 DEF Filling
    <3>2. \A t : Found(Pooled(wr.spool, t), Out.strings) /\ Found(Pooled(wr.ypool, t), Out.symbols)
      BY <2>1, <3>1, PooledFound
    <3>. QED  BY <2>1, <2>2, <2>4, <2>5, <2>6, <3>2
  <2>8. Entered'
    BY <2>1, <2>2, <2>4, <2>5, <2>6, EnteredStays
  <2>9. WriterGraph'
    BY <2>1, <2>2, <2>5, <2>7, <2>8 DEF WriterGraph
  <2>. QED  BY <2>1, <2>2, <2>9, PartKeepsGraph
<1>. QED  BY <1>1, <1>2

LEMMA PatternsEndKeepsGraph ==
    ASSUME ImageInv, GraphInv, PatternsEnd
    PROVE  GraphInv'
<1>. DEFINE locals == [wr EXCEPT !.next = 1]
<1>1. /\ Records /\ op = "patterns"
      /\ Distinct(wr.nodes) /\ Found(wr.spool, Out.strings) /\ Found(wr.ypool, Out.symbols) /\ Entered
  BY DEF ImageInv, GraphInv, WriterGraph, PatternsEnd, Part
<1>2. op' = "thunks" /\ UNCHANGED <<mem, wrote>> /\ wr' = locals /\ Fills(Out)
  BY DEF Fills, PatternsEnd, Part
<1>3. /\ locals.file = wr.file /\ locals.nodes = wr.nodes
      /\ locals.spool = wr.spool /\ locals.ypool = wr.ypool
  BY <1>1 DEF Records
<1>. HIDE DEF locals
<1>4. Out' = Out
  BY <1>1, <1>2, <1>3, PartFills
<1>5. Entered'
  BY <1>1, <1>2, <1>3, <1>4, EnteredStays
<1>6. WriterGraph'
  BY <1>1, <1>2, <1>3, <1>4, <1>5 DEF WriterGraph
<1>. QED  BY <1>1, <1>2, <1>6, PartKeepsGraph

\* The entry that is written of a thunk is one of that thunk.
LEMMA EntryIsEntry ==
    ASSUME ImageInv, GraphInv, op = "thunks", NEW i \in 1..Len(wr.nodes), NULL \notin Range(Turn(i).kids)
    PROVE  IsEntry(Out, ThunkEntry(Turn(i)), Turn(i), wr.nodes)
<1>. DEFINE t == Turn(i)
            e == ThunkEntry(t)
            N == Len(mem.th)
<1>1. /\ Records /\ MemInv /\ WriterInv /\ Filling /\ PlainMem
      /\ Found(wr.spool, Out.strings) /\ Found(wr.ypool, Out.symbols)
  BY DEF ImageInv, GraphInv, WriterGraph
<1>2. GoodThunk(N, t)
  BY <1>1, TurnIsThunk
<1>3. /\ Turned(t, wr.nodes, wr.params) /\ TextKept(t, Range(Out.strings), Range(Out.symbols))
      /\ Fits(wr.spool, Out.strings) /\ Fits(wr.ypool, Out.symbols)
  BY <1>1 DEF WriterInv, Filling
<1>4. PlainThunk(t)
  <2>1. wr.nodes[i] \in 1..N
    BY <1>1, ElementOfSeq DEF WriterInv
  <2>. QED  BY <1>1, <2>1 DEF PlainMem, Turn
<1>5. NULL \notin Range(t.kids)
  OBVIOUS
<1>. HIDE DEF t, N
<1>6. /\ e.kind = SavedKind(t.kind) /\ e.num = t.num /\ e.len = t.text.len
      /\ e.kids = IdsOf(wr.nodes, t.kids)
      /\ t.kind \in StringKinds => e.off = OffOf(wr.spool, t.text)
      /\ t.kind \in SymbolKinds => e.off = OffOf(wr.ypool, t.text)
  BY DEF ThunkEntry, StringKinds, SymbolKinds
<1>7. /\ e.kind \in StringKinds <=> t.kind \in StringKinds
      /\ e.kind \in SymbolKinds <=> t.kind \in SymbolKinds
      /\ t.kind \in TextKinds => t.kind \in StringKinds \cup SymbolKinds
      /\ ~ (t.kind \in StringKinds /\ t.kind \in SymbolKinds)
  BY <1>6 DEF SavedKind, StringKinds, SymbolKinds, TextKinds
<1>. HIDE DEF e
<1>8. TextOf(Out, e) = t.text
  <2>1. CASE t.kind \in StringKinds
    <3>1. t.text \in Range(Out.strings)
      BY <1>3, <2>1 DEF TextKept
    <3>2. TextAt(Out.strings, OffOf(wr.spool, t.text), t.text.len) = t.text
      BY <1>1, <1>3, <3>1, OffFound
    <3>. QED  BY <1>6, <1>7, <2>1, <3>2 DEF TextOf
  <2>2. CASE t.kind \in SymbolKinds
    <3>1. t.text \in Range(Out.symbols)
      BY <1>3, <2>2 DEF TextKept
    <3>2. TextAt(Out.symbols, OffOf(wr.ypool, t.text), t.text.len) = t.text
      BY <1>1, <1>3, <3>1, OffFound
    <3>. QED  BY <1>6, <1>7, <2>2, <3>2 DEF TextOf
  <2>3. CASE t.kind \notin StringKinds /\ t.kind \notin SymbolKinds
    BY <1>4, <1>7, <2>3 DEF TextOf, PlainThunk
  <2>. QED  BY <2>1, <2>2, <2>3
<1>9. Sequence(t.kids) /\ Range(t.kids) \subseteq Range(wr.nodes)
  BY <1>2, <1>3, <1>5, SequenceOf DEF GoodThunk, Turned
<1>10. IsEntry(Out, e, t, wr.nodes)
  BY <1>4, <1>6, <1>8, <1>9 DEF IsEntry, PlainThunk
<1>. QED  BY <1>10 DEF e, t

LEMMA ThunkKeepsGraph ==
    ASSUME ImageInv, GraphInv, WriteThunk
    PROVE  GraphInv'
<1>. DEFINE t == Turn(wr.next)
            e == ThunkEntry(t)
            file == [Out EXCEPT !.thunks = Append(@, e)]
            locals == [wr EXCEPT !.next = wr.next + 1]
<1>1. CASE WriteFails
  BY <1>1, IdleKeepsGraph DEF WriteFails
<1>2. CASE ~ WriteFails
  <2>1. /\ Records /\ WriterInv /\ Filling /\ op = "thunks" /\ wr.next <= Len(wr.nodes)
        /\ Distinct(wr.nodes) /\ Found(wr.spool, Out.strings) /\ Found(wr.ypool, Out.symbols) /\ Entered
    BY DEF ImageInv, GraphInv, WriterGraph, WriteThunk
  <2>2. /\ op' = "thunks" /\ UNCHANGED <<mem, wrote>> /\ wr' = locals
        /\ Fills(file) /\ NULL \notin Range(t.kids)
    BY <1>2, <2>1 DEF WriteThunk, Part, Fills, Turn
  <2>3. wr.next \in 1..Len(wr.nodes) /\ wr.next = Len(Out.thunks) + 1
    BY <2>1, LenProperties DEF WriterInv, Filling
  <2>4. IsEntry(Out, e, t, wr.nodes)
    BY <2>1, <2>2, <2>3, EntryIsEntry
  <2>5. DOMAIN Out = FileFields
    BY <2>1 DEF Records, WriterInv, Out
  <2>. HIDE DEF e
  <2>6. file.strings = Out.strings /\ file.symbols = Out.symbols /\ file.thunks = Append(Out.thunks, e)
    BY <2>5 DEF FileFields
  <2>7. /\ locals.file = wr.file /\ locals.nodes = wr.nodes
        /\ locals.spool = wr.spool /\ locals.ypool = wr.ypool
    BY <2>1 DEF Records
  <2>. HIDE DEF file, locals
  <2>8. Out' = file
    BY <2>1, <2>2, <2>7, PartFills
  <2>9. Entered'
    <3>. DEFINE old == Out.thunks
                longer == Append(old, e)
    <3>1. Sequence(old)
      BY <2>1 DEF Filling, GoodEntries
    <3>2. /\ Len(old) \in Nat /\ Len(longer) = Len(old) + 1 /\ longer[Len(old) + 1] = e
          /\ \A i \in 1..Len(old) : longer[i] = old[i]
      BY <3>1, SequenceProperties, ElementAppended, RangeAppended
    <3>3. \A i \in 1..Len(old) : IsEntry(Out, old[i], Turn(i), wr.nodes)
      BY <2>1 DEF Entered
    <3>4. \A i : Turn(i)' = Turn(i)
      BY <2>2, <2>7 DEF Turn
    <3>5. wr.next = Len(old) + 1
      BY <2>3
    <3>6. Out'.thunks = longer
      BY <2>6, <2>8
    <3>. HIDE DEF longer, old
    <3>7. ASSUME NEW i \in 1..Len(longer) PROVE IsEntry(Out, longer[i], Turn(i), wr.nodes)
      <4>1. CASE i = Len(old) + 1
        BY <2>4, <3>2, <3>5, <4>1
      <4>2. CASE i # Len(old) + 1
        <5>1. i \in 1..Len(old)
          BY <3>2, <4>2
        <5>. QED  BY <3>2, <3>3, <5>1
      <4>. QED  BY <4>1, <4>2
    <3>8. \A i \in 1..Len(longer) : IsEntry(Out', longer[i], Turn(i), wr.nodes)
      BY <2>6, <2>8, <3>7, EntryStays
    <3>. QED  BY <2>2, <2>7, <3>4, <3>6, <3>8 DEF Entered
  <2>10. WriterGraph'
    BY <2>1, <2>2, <2>6, <2>7, <2>8, <2>9 DEF WriterGraph
  <2>. QED  BY <2>1, <2>2, <2>10, PartKeepsGraph
<1>. QED  BY <1>1, <1>2

LEMMA RootsKeepGraph ==
    ASSUME ImageInv, GraphInv, WriteRoots
    PROVE  GraphInv'
<1>. DEFINE roots == IdsOf(wr.nodes, wr.roots)
            file == [Out EXCEPT !.roots = roots]
            locals == [wr EXCEPT !.next = 1]
<1>1. CASE WriteFails
  BY <1>1, IdleKeepsGraph DEF WriteFails
<1>2. CASE ~ WriteFails
  <2>1. /\ Records /\ WriterInv /\ op = "thunks"
        /\ Distinct(wr.nodes) /\ Found(wr.spool, Out.strings) /\ Found(wr.ypool, Out.symbols) /\ Entered
    BY DEF ImageInv, GraphInv, WriterGraph, WriteRoots
  <2>2. /\ op' = "table" /\ UNCHANGED <<mem, wrote>> /\ wr' = locals
        /\ Fills(file) /\ NULL \notin Range(wr.roots)
    BY <1>2, <2>1 DEF WriteRoots, Part, Fills
  <2>3. DOMAIN Out = FileFields
    BY <2>1 DEF Records, WriterInv, Out
  <2>. HIDE DEF roots
  <2>4. /\ file.strings = Out.strings /\ file.symbols = Out.symbols /\ file.thunks = Out.thunks
        /\ file.roots = roots
    BY <2>3 DEF FileFields
  <2>5. /\ locals.file = wr.file /\ locals.nodes = wr.nodes /\ locals.roots = wr.roots
        /\ locals.spool = wr.spool /\ locals.ypool = wr.ypool
    BY <2>1 DEF Records
  <2>. HIDE DEF file, locals
  <2>6. Out' = file
    BY <2>1, <2>2, <2>5, PartFills
  <2>7. Entered'
    BY <2>1, <2>2, <2>4, <2>5, <2>6, EnteredStays
  <2>8. Range(wr.roots) \subseteq Range(wr.nodes)
    BY <2>1, <2>2 DEF WriterInv
  <2>9. WriterGraph'
    BY <2>1, <2>2, <2>4, <2>5, <2>6, <2>7, <2>8 DEF WriterGraph, roots
  <2>. QED  BY <2>1, <2>2, <2>9, PartKeepsGraph
<1>. QED  BY <1>1, <1>2

LEMMA TableKeepsGraph ==
    ASSUME ImageInv, GraphInv, WriteTable
    PROVE  GraphInv'
<1>. DEFINE file == [Out EXCEPT !.table = @ \cup {Sections[wr.next]}]
            locals == [wr EXCEPT !.next = wr.next + 1]
<1>1. /\ Records /\ WriterInv /\ op = "table"
      /\ Distinct(wr.nodes) /\ Found(wr.spool, Out.strings) /\ Found(wr.ypool, Out.symbols) /\ Entered
      /\ Range(wr.roots) \subseteq Range(wr.nodes) /\ Out.roots = IdsOf(wr.nodes, wr.roots)
  BY DEF ImageInv, GraphInv, WriterGraph, WriteTable, Part
<1>2. op' = "table" /\ UNCHANGED <<mem, wrote>> /\ wr' = locals /\ Fills(file)
  BY <1>1 DEF WriteTable, Part, Fills
<1>3. DOMAIN Out = FileFields
  BY <1>1 DEF Records, WriterInv, Out
<1>4. /\ file.strings = Out.strings /\ file.symbols = Out.symbols /\ file.thunks = Out.thunks
      /\ file.roots = Out.roots
  BY <1>3 DEF FileFields
<1>5. /\ locals.file = wr.file /\ locals.nodes = wr.nodes /\ locals.roots = wr.roots
      /\ locals.spool = wr.spool /\ locals.ypool = wr.ypool
  BY <1>1 DEF Records
<1>. HIDE DEF file, locals
<1>6. Out' = file
  BY <1>1, <1>2, <1>5, PartFills
<1>7. Entered'
  BY <1>1, <1>2, <1>4, <1>5, <1>6, EnteredStays
<1>8. WriterGraph'
  BY <1>1, <1>2, <1>4, <1>5, <1>6, <1>7 DEF WriterGraph
<1>. QED  BY <1>1, <1>2, <1>8, PartKeepsGraph

\* The file that is completed is the image of the graph that was written.
LEMMA DoneKeepsGraph ==
    ASSUME ImageInv, GraphInv, WriteDone
    PROVE  GraphInv'
<1>. DEFINE graph == [mem |-> mem, roots |-> wr.roots]
            file == [Out EXCEPT !.table = @ \cup {Last(Sections)}]
<1>1. /\ Records /\ MemInv /\ WriterInv /\ Filling /\ op = "table" /\ WrittenInv /\ PlainMem
      /\ Distinct(wr.nodes) /\ Entered
      /\ Range(wr.roots) \subseteq Range(wr.nodes) /\ Out.roots = IdsOf(wr.nodes, wr.roots)
  BY DEF ImageInv, GraphInv, WriterGraph, WriteDone
<1>2. /\ op' = "idle" /\ mem' = mem
      /\ disk' = [disk EXCEPT ![wr.file] = file] /\ wrote' = [wrote EXCEPT ![wr.file] = <<graph>>]
  BY DEF WriteDone
<1>3. DOMAIN Out = FileFields
  BY <1>1 DEF Records, WriterInv, Out
<1>4. /\ file.strings = Out.strings /\ file.symbols = Out.symbols /\ file.thunks = Out.thunks
      /\ file.roots = Out.roots
  BY <1>3 DEF FileFields
<1>5. graph.mem = mem /\ graph.roots = wr.roots /\ <<graph>>[1] = graph
  OBVIOUS
<1>. HIDE DEF file, graph
<1>6. /\ wr.file \in Files /\ disk'[wr.file] = file /\ wrote'[wr.file] = <<graph>>
      /\ \A g \in Files : g # wr.file => disk'[g] = disk[g] /\ wrote'[g] = wrote[g]
  BY <1>1, <1>2 DEF Records, WriterInv
<1>7. IsImage(wr.nodes, file, graph)
  <2>1. /\ Sequence(mem.th) /\ wr.nodes \in Seq(1..Len(mem.th)) /\ Sequence(wr.roots)
        /\ Len(Out.thunks) = Len(wr.nodes)
    BY <1>1 DEF MemInv, WriterInv, Filling
  <2>2. \A i \in 1..Len(wr.nodes) : IsEntry(Out, Out.thunks[i], mem.th[wr.nodes[i]], wr.nodes)
    BY <1>1, <2>1 DEF Entered, Turn
  <2>3. \A i \in 1..Len(wr.nodes) : IsEntry(file, Out.thunks[i], mem.th[wr.nodes[i]], wr.nodes)
    BY <1>4, <2>2, EntryStays
  <2>. QED  BY <1>1, <1>4, <1>5, <2>1, <2>3 DEF IsImage
<1>8. WrittenInv'
  BY <1>1, <1>5, <1>6, <1>7 DEF WrittenInv
<1>. QED  BY <1>1, <1>2, <1>8 DEF GraphInv, PlainMem, WriterGraph, LoaderGraph

-----------------------------------------------------------------------------
(* The loader keeps the second invariant *)

LEMMA LoadKeepsGraph ==
    ASSUME ImageInv, GraphInv, NEW f \in Files, Load(f) \/ LoadRefused(f)
    PROVE  GraphInv'
<1>1. PlainMem /\ WrittenInv /\ UNCHANGED <<mem, disk, wrote>>
  BY DEF GraphInv, Load, LoadRefused
<1>2. CASE Load(f)
  <2>1. op' = "nodes" /\ ld' = [NoLoader EXCEPT !.file = f]
    BY <1>2 DEF Load
  <2>2. ld'.nodes = <<>> /\ Len(<<>>) = 0
    BY <2>1, EmptySeq DEF NoLoader
  <2>3. Distinct(ld'.nodes)
    BY <2>2 DEF Distinct
  <2>4. LoaderGraph'
    BY <2>2, <2>3 DEF LoaderGraph
  <2>. QED  BY <1>1, <2>1, <2>4 DEF GraphInv, PlainMem, WrittenInv, WriterGraph
<1>3. CASE LoadRefused(f)
  <2>1. op' = "idle"
    BY <1>3 DEF LoadRefused
  <2>. QED  BY <1>1, <2>1, IdleKeepsGraph
<1>. QED  BY <1>2, <1>3

\* The graph an image that is being loaded was written from.
LEMMA LoadedGraph ==
    ASSUME ImageInv, GraphInv, op = "nodes"
    PROVE  \E o : IsImage(o, In, wrote[ld.file][1])
BY LoadedImage DEF LoaderInv, GraphInv, WrittenInv, In

\* The thunk that is made for an entry has the text that was saved.
LEMMA NewThunkPlain ==
    ASSUME ImageInv, GraphInv, op = "nodes", NEW i \in 1..Len(In.thunks), NEW param
    PROVE  LET e == In.thunks[i]  t == NewThunk(e, param) IN
           t.num = e.num /\ t.text = TextOf(In, e) /\ PlainThunk(t)
<1>. DEFINE e == In.thunks[i]
            t == NewThunk(e, param)
            text == TextOf(In, e)
<1>1. PICK o : IsImage(o, In, wrote[ld.file][1])
  BY LoadedGraph
<1>2. \E u : IsEntry(In, e, u, o)
  BY <1>1 DEF IsImage
<1>3. Plain(text)
  BY <1>2 DEF IsEntry
<1>4. e.kind \notin TextKinds => text = NoText
  BY DEF TextOf, TextKinds, StringKinds, SymbolKinds
<1>5. t = [Thunk(e.kind, text, e.num, [k \in DOMAIN e.kids |-> NULL]) EXCEPT
              !.pat = param, !.tgt = IF e.kind = "ref" /\ text \in PreludeNames THEN Prelude ELSE NULL]
  BY DEF NewThunk, TextOf
<1>. HIDE DEF text, e, t
<1>6. t.kind = e.kind /\ t.text = text /\ t.num = e.num
  BY <1>5 DEF Thunk
<1>7. PlainThunk(t)
  BY <1>3, <1>4, <1>6 DEF PlainThunk
<1>. QED  BY <1>6, <1>7 DEF text, e, t

LEMMA MadeKeepsGraph ==
    ASSUME ImageInv, GraphInv, op = "nodes", NEW i \in 1..Len(In.thunks), i = Len(ld.nodes) + 1,
           NEW param, NEW pats, Made(NewThunk(In.thunks[i], param), pats)
    PROVE  GraphInv'
<1>. DEFINE e == In.thunks[i]
            t == NewThunk(e, param)
            N == Len(mem.th)
            nodes == Append(ld.nodes, N + 1)
<1>1. /\ Records /\ MemInv /\ LoaderInv /\ PlainMem /\ WrittenInv
      /\ Distinct(ld.nodes)
      /\ \A j \in 1..Len(ld.nodes) :
           LET u == mem.th[ld.nodes[j]]  d == In.thunks[j] IN u.num = d.num /\ u.text = TextOf(In, d)
  BY LoadedImage DEF GraphInv, LoaderGraph
<1>2. N \in Nat /\ Len(ld.nodes) \in Nat
  BY <1>1, SequenceProperties, LenProperties DEF MemInv, LoaderInv
<1>3. t.num = e.num /\ t.text = TextOf(In, e) /\ PlainThunk(t)
  BY NewThunkPlain
<1>4. /\ mem' = Memory(Append(mem.th, t), pats)
      /\ ld' = [ld EXCEPT !.nodes = nodes]
      /\ UNCHANGED <<held, disk, op, wr, wrote>>
  BY DEF Made
<1>5. GoodThunk(N + 1, t)
  <2>1. \A n \in Nat : GoodThunk(n, t)
    BY NewThunkGood
  <2>. HIDE DEF t, N
  <2>. QED  BY <1>2, <2>1
<1>. HIDE DEF t, e
<1>6. mem'.th = Append(mem.th, t) /\ ld'.file = ld.file /\ ld'.nodes = nodes
  BY <1>1, <1>4 DEF Memory, Records
<1>7. Len(mem'.th) = N + 1 /\ mem'.th[N + 1] = t /\ \A a \in 1..N : mem'.th[a] = mem.th[a]
  BY <1>1, <1>4, <1>5, <1>6, MoreMemory
<1>8. In' = In
  BY <1>4, <1>6 DEF In
<1>9. PlainMem'
  <2>1. ASSUME NEW a \in 1..(N + 1) PROVE PlainThunk(mem'.th[a])
    <3>1. CASE a = N + 1
      BY <1>3, <1>7, <3>1
    <3>2. CASE a # N + 1
      <4>1. a \in 1..N
        BY <1>2, <3>2
      <4>. QED  BY <1>1, <1>7, <4>1 DEF PlainMem
    <3>. QED  BY <3>1, <3>2
  <2>. QED  BY <1>7, <2>1 DEF PlainMem
<1>10. LoaderGraph'
  <2>1. ld.nodes \in Seq(1..N) /\ Sequence(ld.nodes) /\ \A j \in 1..Len(ld.nodes) : ld.nodes[j] \in 1..N
    BY <1>1, SequenceOf, ElementOfSeq DEF LoaderInv
  <2>2. N + 1 \notin Range(ld.nodes)
    <3>1. Range(ld.nodes) \subseteq 1..N
      BY <2>1, RangeOfSeq
    <3>. QED  BY <1>2, <3>1
  <2>3. /\ Distinct(nodes) /\ Len(nodes) = Len(ld.nodes) + 1
        /\ nodes[Len(ld.nodes) + 1] = N + 1 /\ \A j \in 1..Len(ld.nodes) : nodes[j] = ld.nodes[j]
    BY <1>1, <2>1, <2>2, DistinctAppended, ElementAppended, RangeAppended
  <2>. HIDE DEF nodes
  <2>4. ASSUME NEW j \in 1..Len(nodes)
        PROVE  LET u == mem'.th[nodes[j]]  d == In.thunks[j] IN u.num = d.num /\ u.text = TextOf(In, d)
    <3>1. CASE j = i
      BY <1>3, <1>7, <2>3, <3>1 DEF e
    <3>2. CASE j # i
      <4>1. j \in 1..Len(ld.nodes)
        BY <1>2, <2>3, <3>2
      <4>2. mem'.th[nodes[j]] = mem.th[ld.nodes[j]]
        BY <1>7, <2>1, <2>3, <4>1
      <4>. QED  BY <1>1, <4>1, <4>2
    <3>. QED  BY <3>1, <3>2
  <2>. QED  BY <1>6, <1>8, <2>3, <2>4 DEF LoaderGraph
<1>11. WrittenInv' /\ WriterGraph'
  BY <1>1, <1>4 DEF WrittenInv, WriterGraph
<1>. QED  BY <1>9, <1>10, <1>11 DEF GraphInv

LEMMA LoadThunkKeepsGraph ==
    ASSUME ImageInv, GraphInv, LoadThunk \/ LoadLambda
    PROVE  GraphInv'
<1>1. op = "nodes"
  BY DEF LoadThunk, LoadLambda, Loading
<1>. DEFINE i == Len(ld.nodes) + 1
<1>2. i \in 1..Len(In.thunks)
  <2>1. Len(ld.nodes) \in Nat /\ Len(In.thunks) \in Nat /\ Len(ld.nodes) < Len(In.thunks)
    BY <1>1, LoadedImage, LenProperties DEF LoadThunk, LoadLambda, Loading, LoaderInv
  <2>. QED  BY <2>1
<1>3. CASE op' = "fault" /\ UNCHANGED <<mem, disk, wrote>>
  BY <1>3, IdleKeepsGraph
<1>4. CASE \E param, pats : Made(NewThunk(In.thunks[i], param), pats)
  BY <1>1, <1>2, <1>4, MadeKeepsGraph
<1>. QED  BY <1>3, <1>4 DEF LoadThunk, LoadLambda, Loading

\* The memory in which the thunks of an image have got their children.
LEMMA WiredThunks ==
    ASSUME ImageInv, GraphInv, Wire
    PROVE  LET N == Len(mem.th)  nodes == ld.nodes IN
           /\ N \in Nat /\ Sequence(mem'.th) /\ Len(mem'.th) = N /\ DOMAIN mem'.th = 1..N
           /\ Len(nodes) = Len(In.thunks)
           /\ \A a \in 1..N :
                LET t == mem.th[a]  u == mem'.th[a] IN u.kind = t.kind /\ u.num = t.num /\ u.text = t.text
           /\ \A i \in 1..Len(nodes) :
                LET e == In.thunks[i] IN mem'.th[nodes[i]].kids = [k \in DOMAIN e.kids |-> nodes[e.kids[k]]]
<1>. DEFINE N == Len(mem.th)
            nodes == ld.nodes
            kids(a) == LET e == In.thunks[IdOf(ld.nodes, a)] IN [k \in DOMAIN e.kids |-> ld.nodes[e.kids[k]]]
<1>1. op = "nodes" /\ Len(nodes) = Len(In.thunks)
      /\ mem' = [mem EXCEPT !.th = [a \in DOMAIN mem.th |->
                    IF a \in Range(nodes) THEN [mem.th[a] EXCEPT !.kids = kids(a)] ELSE mem.th[a]]]
  BY DEF Wire, WireTo
<1>2. Records /\ MemInv /\ LoaderInv /\ Distinct(nodes)
  BY <1>1, LoadedImage DEF GraphInv, LoaderGraph
<1>3. N \in Nat /\ DOMAIN mem.th = 1..N
  BY <1>2, SequenceProperties DEF MemInv
<1>4. \A a \in 1..N : DOMAIN mem.th[a] = ThunkFields
  BY <1>2 DEF MemInv, GoodThunk
<1>5. Sequence(nodes) /\ \A i \in 1..Len(nodes) : nodes[i] \in 1..N /\ IdOf(nodes, nodes[i]) = i /\ nodes[i] \in Range(nodes)
  BY <1>2, SequenceOf, ElementOfSeq, IdOfAt, InRange DEF LoaderInv
<1>6. ASSUME NEW i \in 1..Len(nodes) PROVE kids(nodes[i]) = [k \in DOMAIN In.thunks[i].kids |-> nodes[In.thunks[i].kids[k]]]
  BY <1>5
<1>. HIDE DEF kids
<1>7. mem'.th = [a \in 1..N |-> IF a \in Range(nodes) THEN [mem.th[a] EXCEPT !.kids = kids(a)] ELSE mem.th[a]]
  BY <1>1, <1>2, <1>3 DEF Records
<1>8. Sequence(mem'.th) /\ Len(mem'.th) = N /\ DOMAIN mem'.th = 1..N
  <2>. DEFINE S == {mem'.th[a] : a \in 1..N}
  <2>1. mem'.th \in [1..N -> S]
    BY <1>7
  <2>2. DOMAIN mem'.th = 1..N
    BY <1>7
  <2>. HIDE DEF S, N
  <2>3. mem'.th \in Seq(S) /\ Len(mem'.th) = N
    BY <1>3, <2>1, SeqDef, LenProperties
  <2>. QED  BY <2>2, <2>3, SequenceOf
<1>9. ASSUME NEW a \in 1..N
      PROVE  /\ mem'.th[a].kind = mem.th[a].kind /\ mem'.th[a].num = mem.th[a].num
             /\ mem'.th[a].text = mem.th[a].text
             /\ a \in Range(nodes) => mem'.th[a].kids = kids(a)
  <2>1. mem'.th[a] = IF a \in Range(nodes) THEN [mem.th[a] EXCEPT !.kids = kids(a)] ELSE mem.th[a]
    BY <1>7
  <2>. QED  BY <1>4, <2>1 DEF ThunkFields
<1>10. \A i \in 1..Len(nodes) : mem'.th[nodes[i]].kids = [k \in DOMAIN In.thunks[i].kids |-> nodes[In.thunks[i].kids[k]]]
  BY <1>5, <1>6, <1>9
<1>. QED  BY <1>1, <1>3, <1>8, <1>9, <1>10

LEMMA WireKeepsGraph ==
    ASSUME ImageInv, GraphInv, Wire
    PROVE  GraphInv'
<1>1. op' = "idle" /\ UNCHANGED <<disk, wrote>> /\ PlainMem /\ WrittenInv
  BY DEF Wire, WireTo, GraphInv
<1>2. /\ Len(mem'.th) = Len(mem.th)
      /\ \A a \in 1..Len(mem.th) : mem'.th[a].kind = mem.th[a].kind /\ mem'.th[a].text = mem.th[a].text
  BY WiredThunks
<1>3. PlainMem'
  BY <1>1, <1>2 DEF PlainMem, PlainThunk
<1>. QED  BY <1>1, <1>3 DEF GraphInv, WrittenInv, WriterGraph, LoaderGraph

LEMMA RestartKeepsGraph ==
    ASSUME GraphInv, Restart
    PROVE  GraphInv'
<1>1. op' = "idle" /\ mem' = NoMemory /\ UNCHANGED <<disk, wrote>> /\ WrittenInv
  BY DEF Restart, GraphInv
<1>2. Len(mem'.th) = 0
  BY <1>1, EmptySeq DEF NoMemory, Memory
<1>3. PlainMem'
  BY <1>2 DEF PlainMem
<1>. QED  BY <1>1, <1>3 DEF GraphInv, WrittenInv, WriterGraph, LoaderGraph

LEMMA StutterKeepsGraph == GraphInv /\ UNCHANGED vars => GraphInv'
<1>. SUFFICES ASSUME GraphInv, UNCHANGED vars PROVE GraphInv'
  OBVIOUS
<1>1. UNCHANGED <<mem, held, disk, op, wr, ld, wrote>>
  BY DEF vars
<1>2. Out' = Out /\ In' = In
  BY <1>1 DEF Out, In
<1>. QED
  BY <1>1, <1>2 DEF GraphInv, PlainMem, WrittenInv, WriterGraph, LoaderGraph, Entered, Turn

LEMMA GraphInvStep == ImageInv /\ GraphInv /\ [Next]_vars => GraphInv'
<1>. SUFFICES ASSUME ImageInv, GraphInv, [Next]_vars PROVE GraphInv'
  OBVIOUS
<1>1. CASE \E f \in Files, i \in DOMAIN held : Write(f, held[i])
  BY <1>1, WriteKeepsGraph
<1>2. CASE \E f \in Files : Load(f) \/ LoadRefused(f)
  BY <1>2, LoadKeepsGraph
<1>. QED
  BY <1>1, <1>2, CollectKeepsGraph, HeaderKeepsGraph, BlobsKeepGraph, PatternKeepsGraph, PatternsEndKeepsGraph,
     ThunkKeepsGraph, RootsKeepGraph, TableKeepsGraph, DoneKeepsGraph, LoadThunkKeepsGraph, WireKeepsGraph,
     RestartKeepsGraph, StutterKeepsGraph DEF Next

\* A completed file is the image of the graph that was written to it, and what
\* is made of an entry has what the entry says.
THEOREM GraphInvHolds == Spec => [](ImageInv /\ GraphInv)
<1>1. Init => ImageInv /\ GraphInv
  BY ImageInvInit, GraphInvInit
<1>2. ImageInv /\ GraphInv /\ [Next]_vars => (ImageInv /\ GraphInv)'
  BY ImageInvStep, GraphInvStep
<1>. QED  BY <1>1, <1>2, PTL DEF Spec

-----------------------------------------------------------------------------
(* What loading gives *)

\* Only the last step of a load adds a graph to those a program holds.
LEMMA OnlyWireLoads ==
    ASSUME ImageInv, [Next]_vars, Loaded1
    PROVE  Wire
<1>1. Len(held) \in Nat
  BY SequenceProperties DEF ImageInv, MemInv
<1>2. held' # held
  BY <1>1 DEF Loaded1
<1>3. ~ Restart
  <2>1. ASSUME Restart PROVE FALSE
    <3>1. Len(held') = 0
      BY <2>1, EmptySeq DEF Restart
    <3>. QED  BY <1>1, <3>1 DEF Loaded1
  <2>. QED  BY <2>1
<1>4. /\ ~ (\E f \in Files, i \in DOMAIN held : Write(f, held[i]))
      /\ ~ (\E f \in Files : Load(f) \/ LoadRefused(f))
  BY <1>2 DEF Write, Load, LoadRefused
<1>5. /\ ~ Collect /\ ~ WriteHeader /\ ~ WriteBlobs /\ ~ WritePattern /\ ~ PatternsEnd
      /\ ~ WriteThunk /\ ~ WriteRoots /\ ~ WriteTable /\ ~ WriteDone
  BY <1>2 DEF Collect, WriteHeader, WriteBlobs, WritePattern, PatternsEnd, WriteThunk, WriteRoots, WriteTable,
              WriteDone, Part, WriteFails
<1>6. ~ LoadThunk /\ ~ LoadLambda /\ ~ UNCHANGED vars
  BY <1>2 DEF LoadThunk, LoadLambda, Made, vars
<1>. QED  BY <1>3, <1>4, <1>5, <1>6 DEF Next

LEMMA LoadIsCopy ==
    ASSUME ImageInv, GraphInv, Wire
    PROVE  LET w == wrote[ld.file][1] IN SameGraph(w.mem, w.roots, mem', Last(held'))
<1>. DEFINE graph == wrote[ld.file][1]
            g == graph.mem
            M == Len(g.th)
            N == Len(mem.th)
            nodes == ld.nodes
            hRoots == [i \in DOMAIN In.roots |-> nodes[In.roots[i]]]
<1>1. op = "nodes" /\ held' = Append(held, hRoots)
  BY DEF Wire, WireTo
<1>2. MemInv /\ LoaderInv /\ Distinct(nodes) /\ Sequence(held)
      /\ \A i \in 1..Len(nodes) :
           LET u == mem.th[nodes[i]]  e == In.thunks[i] IN u.num = e.num /\ u.text = TextOf(In, e)
  BY <1>1, LoadedImage DEF GraphInv, LoaderGraph, MemInv
<1>3. PICK o : IsImage(o, In, graph)
  BY <1>1, LoadedGraph
<1>. DEFINE n == Len(o)
<1>4. /\ Sequence(g.th) /\ o \in Seq(1..M) /\ Distinct(o) /\ Len(In.thunks) = n
      /\ Sequence(graph.roots) /\ Range(graph.roots) \subseteq Range(o) /\ In.roots = IdsOf(o, graph.roots)
      /\ \A i \in 1..n : IsEntry(In, In.thunks[i], g.th[o[i]], o)
  BY <1>3 DEF IsImage
<1>5. /\ N \in Nat /\ DOMAIN mem'.th = 1..N /\ Len(nodes) = n
      /\ \A a \in 1..N :
           LET t == mem.th[a]  u == mem'.th[a] IN u.kind = t.kind /\ u.num = t.num /\ u.text = t.text
      /\ \A i \in 1..n :
           LET e == In.thunks[i] IN mem'.th[nodes[i]].kids = [k \in DOMAIN e.kids |-> nodes[e.kids[k]]]
  <2>. HIDE DEF n
  <2>. QED  BY <1>4, WiredThunks
<1>6. M \in Nat /\ DOMAIN g.th = 1..M
  BY <1>4, SequenceProperties
<1>7. nodes \in Seq(1..N) /\ \A i \in 1..n : nodes[i] \in 1..N /\ mem.th[nodes[i]].kind = In.thunks[i].kind
  <2>. HIDE DEF n
  <2>1. nodes \in Seq(1..N) /\ \A i \in 1..Len(nodes) : mem.th[nodes[i]].kind = In.thunks[i].kind
    BY <1>2 DEF LoaderInv
  <2>. HIDE DEF nodes, N
  <2>. QED  BY <1>5, <2>1, ElementOfSeq
<1>8. hRoots = [i \in DOMAIN graph.roots |-> nodes[IdOf(o, graph.roots[i])]]
  BY <1>4 DEF IdsOf
<1>9. Last(held') = hRoots
  <2>. HIDE DEF hRoots
  <2>. DEFINE s == Append(held, hRoots)
  <2>1. Len(s) = Len(held) + 1 /\ s[Len(held) + 1] = hRoots
    BY <1>2, ElementAppended, RangeAppended
  <2>. HIDE DEF s
  <2>. QED  BY <1>1, <2>1 DEF Last, s
<1>. HIDE DEF M, N, n, nodes, g, hRoots
<1>10. ASSUME NEW i \in 1..n
       PROVE  LET t == g.th[o[i]]  u == mem'.th[nodes[i]] IN
              /\ SavedKind(u.kind) = SavedKind(t.kind) /\ u.text = t.text /\ u.num = t.num
              /\ Sequence(t.kids) /\ Range(t.kids) \subseteq Range(o)
              /\ u.kids = [k \in DOMAIN t.kids |-> nodes[IdOf(o, t.kids[k])]]
  <2>. DEFINE t == g.th[o[i]]  v == mem.th[nodes[i]]  u == mem'.th[nodes[i]]  e == In.thunks[i]
  <2>1. IsEntry(In, e, t, o)
    BY <1>4
  <2>2. v.num = e.num /\ v.text = TextOf(In, e) /\ v.kind = e.kind
    BY <1>2, <1>5, <1>7 DEF nodes
  <2>3. u.kind = v.kind /\ u.num = v.num /\ u.text = v.text
    BY <1>5, <1>7
  <2>4. u.kids = [k \in DOMAIN e.kids |-> nodes[e.kids[k]]]
    BY <1>5
  <2>. HIDE DEF t, u, v, e
  <2>5. SavedKind(u.kind) = SavedKind(t.kind)
    BY <2>1, <2>2, <2>3 DEF IsEntry, SavedKind
  <2>6. u.text = t.text /\ u.num = t.num /\ Sequence(t.kids) /\ Range(t.kids) \subseteq Range(o)
    BY <2>1, <2>2, <2>3 DEF IsEntry
  <2>7. u.kids = [k \in DOMAIN t.kids |-> nodes[IdOf(o, t.kids[k])]]
    BY <2>1, <2>4 DEF IsEntry, IdsOf
  <2>. QED  BY <2>5, <2>6, <2>7 DEF u, t
<1>11. Copied(o, nodes, g, graph.roots, mem', hRoots)
  BY <1>2, <1>4, <1>5, <1>6, <1>7, <1>8, <1>10 DEF Copied, n, M, nodes
<1>12. IsFiniteSet(DOMAIN g.th) /\ IsFiniteSet(DOMAIN mem'.th)
  <2>1. M \in Int /\ N \in Int
    BY <1>5, <1>6
  <2>2. IsFiniteSet(1..M) /\ IsFiniteSet(1..N)
    BY <2>1, FS_Interval
  <2>. QED  BY <1>5, <1>6, <2>2
<1>13. SameGraph(g, graph.roots, mem', hRoots)
  BY <1>11, <1>12, CopyIsSame
<1>. QED  BY <1>9, <1>13 DEF g, graph

\* A graph made of an image is the graph that was written to the file, shared
\* and cyclic where it was, whatever the program held, wherever processes
\* ended, however often the file was written: from its roots every path of
\* edges leads to a thunk that agrees, and two paths lead to one thunk in the
\* one if and only if they do in the other.
THEOREM LoadGivesTheGraph == Spec => RoundTrip
<1>. DEFINE A == Loaded1 => LET w == wrote[ld.file][1] IN SameGraph(w.mem, w.roots, mem', Last(held'))
<1>1. ImageInv /\ GraphInv /\ [Next]_vars => A
  BY OnlyWireLoads, LoadIsCopy
<1>2. ImageInv /\ GraphInv /\ [Next]_vars => [A]_vars
  BY <1>1
<1>3. Spec => [](ImageInv /\ GraphInv)
  BY GraphInvHolds
<1>4. Spec => [][Next]_vars
  BY PTL DEF Spec
<1>. HIDE DEF A
<1>5. Spec => [][A]_vars
  BY <1>2, <1>3, <1>4, PTL
<1>. QED  BY <1>5 DEF A, RoundTrip

=============================================================================
