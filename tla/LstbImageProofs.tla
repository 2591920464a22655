-------------------------- MODULE LstbImageProofs --------------------------
(***************************************************************************)
(* For every program, whatever its graphs, and however often a process     *)
(* ends: lstb_read gives a graph from a file lstb_write has completed and  *)
(* from no other, and that graph is the one that was written. ImageInv is  *)
(* about how much of a file is there, GraphInv about what is in it.        *)
(***************************************************************************)
EXTENDS LstbImage, ThunkGraphProofs

-----------------------------------------------------------------------------
(* The invariant *)

LocalsAreRecords ==
    /\ DOMAIN wr = {"roots", "todo", "order", "sp", "yp"}
    /\ DOMAIN rd = {"at", "sp", "yp", "entries", "nodes"}

CountsAreNumbers == ops \in Int /\ Sequence(held) /\ Sequence(file)

Collecting == {"collect", "pools"}
Writing == Collecting \cup {"sp", "yp", "thunks"}

(* How much of the file is there while it is written.                      *)
WriterInv ==
    op \in Writing =>
        /\ Sequence(wr.order)
        /\ wrote = NoGraph
        /\ op \in Collecting => Len(file) = 0
        /\ op = "sp" => Len(file) = 1
        /\ op = "yp" => Len(file) = 2
        /\ op = "thunks" =>
             /\ Sequence(wr.todo)
             /\ Len(wr.todo) <= Len(wr.order)
             /\ Len(file) = 5 + Len(wr.order) - Len(wr.todo)
             /\ file[5].n = Len(wr.order)

(* A file has five parts, the thunks the fifth of them counts, and roots;  *)
(* it has all of them when its write was completed.                        *)
FileInv ==
    /\ Len(file) < 5 => wrote = NoGraph
    /\ Len(file) >= 5 =>
         /\ file[5].n \in Nat
         /\ Len(file) <= 6 + file[5].n
         /\ wrote # NoGraph <=> Len(file) = 6 + file[5].n

(* How far a reader is: behind the part it has read, or, when the file     *)
(* ends before, at its end.                                                *)
ReaderInv ==
    /\ rd.at \in Nat /\ rd.at <= Len(file)
    /\ op \in {"header", "rsp", "ryp", "rpatterns", "rcount"} => rd.nodes = <<>>
    /\ op = "header" => rd.at = 0
    /\ op = "rsp" => rd.at = 1
    /\ op = "ryp" => rd.at = 2 \/ (rd.at = Len(file) /\ rd.at < 2)
    /\ op = "rpatterns" => rd.at = 3 \/ (rd.at = Len(file) /\ rd.at < 3)
    /\ op = "rcount" => rd.at = 4
    /\ op = "rthunks" =>
         /\ Len(file) >= 5
         /\ Sequence(rd.nodes) /\ Sequence(rd.entries)
         /\ Len(rd.entries) = file[5].n
         /\ Len(rd.nodes) <= Len(rd.entries)
         /\ rd.at = 5 + Len(rd.nodes)
    /\ op = "rroots" => Len(file) >= 5 /\ rd.at = 5 + file[5].n

ImageInv == LocalsAreRecords /\ CountsAreNumbers /\ WriterInv /\ FileInv /\ (Reading => ReaderInv)

LEMMA ImageInvInit == Init => ImageInv
<1>. SUFFICES ASSUME Init PROVE ImageInv
  OBVIOUS
<1>1. Sequence(held)
  <2>1. PICK p \in Programs : held = p.held
    BY DEF Init
  <2>2. held \in Seq(Seq((DOMAIN p.th) \cup {NULL}))
    BY <2>1, ProgramsAssumption
  <2>. QED  BY <2>2, SequenceOf
<1>2. Sequence(<<>>) /\ Len(<<>>) = 0
  BY EmptySeq DEF Sequence
<1>3. LocalsAreRecords
  BY DEF Init, LocalsAreRecords, NoWriter, NoReader
<1>. QED
  BY <1>1, <1>2, <1>3 DEF Init, ImageInv, CountsAreNumbers, WriterInv, FileInv, Reading, Writing, Collecting

\* An operation that ends without success leaves the file as it is.
LEMMA FailsKeeps == ImageInv /\ Fails => ImageInv'
BY DEF ImageInv, Fails, LocalsAreRecords, CountsAreNumbers, WriterInv, FileInv, Reading, Writing, Collecting,
       NoWriter, NoReader

LEMMA CollectingKeeps ==
    ASSUME ImageInv, Collect \/ Collected \/ Pool \/ \E i \in DOMAIN held : Write(held[i])
    PROVE  ImageInv'
<1>. USE DEF ImageInv, LocalsAreRecords, CountsAreNumbers, WriterInv, FileInv, Reading, Writing, Collecting
<1>1. CASE \E i \in DOMAIN held : Write(held[i])
  <2>1. Sequence(<<>>) /\ Len(<<>>) = 0
    BY EmptySeq DEF Sequence
  <2>2. wr'.order = <<>> /\ DOMAIN wr' = {"roots", "todo", "order", "sp", "yp"}
    BY <1>1 DEF Write, NoWriter
  <2>3. file' = <<>> /\ wrote' = NoGraph /\ op' = "collect" /\ ops' = ops + 1 /\ UNCHANGED <<held, rd>>
    BY <1>1 DEF Write, Idle
  <2>4. Len(file') = 0 /\ Sequence(file') /\ Sequence(wr'.order)
    BY <2>1, <2>2, <2>3
  <2>. QED  BY <2>2, <2>3, <2>4
<1>2. CASE Collect
  <2>. DEFINE a == Head(wr.todo)
  <2>1. CASE op' = "idle"
    BY <1>2, <2>1 DEF Collect, NoWriter, NoReader
  <2>2. CASE op' # "idle"
    <3>1. op = "collect" /\ op' = "collect" /\ rd' = rd /\ UNCHANGED <<mem, held, file, ops, wrote>>
      BY <1>2, <2>2 DEF Collect
    <3>2. wr'.order = wr.order \/ wr'.order = Append(wr.order, a)
      BY <1>2, <2>2 DEF Collect
    <3>3. DOMAIN wr' = DOMAIN wr
      BY <1>2, <2>2 DEF Collect
    <3>4. Sequence(wr.order)
      BY <3>1
    <3>5. Sequence(Append(wr.order, a))
      BY <3>4, ElementAppended
    <3>6. Sequence(wr'.order)
      BY <3>2, <3>4, <3>5
    <3>. QED  BY <3>1, <3>3, <3>6
  <2>. QED  BY <2>1, <2>2
<1>3. CASE Collected
  BY <1>3 DEF Collected
<1>4. CASE Pool
  <2>1. CASE Fails
    BY <2>1, FailsKeeps
  <2>2. CASE ~ Fails
    <3>1. op = "pools" /\ UNCHANGED <<mem, held, file, op, rd, ops, wrote>>
      BY <1>4, <2>2 DEF Pool
    <3>2. wr'.order = wr.order /\ DOMAIN wr' = DOMAIN wr
      BY <1>4, <2>2 DEF Pool
    <3>. QED  BY <3>1, <3>2
  <2>. QED  BY <2>1, <2>2
<1>. QED  BY <1>1, <1>2, <1>3, <1>4

\* The counts end the file with its fifth part.
LEMMA CountLast ==
    ASSUME NEW s, Sequence(s), Len(s) = 2, NEW p, NEW q, NEW c
    PROVE  /\ Sequence(s \o <<p, q, c>>)
           /\ Len(s \o <<p, q, c>>) = 5
           /\ (s \o <<p, q, c>>)[5] = c
<1>. DEFINE t == <<p, q, c>>
            S == Range(s) \cup {p, q, c}
<1>1. t \in Seq(S) /\ Len(t) = 3 /\ t[3] = c
  OBVIOUS
<1>2. s \in Seq(S)
  <2>1. s \in [1..2 -> Range(s)]
    BY LenProperties DEF Sequence
  <2>2. s \in [1..2 -> S]
    BY <2>1
  <2>. QED  BY <2>2, SeqDef
<1>. HIDE DEF t, S
<1>3. s \o t \in Seq(S) /\ Len(s \o t) = Len(s) + Len(t)
  BY <1>1, <1>2, ConcatProperties
<1>4. \A i \in 1..Len(s) + Len(t) : (s \o t)[i] = IF i <= Len(s) THEN s[i] ELSE t[i - Len(s)]
  BY <1>1, <1>2, ConcatProperties
<1>5. Len(s \o t) = 5 /\ (s \o t)[5] = t[3]
  <2>1. 5 \in 1..Len(s) + Len(t) /\ ~ (5 <= Len(s)) /\ 5 - Len(s) = 3 /\ Len(s) + Len(t) = 5
    BY <1>1
  <2>2. (s \o t)[5] = IF 5 <= Len(s) THEN s[5] ELSE t[5 - Len(s)]
    BY <1>4, <2>1
  <2>. QED  BY <1>3, <2>1, <2>2
<1>6. Sequence(s \o t)
  BY <1>3, SequenceOf
<1>. QED  BY <1>1, <1>3, <1>5, <1>6 DEF t

LEMMA WritingKeeps ==
    ASSUME ImageInv, WriteHeader \/ WritePool \/ WriteCounts \/ WriteThunk \/ WriteRoots
    PROVE  ImageInv'
<1>1. Sequence(file) /\ Len(file) \in Nat
  BY SequenceProperties DEF ImageInv, CountsAreNumbers
<1>2. ASSUME NEW p PROVE Sequence(<<p>>) /\ Len(<<p>>) = 1
  <2>1. <<p>> \in Seq({p}) /\ Len(<<p>>) = 1
    OBVIOUS
  <2>. QED  BY <2>1, SequenceOf
<1>3. CASE WriteHeader
  <2>. USE DEF ImageInv, LocalsAreRecords, CountsAreNumbers, WriterInv, FileInv, Reading, Writing, Collecting
  <2>1. PICK p : file' = file \o <<p>>
    BY <1>3 DEF WriteHeader, Put
  <2>2. Sequence(file') /\ Len(file') = Len(file) + 1
    BY <1>1, <1>2, <2>1, SequencesJoined
  <2>. QED  BY <1>3, <2>2 DEF WriteHeader, Put
<1>4. CASE WritePool
  <2>. USE DEF ImageInv, LocalsAreRecords, CountsAreNumbers, WriterInv, FileInv, Reading, Writing, Collecting
  <2>1. PICK p : file' = file \o <<p>>
    BY <1>4 DEF WritePool, Put
  <2>2. Sequence(file') /\ Len(file') = Len(file) + 1
    BY <1>1, <1>2, <2>1, SequencesJoined
  <2>3. op = "sp" /\ op' = "yp" /\ UNCHANGED <<mem, held, rd, ops, wr, wrote>>
    BY <1>4 DEF WritePool, Put
  <2>4. Sequence(wr.order) /\ wrote = NoGraph /\ Len(file) = 1
    BY <2>3
  <2>5. Len(file') = 2
    BY <2>2, <2>4
  <2>. QED  BY <2>2, <2>3, <2>4, <2>5
<1>5. CASE WriteCounts
  <2>. USE DEF ImageInv, LocalsAreRecords, CountsAreNumbers, WriterInv, FileInv, Reading, Writing, Collecting
  <2>. DEFINE c == [part |-> "count", n |-> Len(wr.order)]
  <2>1. PICK p, q : file' = file \o <<p, q, c>>
    BY <1>5 DEF WriteCounts, Put
  <2>3. op = "yp" /\ Len(file) = 2 /\ Sequence(wr.order)
    BY <1>5 DEF WriteCounts, Put
  <2>4. Sequence(file') /\ Len(file') = 5 /\ file'[5] = c
    BY <2>1, <2>3, <1>1, CountLast
  <2>5. Len(wr.order) \in Nat
    BY <2>3, SequenceProperties
  <2>6. wr'.order = wr.order /\ wr'.todo = wr.order /\ DOMAIN wr' = DOMAIN wr
    BY <1>5 DEF WriteCounts
  <2>7. file'[5].n = Len(wr.order)
    BY <2>4
  <2>. QED  BY <1>5, <2>3, <2>4, <2>5, <2>6, <2>7 DEF WriteCounts, Put
<1>6. CASE WriteThunk
  <2>. USE DEF ImageInv, LocalsAreRecords, CountsAreNumbers, WriterInv, FileInv, Reading, Writing, Collecting
  <2>1. CASE Fails
    BY <2>1, FailsKeeps
  <2>2. CASE ~ Fails
    <3>1. PICK p : file' = file \o <<p>>
      BY <1>6, <2>2 DEF WriteThunk, Put
    <3>2. /\ op = "thunks" /\ op' = "thunks" /\ wr.todo # <<>>
          /\ wr' = [wr EXCEPT !.todo = Tail(@)]
          /\ UNCHANGED <<mem, held, rd, ops, wrote>>
      BY <1>6, <2>2 DEF WriteThunk, Put
    <3>3. Sequence(file') /\ Len(file') = Len(file) + 1
      BY <1>1, <1>2, <3>1, SequencesJoined
    <3>4. /\ Sequence(wr.order) /\ Sequence(wr.todo)
          /\ Len(wr.order) \in Nat /\ Len(wr.todo) \in Nat
      BY <3>2, SequenceProperties
    <3>5. Sequence(Tail(wr.todo)) /\ Len(Tail(wr.todo)) = Len(wr.todo) - 1 /\ Len(wr.todo) > 0
      BY <3>2, <3>4, TailOf
    <3>6. wr'.order = wr.order /\ wr'.todo = Tail(wr.todo) /\ DOMAIN wr' = DOMAIN wr
      BY <3>2
    <3>7. Len(file) >= 5
      BY <3>2, <3>4
    <3>8. file'[5] = file[5]
      BY <1>1, <1>2, <3>1, <3>7, SequencesJoined
    <3>9. Len(file') = 5 + Len(wr'.order) - Len(wr'.todo) /\ Len(wr'.todo) <= Len(wr'.order)
      BY <3>2, <3>3, <3>4, <3>5, <3>6
    <3>. QED  BY <3>2, <3>3, <3>4, <3>5, <3>6, <3>7, <3>8, <3>9
  <2>. QED  BY <2>1, <2>2
<1>7. CASE WriteRoots
  <2>. USE DEF ImageInv, LocalsAreRecords, CountsAreNumbers, WriterInv, FileInv, Reading, Writing, Collecting
  <2>1. CASE Fails
    BY <2>1, FailsKeeps
  <2>2. CASE ~ Fails
    <3>1. PICK p : file' = file \o <<p>>
      BY <1>7, <2>2 DEF WriteRoots, Put
    <3>2. /\ op = "thunks" /\ op' = "idle" /\ wr.todo = <<>> /\ wr' = NoWriter
          /\ wrote' = << [mem |-> mem, roots |-> wr.roots] >>
          /\ UNCHANGED <<mem, held, rd, ops>>
      BY <1>7, <2>2 DEF WriteRoots, Put
    <3>3. Sequence(file') /\ Len(file') = Len(file) + 1
      BY <1>1, <1>2, <3>1, SequencesJoined
    <3>4. Len(file) = 5 + Len(wr.order) /\ file[5].n = Len(wr.order) /\ Len(wr.order) \in Nat
      BY <3>2, SequenceProperties, EmptySeq
    <3>5. file'[5] = file[5]
      BY <1>1, <1>2, <3>1, <3>4, SequencesJoined
    <3>6. wrote' # NoGraph
      BY <3>2 DEF NoGraph
    <3>7. DOMAIN wr' = DOMAIN wr
      BY <3>2 DEF NoWriter
    <3>. QED  BY <3>2, <3>3, <3>4, <3>5, <3>6, <3>7
  <2>. QED  BY <2>1, <2>2
<1>. QED  BY <1>3, <1>4, <1>5, <1>6, <1>7

\* One step of a read that goes on: where the reader is behind it.
LEMMA ReadingKeeps ==
    ASSUME ImageInv,
           \/ Read \/ ReadHeader \/ ReadStrings \/ ReadSymbols \/ ReadPatterns \/ ReadCount
           \/ ReadThunk \/ Wire \/ ReadRoots
    PROVE  ImageInv'
<1>. USE DEF LocalsAreRecords, CountsAreNumbers, WriterInv, FileInv, Reading, Writing, Collecting
<1>1. Len(file) \in Nat /\ Sequence(file) /\ Sequence(held) /\ LocalsAreRecords /\ FileInv
  BY SequenceProperties DEF ImageInv
<1>2. CASE Read
  <2>1. op' = "header" /\ rd' = NoReader /\ ops' = ops + 1 /\ UNCHANGED <<mem, held, file, wr, wrote>>
    BY <1>2 DEF Read, Idle
  <2>2. DOMAIN rd' = {"at", "sp", "yp", "entries", "nodes"} /\ rd'.at = 0 /\ rd'.nodes = <<>>
    BY <2>1 DEF NoReader
  <2>. QED  BY <1>1, <2>1, <2>2 DEF ImageInv, ReaderInv
<1>3. CASE ReadHeader
  <2>1. CASE Fails
    BY <2>1, FailsKeeps
  <2>2. CASE ~ Fails
    <3>1. /\ op = "header" /\ rd.at < Len(file) /\ op' = "rsp"
          /\ rd' = [rd EXCEPT !.at = rd.at + 1]
          /\ UNCHANGED <<mem, held, file, wr, ops, wrote>>
      BY <1>3, <2>2 DEF ReadHeader, Get
    <3>2. DOMAIN rd' = DOMAIN rd /\ rd'.at = rd.at + 1 /\ rd'.nodes = rd.nodes
      BY <1>1, <3>1
    <3>. QED  BY <1>1, <3>1, <3>2 DEF ImageInv, ReaderInv
  <2>. QED  BY <2>1, <2>2
<1>4. CASE ReadStrings
  <2>1. CASE Fails
    BY <2>1, FailsKeeps
  <2>2. CASE ~ Fails /\ rd.at < Len(file)
    <3>1. /\ op = "rsp" /\ op' = "ryp"
          /\ rd' = [[rd EXCEPT !.sp = file[rd.at + 1].texts] EXCEPT !.at = rd.at + 1]
          /\ UNCHANGED <<mem, held, file, wr, ops, wrote>>
      BY <1>4, <2>2 DEF ReadStrings, Get
    <3>2. DOMAIN rd' = DOMAIN rd /\ rd'.at = rd.at + 1 /\ rd'.nodes = rd.nodes
      BY <1>1, <3>1
    <3>. QED  BY <1>1, <2>2, <3>1, <3>2 DEF ImageInv, ReaderInv
  <2>3. CASE ~ (rd.at < Len(file))
    <3>1. op = "rsp" /\ op' = "ryp" /\ UNCHANGED <<mem, held, file, wr, rd, ops, wrote>>
      BY <1>4, <2>3 DEF ReadStrings
    <3>. QED  BY <1>1, <2>3, <3>1 DEF ImageInv, ReaderInv
  <2>. QED  BY <2>1, <2>2, <2>3
<1>5. CASE ReadSymbols
  <2>1. CASE Fails
    BY <2>1, FailsKeeps
  <2>2. CASE ~ Fails /\ rd.at < Len(file)
    <3>1. /\ op = "ryp" /\ op' = "rpatterns"
          /\ rd' = [[rd EXCEPT !.yp = file[rd.at + 1].texts] EXCEPT !.at = rd.at + 1]
          /\ UNCHANGED <<mem, held, file, wr, ops, wrote>>
      BY <1>5, <2>2 DEF ReadSymbols, Get
    <3>2. DOMAIN rd' = DOMAIN rd /\ rd'.at = rd.at + 1 /\ rd'.nodes = rd.nodes
      BY <1>1, <3>1
    <3>. QED  BY <1>1, <2>2, <3>1, <3>2 DEF ImageInv, ReaderInv
  <2>3. CASE ~ (rd.at < Len(file))
    <3>1. op = "ryp" /\ op' = "rpatterns" /\ UNCHANGED <<mem, held, file, wr, rd, ops, wrote>>
      BY <1>5, <2>3 DEF ReadSymbols
    <3>. QED  BY <1>1, <2>3, <3>1 DEF ImageInv, ReaderInv
  <2>. QED  BY <2>1, <2>2, <2>3
<1>6. CASE ReadPatterns
  <2>1. CASE Fails
    BY <2>1, FailsKeeps
  <2>2. CASE ~ Fails
    <3>1. /\ op = "rpatterns" /\ rd.at < Len(file) /\ op' = "rcount"
          /\ rd' = [rd EXCEPT !.at = rd.at + 1]
          /\ UNCHANGED <<mem, held, file, wr, ops, wrote>>
      BY <1>6, <2>2 DEF ReadPatterns, Get
    <3>2. DOMAIN rd' = DOMAIN rd /\ rd'.at = rd.at + 1 /\ rd'.nodes = rd.nodes
      BY <1>1, <3>1
    <3>. QED  BY <1>1, <3>1, <3>2 DEF ImageInv, ReaderInv
  <2>. QED  BY <2>1, <2>2
<1>7. CASE ReadCount
  <2>1. CASE Fails
    BY <2>1, FailsKeeps
  <2>2. CASE ~ Fails
    <3>. DEFINE n == file[5].n
                entries == [i \in 1..n |-> NULL]
    <3>1. op = "rcount" /\ rd.at = 4 /\ rd.at < Len(file)
      BY <1>7, <2>2 DEF ReadCount, Get, ImageInv, ReaderInv
    <3>2. /\ op' = "rthunks"
          /\ rd' = [[rd EXCEPT !.entries = entries] EXCEPT !.at = 5]
          /\ UNCHANGED <<mem, held, file, wr, ops, wrote>>
      BY <1>7, <2>2, <3>1 DEF ReadCount, Get
    <3>3. n \in Nat /\ Len(file) >= 5
      BY <1>1, <3>1
    <3>. HIDE DEF n
    <3>4. Sequence(entries) /\ Len(entries) = n
      <4>1. entries \in Seq({NULL}) /\ Len(entries) = n
        BY <3>3
      <4>. QED  BY <4>1, SequenceOf
    <3>5. DOMAIN rd' = DOMAIN rd /\ rd'.at = 5 /\ rd'.entries = entries /\ rd'.nodes = rd.nodes
      BY <1>1, <3>2
    <3>. HIDE DEF entries
    <3>6. rd.nodes = <<>>
      BY <3>1 DEF ImageInv, ReaderInv
    <3>7. Sequence(<<>>) /\ Len(<<>>) = 0
      BY EmptySeq DEF Sequence
    <3>. QED  BY <1>1, <3>2, <3>3, <3>4, <3>5, <3>6, <3>7 DEF ImageInv, ReaderInv, n
  <2>. QED  BY <2>1, <2>2
<1>8. CASE ReadThunk
  <2>1. CASE Fails
    BY <2>1, FailsKeeps
  <2>2. CASE ~ Fails
    <3>. DEFINE i == Len(rd.nodes) + 1
                e == file[rd.at + 1]
    <3>1. /\ op = "rthunks" /\ op' = "rthunks" /\ rd.at < Len(file) /\ Len(rd.nodes) < Len(rd.entries)
          /\ rd' = [rd EXCEPT !.at = @ + 1, !.entries[i] = e, !.nodes = Append(@, Len(mem.th) + 1)]
          /\ UNCHANGED <<held, file, wr, ops, wrote>>
      BY <1>8, <2>2 DEF ReadThunk
    <3>2. /\ Sequence(rd.nodes) /\ Sequence(rd.entries) /\ Len(rd.entries) = file[5].n
          /\ rd.at = 5 + Len(rd.nodes) /\ Len(file) >= 5
      BY <3>1 DEF ImageInv, ReaderInv
    <3>3. Len(rd.nodes) \in Nat /\ Len(rd.entries) \in Nat
      BY <3>2, SequenceProperties
    <3>4. /\ DOMAIN rd' = DOMAIN rd /\ rd'.at = rd.at + 1
          /\ rd'.entries = [rd.entries EXCEPT ![i] = e]
          /\ rd'.nodes = Append(rd.nodes, Len(mem.th) + 1)
      BY <1>1, <3>1
    <3>. HIDE DEF i, e
    <3>5. Sequence(rd'.nodes) /\ Len(rd'.nodes) = Len(rd.nodes) + 1
      BY <3>2, <3>4, ElementAppended
    <3>6. Sequence(rd'.entries) /\ Len(rd'.entries) = Len(rd.entries)
      <4>1. Sequence([rd.entries EXCEPT ![i] = e]) /\ Len([rd.entries EXCEPT ![i] = e]) = Len(rd.entries)
        BY <3>2, ElementReplaced
      <4>. QED  BY <3>4, <4>1
    <3>. QED  BY <1>1, <3>1, <3>2, <3>3, <3>4, <3>5, <3>6 DEF ImageInv, ReaderInv
  <2>. QED  BY <2>1, <2>2
<1>9. CASE Wire
  <2>1. /\ op = "rthunks" /\ op' = "rroots" /\ Len(rd.nodes) = Len(rd.entries)
        /\ UNCHANGED <<held, file, wr, rd, ops, wrote>>
    BY <1>9 DEF Wire
  <2>. QED  BY <1>1, <2>1 DEF ImageInv, ReaderInv
<1>10. CASE ReadRoots
  <2>1. CASE Fails
    BY <2>1, FailsKeeps
  <2>2. CASE ~ Fails
    <3>1. /\ op' \in {"idle", "fault"} /\ rd' = NoReader /\ UNCHANGED <<mem, file, wr, ops, wrote>>
          /\ \E r : held' = Append(held, r)
      BY <1>10, <2>2 DEF ReadRoots
    <3>2. Sequence(held')
      BY <1>1, <3>1, ElementAppended
    <3>3. DOMAIN rd' = {"at", "sp", "yp", "entries", "nodes"}
      BY <3>1 DEF NoReader
    <3>. QED  BY <1>1, <3>1, <3>2, <3>3 DEF ImageInv
  <2>. QED  BY <2>1, <2>2
<1>. HIDE DEF LocalsAreRecords, CountsAreNumbers, WriterInv, FileInv, Reading, Writing, Collecting
<1>. QED  BY <1>2, <1>3, <1>4, <1>5, <1>6, <1>7, <1>8, <1>9, <1>10

\* A process that ends leaves the file; one that does nothing leaves all.
LEMMA RestartKeeps == ImageInv /\ (Restart \/ UNCHANGED vars) => ImageInv'
<1>. SUFFICES ASSUME ImageInv, Restart \/ UNCHANGED vars PROVE ImageInv'
  OBVIOUS
<1>. USE DEF ImageInv, LocalsAreRecords, CountsAreNumbers, WriterInv, FileInv, Reading, Writing, Collecting
<1>1. CASE UNCHANGED vars
  BY <1>1 DEF vars, ReaderInv
<1>2. CASE Restart
  <2>1. Sequence(<<>>)
    BY EmptySeq DEF Sequence
  <2>. QED  BY <1>2, <2>1 DEF Restart, NoWriter, NoReader
<1>. QED  BY <1>1, <1>2

LEMMA ImageInvStep == ImageInv /\ [Next]_vars => ImageInv'
BY CollectingKeeps, WritingKeeps, ReadingKeeps, RestartKeeps DEF Next

\* What is known of a file, its writer and its reader holds after every step
\* of the writer, of the reader, and of a process that ends.
THEOREM ImageInvHolds == Spec => []ImageInv
<1>. QED  BY ImageInvInit, ImageInvStep, PTL DEF Spec

-----------------------------------------------------------------------------
(* What a read gives *)

\* The step with which a read ends.
LEMMA StepOfRead ==
    ASSUME ImageInv, [Next]_vars, Reading, op' = "idle", ops' = ops
    PROVE  ReadHeader \/ ReadStrings \/ ReadSymbols \/ ReadPatterns \/ ReadCount \/ ReadThunk \/ ReadRoots
<1>1. op \notin {"idle", "collect", "pools", "sp", "yp", "thunks"}
  BY DEF Reading
<1>2. ops \in Int
  BY DEF ImageInv, CountsAreNumbers
<1>3. ~ Restart
  BY <1>2 DEF Restart
<1>4. ~ (\E i \in DOMAIN held : Write(held[i])) /\ ~ Read
  BY <1>1 DEF Write, Read, Idle
<1>5. ~ Collect /\ ~ Collected /\ ~ Pool
  BY <1>1 DEF Collect, Collected, Pool
<1>6. ~ WriteHeader /\ ~ WritePool /\ ~ WriteCounts /\ ~ WriteThunk /\ ~ WriteRoots
  BY <1>1 DEF WriteHeader, WritePool, WriteCounts, WriteThunk, WriteRoots, Put
<1>7. ~ UNCHANGED vars
  BY <1>1 DEF vars
<1>8. ~ Wire
  BY DEF Wire
<1>. QED  BY <1>3, <1>4, <1>5, <1>6, <1>7, <1>8 DEF Next

LEMMA EndOfRead ==
    ASSUME ImageInv, [Next]_vars, Reading, op' = "idle", ops' = ops
    PROVE  Fails \/ ReadRoots
<1>1. ReadHeader \/ ReadStrings \/ ReadSymbols \/ ReadPatterns \/ ReadCount \/ ReadThunk \/ ReadRoots
  BY StepOfRead
<1>2. CASE ReadHeader
  BY <1>2 DEF ReadHeader, Get
<1>3. CASE ReadStrings
  BY <1>3 DEF ReadStrings, Get
<1>4. CASE ReadSymbols
  BY <1>4 DEF ReadSymbols, Get
<1>5. CASE ReadPatterns
  BY <1>5 DEF ReadPatterns, Get
<1>6. CASE ReadCount
  BY <1>6 DEF ReadCount, Get
<1>7. CASE ReadThunk
  BY <1>7 DEF ReadThunk
<1>. QED  BY <1>1, <1>2, <1>3, <1>4, <1>5, <1>6, <1>7

\* lstb_read gives a graph from a file lstb_write has completed, whatever the
\* graph, and from no other file, wherever a process ended that was writing it.
THEOREM OnlyCompleteFilesRead == Spec => ReadIffComplete
<1>. DEFINE A == Reading /\ op' = "idle" /\ ops' = ops => (Read1 <=> wrote # NoGraph)
<1>1. ASSUME ImageInv, [Next]_vars PROVE A
  <2>. SUFFICES ASSUME Reading, op' = "idle", ops' = ops PROVE Read1 <=> wrote # NoGraph
    OBVIOUS
  <2>. USE <1>1
  <2>1. Sequence(held) /\ Sequence(file) /\ FileInv /\ ReaderInv
    BY DEF ImageInv, CountsAreNumbers
  <2>2. Len(held) \in Nat /\ Len(file) \in Nat
    BY <2>1, SequenceProperties
  <2>3. CASE ReadRoots /\ rd.at < Len(file)
    <3>1. op = "rroots" /\ \E r : held' = Append(held, r)
      BY <2>3 DEF ReadRoots
    <3>2. Len(held') = Len(held) + 1
      BY <2>1, <3>1, ElementAppended
    <3>3. Len(file) = 6 + file[5].n /\ Len(file) >= 5
      BY <2>1, <2>2, <2>3, <3>1 DEF FileInv, ReaderInv
    <3>4. wrote # NoGraph
      BY <2>1, <3>3 DEF FileInv
    <3>. QED  BY <3>2, <3>4 DEF Read1
  <2>4. CASE ~ (ReadRoots /\ rd.at < Len(file))
    <3>1. Fails
      BY <2>4, EndOfRead DEF ReadRoots
    <3>2. rd.at = Len(file)
      <4>1. ~ (rd.at < Len(file))
        <5>. SUFFICES ASSUME rd.at < Len(file) PROVE FALSE
          OBVIOUS
        <5>1. ReadHeader \/ ReadStrings \/ ReadSymbols \/ ReadPatterns \/ ReadCount \/ ReadThunk \/ ReadRoots
          BY StepOfRead
        <5>. QED  BY <2>4, <5>1 DEF ReadHeader, ReadStrings, ReadSymbols, ReadPatterns, ReadCount, ReadThunk, Get
      <4>. QED  BY <2>1, <2>2, <4>1 DEF ReaderInv
    <3>3. wrote = NoGraph
      BY <2>1, <2>2, <3>2 DEF FileInv, ReaderInv, Reading
    <3>4. held' = held
      BY <3>1 DEF Fails
    <3>. QED  BY <2>2, <3>3, <3>4 DEF Read1
  <2>. QED  BY <2>3, <2>4
<1>2. ImageInv /\ [Next]_vars => [A]_vars
  BY <1>1
<1>. QED  BY <1>2, ImageInvHolds, PTL DEF Spec, ReadIffComplete

-----------------------------------------------------------------------------
(* What a graph of the memory, of the file and of the reader have in       *)
(* common: the invariant.                                                  *)

ThunkFields == {"kind", "text", "num", "kids", "pat", "tgt"}

(* A thunk of a memory of n thunks.                                        *)
GoodThunk(n, t) ==
    /\ DOMAIN t = ThunkFields
    /\ t.kids \in Seq(0..n)
    /\ t.kind \notin TextKinds => t.text = NoText

GoodThunks(th) == Sequence(th) /\ \A a \in 1..Len(th) : GoodThunk(Len(th), th[a])

MemInv ==
    /\ DOMAIN mem = {"th", "pat"}
    /\ GoodThunks(mem.th)
    /\ \A i \in 1..Len(held) : held[i] \in Seq(0..Len(mem.th))

(* Entries and roots of a file lead to entries of it, complete or not.     *)
PartsInv ==
    Len(file) >= 5 =>
        /\ \A i \in 6 .. 5 + file[5].n : i <= Len(file) => file[i].kids \in Seq(1..file[5].n)
        /\ Len(file) >= 6 + file[5].n => file[6 + file[5].n].ids \in Seq(1..file[5].n)

Savable == Leaves \cup {"alge"}
InStrings == {"str", "bottom"}
InSymbols == {"symbol", "alge"}

(* Where the text of a thunk is to be found.                               *)
TextPooled(t, sp, yp) ==
    /\ t.kind \in InStrings => CString(t.text) \in Range(sp)
    /\ t.kind \in InSymbols => CString(t.text) \in Range(yp)

(* e is the entry of t, its thunks numbered by o and its text pooled.      *)
IsEntry(e, t, o, sp, yp) ==
    /\ e.kind = t.kind /\ e.num = t.num /\ e.kids = IdsOf(o, t.kids)
    /\ t.kind \in Savable /\ Range(t.kids) \subseteq Range(o)
    /\ t.kind \in InStrings => e.text \in 1..Len(sp) /\ sp[e.text] = CString(t.text)
    /\ t.kind \in InSymbols => e.text \in 1..Len(yp) /\ yp[e.text] = CString(t.text)

(* The file is the image of a graph, its thunks in the order o.            *)
IsImage(o, graph) ==
    /\ GoodThunks(graph.mem.th) /\ "th" \in DOMAIN graph.mem
    /\ o \in Seq(1..Len(graph.mem.th)) /\ Distinct(o)
    /\ file[5].n = Len(o)
    /\ \A i \in 1..Len(o) : IsEntry(file[5 + i], graph.mem.th[o[i]], o, file[2].texts, file[3].texts)
    /\ Sequence(graph.roots) /\ Range(graph.roots) \subseteq Range(o)
    /\ file[6 + Len(o)].ids = IdsOf(o, graph.roots)

WrittenInv == wrote # NoGraph => \E o : IsImage(o, wrote[1])

(* The writer has numbered what the roots lead to as far as it has come.   *)
Numbering ==
    /\ wr.order \in Seq(1..Len(mem.th)) /\ Distinct(wr.order)
    /\ \A i \in 1..Len(wr.order) : mem.th[wr.order[i]].kind \in Savable
    /\ wr.todo \in Seq(0..Len(mem.th))
    /\ Sequence(wr.sp) /\ Sequence(wr.yp)
    /\ Sequence(wr.roots)
    /\ Range(wr.roots) \subseteq Range(wr.order) \cup {NULL} \cup IF op = "collect" THEN Range(wr.todo) ELSE {}

Pooling ==
    \A a \in Range(wr.order) :
        \/ op = "pools" /\ a \in Range(wr.todo)
        \/ TextPooled(mem.th[a], wr.sp, wr.yp)

Entering ==
    LET done == Len(wr.order) - Len(wr.todo) IN
    /\ file[2].texts = wr.sp /\ file[3].texts = wr.yp
    /\ \A i \in 1..done : IsEntry(file[5 + i], mem.th[wr.order[i]], wr.order, wr.sp, wr.yp)
    /\ \A i \in 1..Len(wr.todo) : wr.todo[i] = wr.order[done + i]

WriterGraph ==
    op \in Writing =>
        /\ Numbering
        /\ op # "collect" => Pooling
        /\ op = "yp" => file[2].texts = wr.sp
        /\ op = "thunks" => Entering

(* What NewThunk makes of the text of an entry.                            *)
TextFor(e, sp, yp) ==
    CASE e.kind \in InStrings -> sp[e.text] [] e.kind \in InSymbols -> yp[e.text] [] OTHER -> NoText

Reads == {"rthunks", "rroots"}

(* The reader has a thunk of its own for each entry it has read.           *)
Making ==
    /\ rd.nodes \in Seq(1..Len(mem.th)) /\ Distinct(rd.nodes)
    /\ \A i \in 1..Len(rd.nodes) : rd.entries[i] = file[5 + i]
    /\ op = "rroots" => Len(rd.nodes) = file[5].n

Wired(u, e, nodes) == u.kids = [k \in DOMAIN e.kids |-> nodes[e.kids[k]]]

Copying ==
    \A i \in 1..Len(rd.nodes) :
        LET u == mem.th[rd.nodes[i]]  e == file[5 + i] IN
        /\ u.kind = e.kind /\ u.num = e.num /\ u.text = TextFor(e, file[2].texts, file[3].texts)
        /\ op = "rroots" => Wired(u, e, rd.nodes)

ReaderGraph ==
    /\ op \in Reads => Making
    /\ wrote # NoGraph =>
         /\ op \in {"ryp", "rpatterns", "rcount", "rthunks"} => rd.sp = file[2].texts
         /\ op \in {"rpatterns", "rcount", "rthunks"} => rd.yp = file[3].texts
         /\ op \in Reads => Copying

GraphInv == MemInv /\ PartsInv /\ WrittenInv /\ WriterGraph /\ ReaderGraph

LEMMA GraphInvInit == Init => GraphInv
<1>. SUFFICES ASSUME Init PROVE GraphInv
  OBVIOUS
<1>1. PICK p \in Programs : mem = Memory(p.th, p.pat) /\ held = p.held
  BY DEF Init
<1>2. /\ p.th \in Seq(ThunkRecords)
      /\ \A a \in DOMAIN p.th : WellFormed(p.th, p.th[a])
      /\ p.held \in Seq(Seq((DOMAIN p.th) \cup {NULL}))
  BY ProgramsAssumption
<1>3. mem.th = p.th /\ DOMAIN mem = {"th", "pat"}
  BY <1>1 DEF Memory
<1>. DEFINE n == Len(mem.th)
<1>4. n \in Nat /\ DOMAIN mem.th = 1..n /\ (DOMAIN mem.th) \cup {NULL} = 0..n /\ Sequence(mem.th)
  BY <1>2, <1>3, SequenceOf DEF NULL
<1>5. ASSUME NEW a \in 1..n PROVE GoodThunk(n, mem.th[a])
  <2>. DEFINE t == mem.th[a]
  <2>1. t \in ThunkRecords /\ WellFormed(mem.th, t)
    BY <1>2, <1>3, <1>4
  <2>. HIDE DEF n, t
  <2>2. DOMAIN t = ThunkFields /\ t.kids \in Seq(Nat) /\ Range(t.kids) \subseteq 0..n
    BY <1>4, <2>1 DEF ThunkRecords, ThunkFields, WellFormed
  <2>3. t.kids \in Seq(0..n)
    <3>1. Sequence(t.kids)
      BY <2>2, SequenceOf
    <3>. QED  BY <2>2, <3>1, SeqWithin DEF Sequence
  <2>. QED  BY <2>1, <2>2, <2>3 DEF GoodThunk, WellFormed, t
<1>6. \A i \in 1..Len(held) : held[i] \in Seq(0..n)
  <2>1. held \in Seq(Seq(0..n))
    BY <1>1, <1>2, <1>3, <1>4
  <2>. HIDE DEF n
  <2>. QED  BY <2>1, ElementOfSeq
<1>7. MemInv
  BY <1>3, <1>4, <1>5, <1>6 DEF MemInv, GoodThunks
<1>8. Len(file) = 0
  BY EmptySeq DEF Init
<1>. QED
  BY <1>7, <1>8 DEF Init, GraphInv, PartsInv, WrittenInv, WriterGraph, ReaderGraph, NoGraph, Writing, Collecting, Reads

\* A step that leaves memory and file alone and ends what was under way.
LEMMA IdleKeepsGraph ==
    ASSUME GraphInv, op' \in {"idle", "fault", "header"}, UNCHANGED <<mem, held, file, wrote>>
    PROVE  GraphInv'
BY DEF GraphInv, MemInv, PartsInv, WrittenInv, IsImage, WriterGraph, ReaderGraph, Writing, Collecting, Reads

\* A step of the writer that does not write.
LEMMA WriterKeepsGraph ==
    ASSUME GraphInv, op' \in Writing, UNCHANGED <<mem, held, file, wrote>>, WriterGraph'
    PROVE  GraphInv'
BY DEF GraphInv, MemInv, PartsInv, WrittenInv, IsImage, ReaderGraph, Writing, Collecting, Reads

LEMMA WriteKeepsGraph ==
    ASSUME ImageInv, GraphInv, NEW i \in DOMAIN held, Write(held[i])
    PROVE  GraphInv'
<1>. DEFINE roots == held[i]  N == Len(mem.th)
<1>1. /\ op' = "collect" /\ file' = <<>> /\ wrote' = NoGraph /\ UNCHANGED <<mem, held, rd>>
      /\ wr' = [NoWriter EXCEPT !.roots = roots, !.todo = roots]
  BY DEF Write
<1>2. roots \in Seq(0..N)
  <2>1. i \in 1..Len(held)
    BY SequenceProperties DEF ImageInv, CountsAreNumbers
  <2>. QED  BY <2>1 DEF GraphInv, MemInv
<1>. HIDE DEF roots
<1>3. /\ wr'.roots = roots /\ wr'.todo = roots /\ wr'.order = <<>> /\ wr'.sp = <<>> /\ wr'.yp = <<>>
  BY <1>1 DEF NoWriter
<1>4. Len(file') = 0
  BY <1>1, EmptySeq
<1>5. WriterGraph'
  <2>1. <<>> \in Seq(1..N) /\ Sequence(<<>>) /\ Len(<<>>) = 0
    BY EmptySeq DEF Sequence
  <2>2. Distinct(<<>>)
    BY <2>1 DEF Distinct
  <2>3. Sequence(roots)
    BY <1>2, SequenceOf
  <2>4. /\ wr'.order \in Seq(1..Len(mem'.th)) /\ Distinct(wr'.order)
        /\ wr'.todo \in Seq(0..Len(mem'.th)) /\ Sequence(wr'.sp) /\ Sequence(wr'.yp) /\ Sequence(wr'.roots)
    BY <1>1, <1>2, <1>3, <2>1, <2>2, <2>3
  <2>5. \A j \in 1..Len(wr'.order) : FALSE
    BY <1>3, <2>1
  <2>6. Range(wr'.roots) \subseteq Range(wr'.todo)
    BY <1>3
  <2>7. Numbering'
    BY <1>1, <2>4, <2>5, <2>6 DEF Numbering
  <2>. QED  BY <1>1, <2>7 DEF WriterGraph
<1>6. MemInv'
  BY <1>1 DEF GraphInv, MemInv
<1>. QED  BY <1>1, <1>4, <1>5, <1>6 DEF GraphInv, PartsInv, WrittenInv, ReaderGraph, Reads

\* The thunks a walk has still to visit, after those of a thunk are put first.
LEMMA TodoGrows ==
    ASSUME NEW S, NEW todo \in Seq(S), todo # <<>>, NEW kids \in Seq(S)
    PROVE  /\ Head(todo) \in S
           /\ Tail(todo) \in Seq(S) /\ Range(todo) = {Head(todo)} \cup Range(Tail(todo))
           /\ kids \o Tail(todo) \in Seq(S) /\ Range(Tail(todo)) \subseteq Range(kids \o Tail(todo))
<1>1. /\ Head(todo) \in S /\ Tail(todo) \in Seq(S)
      /\ Range(todo) = {Head(todo)} \cup Range(Tail(todo))
  BY HeadAndTail
<1>2. ASSUME NEW rest \in Seq(S)
      PROVE  kids \o rest \in Seq(S) /\ Range(rest) \subseteq Range(kids \o rest)
  BY RangeJoined
<1>. QED  BY <1>1, <1>2

LEMMA CollectKeepsGraph ==
    ASSUME ImageInv, GraphInv, Collect
    PROVE  GraphInv'
<1>. DEFINE a == Head(wr.todo)  t == mem.th[a]  N == Len(mem.th)
<1>1. op = "collect" /\ wr.todo # <<>> /\ UNCHANGED <<mem, held, file, ops, wrote>> /\ Numbering /\ LocalsAreRecords
  BY DEF Collect, GraphInv, WriterGraph, Writing, Collecting, ImageInv
<1>2. CASE op' = "idle"
  BY <1>1, <1>2, IdleKeepsGraph
<1>3. CASE op' # "idle"
  <2>1. op' = "collect"
    BY <1>1, <1>3 DEF Collect
  <2>2. /\ wr.todo \in Seq(0..N) /\ wr.order \in Seq(1..N) /\ Distinct(wr.order)
        /\ Range(wr.roots) \subseteq Range(wr.order) \cup {NULL} \cup Range(wr.todo)
    BY <1>1 DEF Numbering
  <2>3. /\ a \in 0..N
        /\ Tail(wr.todo) \in Seq(0..N) /\ Range(wr.todo) = {a} \cup Range(Tail(wr.todo))
    BY <1>1, <2>2, HeadAndTail
  <2>4. /\ wr'.roots = wr.roots /\ wr'.sp = wr.sp /\ wr'.yp = wr.yp
        /\ \/ /\ a = NULL \/ a \in Range(wr.order)
              /\ wr'.order = wr.order /\ wr'.todo = Tail(wr.todo)
           \/ /\ a # NULL /\ a \notin Range(wr.order) /\ t.kind \in Savable
              /\ wr'.order = Append(wr.order, a)
              /\ wr'.todo = Tail(wr.todo) \/ wr'.todo = t.kids \o Tail(wr.todo)
    BY <1>1, <1>3 DEF Collect, LocalsAreRecords, Savable, Leaves
  <2>. HIDE DEF a, t
  <2>5. CASE (a = NULL \/ a \in Range(wr.order)) /\ wr'.order = wr.order /\ wr'.todo = Tail(wr.todo)
    <3>1. Range(wr'.roots) \subseteq Range(wr'.order) \cup {NULL} \cup Range(wr'.todo)
      BY <2>2, <2>3, <2>4, <2>5
    <3>2. Numbering'
      BY <1>1, <2>1, <2>3, <2>4, <2>5, <3>1 DEF Numbering
    <3>. QED  BY <1>1, <2>1, <3>2, WriterKeepsGraph DEF WriterGraph, Writing, Collecting
  <2>6. CASE /\ a # NULL /\ a \notin Range(wr.order) /\ t.kind \in Savable
             /\ wr'.order = Append(wr.order, a)
             /\ wr'.todo = Tail(wr.todo) \/ wr'.todo = t.kids \o Tail(wr.todo)
    <3>1. a \in 1..N /\ N \in Nat
      BY <2>3, <2>6, SequenceProperties DEF NULL, GraphInv, MemInv, GoodThunks
    <3>2. t.kids \in Seq(0..N)
      BY <3>1 DEF GraphInv, MemInv, GoodThunks, GoodThunk, t
    <3>3. wr'.todo \in Seq(0..N) /\ Range(Tail(wr.todo)) \subseteq Range(wr'.todo)
      <4>. DEFINE kids == t.kids
      <4>1. kids \in Seq(0..N)
        BY <3>2
      <4>. HIDE DEF kids, N
      <4>2. kids \o Tail(wr.todo) \in Seq(0..N) /\ Range(Tail(wr.todo)) \subseteq Range(kids \o Tail(wr.todo))
        BY <1>1, <2>2, <4>1, TodoGrows
      <4>. QED  BY <2>3, <2>6, <4>2 DEF kids
    <3>4. Sequence(wr.order)
      BY <2>2, SequenceOf
    <3>5. /\ wr'.order \in Seq(1..N) /\ Distinct(wr'.order)
          /\ Range(wr'.order) = Range(wr.order) \cup {a}
      BY <2>2, <2>6, <3>1, <3>4, AppendProperties, DistinctAppended, RangeAppended
    <3>6. \A i \in 1..Len(wr'.order) : mem.th[wr'.order[i]].kind \in Savable
      <4>1. /\ Len(wr.order) \in Nat /\ Len(wr'.order) = Len(wr.order) + 1
            /\ \A i \in 1..Len(wr.order) : wr'.order[i] = wr.order[i]
            /\ wr'.order[Len(wr.order) + 1] = a
        BY <2>6, <3>4, ElementAppended, RangeAppended, SequenceProperties
      <4>2. \A i \in 1..Len(wr'.order) : i \in 1..Len(wr.order) \/ i = Len(wr.order) + 1
        BY <4>1
      <4>3. \A i \in 1..Len(wr.order) : mem.th[wr.order[i]].kind \in Savable
        BY <1>1 DEF Numbering
      <4>. QED  BY <2>6, <4>1, <4>2, <4>3 DEF t
    <3>7. Range(wr'.roots) \subseteq Range(wr'.order) \cup {NULL} \cup Range(wr'.todo)
      BY <2>2, <2>3, <2>4, <3>3, <3>5
    <3>8. Numbering'
      BY <1>1, <2>1, <2>4, <3>3, <3>5, <3>6, <3>7 DEF Numbering
    <3>. QED  BY <1>1, <2>1, <3>8, WriterKeepsGraph DEF WriterGraph, Writing, Collecting
  <2>. QED  BY <2>4, <2>5, <2>6
<1>. QED  BY <1>2, <1>3

LEMMA CollectedKeepsGraph ==
    ASSUME ImageInv, GraphInv, Collected
    PROVE  GraphInv'
<1>1. /\ op = "collect" /\ op' = "pools" /\ wr.todo = <<>> /\ wr' = [wr EXCEPT !.todo = wr.order]
      /\ UNCHANGED <<mem, held, file, wrote>> /\ Numbering /\ LocalsAreRecords
  BY DEF Collected, GraphInv, WriterGraph, Writing, Collecting, ImageInv
<1>2. /\ wr'.roots = wr.roots /\ wr'.sp = wr.sp /\ wr'.yp = wr.yp
      /\ wr'.order = wr.order /\ wr'.todo = wr.order
  BY <1>1 DEF LocalsAreRecords
<1>3. wr.order \in Seq(0..Len(mem.th))
  <2>1. wr.order \in Seq(1..Len(mem.th))
    BY <1>1 DEF Numbering
  <2>. QED  BY <2>1, SeqWithin
<1>4. Range(wr.todo) = {}
  BY <1>1 DEF Range
<1>5. Range(wr.roots) \subseteq Range(wr.order) \cup {NULL}
  BY <1>1, <1>4 DEF Numbering
<1>6. Numbering'
  BY <1>1, <1>2, <1>3, <1>5 DEF Numbering
<1>7. Pooling'
  BY <1>1, <1>2 DEF Pooling
<1>. QED  BY <1>1, <1>6, <1>7, WriterKeepsGraph DEF WriterGraph, Writing, Collecting

LEMMA PooledHas ==
    ASSUME NEW pool, Sequence(pool), NEW text
    PROVE  /\ Sequence(Pooled(pool, text)) /\ Range(pool) \subseteq Range(Pooled(pool, text))
           /\ CString(text) \in Range(Pooled(pool, text))
BY ElementAppended, RangeAppended DEF Pooled

LEMMA PoolKeepsGraph ==
    ASSUME ImageInv, GraphInv, Pool
    PROVE  GraphInv'
<1>. DEFINE a == Head(wr.todo)  t == mem.th[a]  N == Len(mem.th)
            sp == IF t.kind \in InStrings THEN Pooled(wr.sp, t.text) ELSE wr.sp
            yp == IF t.kind \in InSymbols THEN Pooled(wr.yp, t.text) ELSE wr.yp
<1>1. op = "pools" /\ wr.todo # <<>> /\ Numbering /\ Pooling /\ LocalsAreRecords
  BY DEF Pool, GraphInv, WriterGraph, Writing, Collecting, ImageInv
<1>2. CASE Fails
  BY <1>2, IdleKeepsGraph DEF Fails
<1>3. CASE ~ Fails
  <2>1. op' = "pools" /\ UNCHANGED <<mem, held, file, wrote>>
    BY <1>1, <1>3 DEF Pool
  <2>2. /\ wr.todo \in Seq(0..N) /\ wr.order \in Seq(1..N) /\ Sequence(wr.sp) /\ Sequence(wr.yp)
        /\ Range(wr.roots) \subseteq Range(wr.order) \cup {NULL}
    BY <1>1 DEF Numbering
  <2>3. /\ a \in 0..N
        /\ Tail(wr.todo) \in Seq(0..N) /\ Range(wr.todo) = {a} \cup Range(Tail(wr.todo))
    BY <1>1, <2>2, HeadAndTail
  <2>4. /\ wr'.roots = wr.roots /\ wr'.order = wr.order
        /\ \/ a = NULL /\ wr'.todo = Tail(wr.todo) /\ wr'.sp = wr.sp /\ wr'.yp = wr.yp
           \/ a # NULL /\ wr'.todo = t.kids \o Tail(wr.todo) /\ wr'.sp = sp /\ wr'.yp = yp
    BY <1>1, <1>3 DEF Pool, LocalsAreRecords, InStrings, InSymbols
  <2>5. ASSUME wr'.todo \in Seq(0..N), Sequence(wr'.sp), Sequence(wr'.yp), Pooling'
        PROVE  GraphInv'
    <3>1. Numbering'
      BY <1>1, <2>1, <2>2, <2>4, <2>5 DEF Numbering
    <3>. QED  BY <2>1, <2>5, <3>1, WriterKeepsGraph DEF WriterGraph, Writing, Collecting
  <2>6. CASE a = NULL /\ wr'.todo = Tail(wr.todo) /\ wr'.sp = wr.sp /\ wr'.yp = wr.yp
    <3>1. ASSUME NEW b \in Range(wr.order), b \in Range(wr.todo) PROVE b \in Range(Tail(wr.todo))
      <4>1. b \in 1..N
        <5>1. Sequence(wr.order)
          BY <2>2, SequenceOf
        <5>. QED  BY <2>2, <5>1, InRange, ElementOfSeq
      <4>2. b # a
        BY <2>6, <4>1 DEF NULL
      <4>. QED  BY <2>3, <3>1, <4>2
    <3>2. Pooling'
      BY <1>1, <2>1, <2>4, <2>6, <3>1 DEF Pooling
    <3>. QED  BY <2>2, <2>3, <2>5, <2>6, <3>2
  <2>7. CASE a # NULL /\ wr'.todo = t.kids \o Tail(wr.todo) /\ wr'.sp = sp /\ wr'.yp = yp
    <3>1. a \in 1..N /\ N \in Nat
      BY <2>3, <2>7, SequenceProperties DEF NULL, GraphInv, MemInv, GoodThunks
    <3>2. t.kids \in Seq(0..N)
      BY <3>1 DEF GraphInv, MemInv, GoodThunks, GoodThunk
    <3>3. wr'.todo \in Seq(0..N) /\ Range(Tail(wr.todo)) \subseteq Range(wr'.todo)
      <4>. DEFINE kids == t.kids
      <4>1. kids \in Seq(0..N)
        BY <3>2
      <4>. HIDE DEF kids, N
      <4>2. kids \o Tail(wr.todo) \in Seq(0..N) /\ Range(Tail(wr.todo)) \subseteq Range(kids \o Tail(wr.todo))
        BY <1>1, <2>2, <4>1, TodoGrows
      <4>. QED  BY <2>7, <4>2 DEF kids
    <3>4. /\ Sequence(sp) /\ Range(wr.sp) \subseteq Range(sp)
          /\ Sequence(yp) /\ Range(wr.yp) \subseteq Range(yp)
          /\ TextPooled(t, sp, yp)
      <4>. HIDE DEF t
      <4>. QED  BY <2>2, PooledHas DEF TextPooled
    <3>. HIDE DEF sp, yp
    <3>5. \A u : TextPooled(u, wr.sp, wr.yp) => TextPooled(u, sp, yp)
      BY <3>4 DEF TextPooled
    <3>6. Pooling'
      <4>1. ASSUME NEW b \in Range(wr.order)
            PROVE  b \in Range(wr'.todo) \/ TextPooled(mem.th[b], sp, yp)
        <5>1. CASE b = a
          BY <3>4, <5>1
        <5>2. CASE b # a
          BY <1>1, <2>3, <3>3, <3>5, <4>1, <5>2 DEF Pooling
        <5>. QED  BY <5>1, <5>2
      <4>. QED  BY <2>1, <2>4, <2>7, <4>1 DEF Pooling
    <3>. QED  BY <2>5, <2>7, <3>3, <3>4, <3>6
  <2>. QED  BY <2>4, <2>6, <2>7
<1>. QED  BY <1>2, <1>3

\* A part is put behind the others.
LEMMA PartAppended ==
    ASSUME NEW s, Sequence(s), NEW p
    PROVE  /\ Len(s) \in Nat /\ Len(s \o <<p>>) = Len(s) + 1
           /\ (s \o <<p>>)[Len(s) + 1] = p
           /\ \A i \in 1..Len(s) : (s \o <<p>>)[i] = s[i]
<1>. DEFINE t == <<p>>  S == Range(s) \cup {p}
<1>1. t \in Seq(S) /\ Len(t) = 1 /\ t[1] = p
  OBVIOUS
<1>2. s \in Seq(S)
  BY SeqWithin DEF Sequence
<1>. HIDE DEF t, S
<1>3. IsJoined(s \o t, s, t)
  BY <1>1, <1>2, JoinedAt
<1>4. Len(s) \in Nat /\ 1 \in 1..Len(t)
  BY <1>1, SequenceProperties
<1>. QED  BY <1>1, <1>3, <1>4 DEF IsJoined, t

LEMMA CountsAppended ==
    ASSUME NEW s, Sequence(s), Len(s) = 2, NEW p, NEW q, NEW c
    PROVE  /\ (s \o <<p, q, c>>)[2] = s[2]
           /\ (s \o <<p, q, c>>)[3] = p
<1>. DEFINE t == <<p, q, c>>  S == Range(s) \cup {p, q, c}
<1>1. t \in Seq(S) /\ Len(t) = 3 /\ t[1] = p
  OBVIOUS
<1>2. s \in Seq(S)
  BY SeqWithin DEF Sequence
<1>. HIDE DEF t, S
<1>3. IsJoined(s \o t, s, t)
  BY <1>1, <1>2, JoinedAt
<1>4. (s \o t)[2] = s[2] /\ (s \o t)[2 + 1] = t[1]
  <2>1. 2 \in 1..Len(s) /\ 1 \in 1..Len(t)
    BY <1>1
  <2>. QED  BY <1>3, <2>1 DEF IsJoined
<1>. QED  BY <1>1, <1>4 DEF t

\* A step that writes a part and is not the last of its write.
LEMMA PutKeepsGraph ==
    ASSUME ImageInv, GraphInv, op \in Writing, op' \in Writing, UNCHANGED <<mem, held, wrote>>,
           PartsInv', WriterGraph'
    PROVE  GraphInv'
<1>1. wrote = NoGraph
  BY DEF ImageInv, WriterInv
<1>. QED  BY <1>1 DEF GraphInv, MemInv, WrittenInv, ReaderGraph, Writing, Collecting, Reads

LEMMA HeaderKeepsGraph ==
    ASSUME ImageInv, GraphInv, WriteHeader
    PROVE  GraphInv'
<1>1. /\ op = "pools" /\ op' = "sp" /\ wr.todo = <<>> /\ UNCHANGED <<mem, held, wr, wrote>>
      /\ Len(file) = 0 /\ Numbering /\ Pooling /\ Sequence(file)
  BY DEF WriteHeader, Put, GraphInv, WriterGraph, ImageInv, WriterInv, Writing, Collecting, CountsAreNumbers
<1>2. PICK p : file' = file \o <<p>>
  BY DEF WriteHeader, Put
<1>3. Len(file') = 1
  BY <1>1, <1>2, PartAppended
<1>4. Numbering'
  BY <1>1 DEF Numbering
<1>5. Pooling'
  <2>1. \A a : a \notin Range(wr.todo)
    BY <1>1 DEF Range
  <2>. QED  BY <1>1, <2>1 DEF Pooling
<1>6. PartsInv'
  BY <1>3 DEF PartsInv
<1>. QED  BY <1>1, <1>4, <1>5, <1>6, PutKeepsGraph DEF WriterGraph, Writing, Collecting

LEMMA PoolPartKeepsGraph ==
    ASSUME ImageInv, GraphInv, WritePool
    PROVE  GraphInv'
<1>. DEFINE p == [part |-> "pool", texts |-> wr.sp]
<1>1. /\ op = "sp" /\ op' = "yp" /\ UNCHANGED <<mem, held, wr, wrote>> /\ file' = file \o <<p>>
      /\ Len(file) = 1 /\ Numbering /\ Pooling /\ Sequence(file)
  BY DEF WritePool, Put, GraphInv, WriterGraph, ImageInv, WriterInv, Writing, Collecting, CountsAreNumbers
<1>2. p.texts = wr.sp
  OBVIOUS
<1>. HIDE DEF p
<1>3. Len(file') = 2 /\ file'[2] = p
  <2>1. Len(file') = Len(file) + 1 /\ file'[Len(file) + 1] = p
    BY <1>1, PartAppended
  <2>2. Len(file) + 1 = 2
    BY <1>1
  <2>. QED  BY <2>1, <2>2
<1>4. Numbering' /\ Pooling'
  BY <1>1 DEF Numbering, Pooling
<1>5. PartsInv'
  BY <1>3 DEF PartsInv
<1>. QED  BY <1>1, <1>2, <1>3, <1>4, <1>5, PutKeepsGraph DEF WriterGraph, Writing, Collecting

LEMMA CountsKeepGraph ==
    ASSUME ImageInv, GraphInv, WriteCounts
    PROVE  GraphInv'
<1>. DEFINE p == [part |-> "pool", texts |-> wr.yp]
            c == [part |-> "count", n |-> Len(wr.order)]
<1>1. /\ op = "yp" /\ op' = "thunks" /\ UNCHANGED <<mem, held, wrote>>
      /\ wr' = [wr EXCEPT !.todo = wr.order] /\ file[2].texts = wr.sp
      /\ Len(file) = 2 /\ Numbering /\ Pooling /\ Sequence(file) /\ LocalsAreRecords
  BY DEF WriteCounts, Put, GraphInv, WriterGraph, ImageInv, WriterInv, Writing, Collecting, CountsAreNumbers
<1>2. PICK q : file' = file \o <<p, q, c>>
  BY DEF WriteCounts, Put
<1>3. p.texts = wr.yp /\ c.n = Len(wr.order)
  OBVIOUS
<1>. HIDE DEF p, c
<1>4. /\ wr'.roots = wr.roots /\ wr'.sp = wr.sp /\ wr'.yp = wr.yp
      /\ wr'.order = wr.order /\ wr'.todo = wr.order
  BY <1>1 DEF LocalsAreRecords
<1>5. Len(file') = 5 /\ file'[5] = c /\ file'[2] = file[2] /\ file'[3] = p
  BY <1>1, <1>2, CountLast, CountsAppended
<1>6. wr.order \in Seq(1..Len(mem.th)) /\ Len(wr.order) \in Nat
  BY <1>1, LenProperties DEF Numbering
<1>7. Numbering'
  <2>1. wr.order \in Seq(0..Len(mem.th))
    BY <1>6, SeqWithin
  <2>. QED  BY <1>1, <1>4, <2>1 DEF Numbering
<1>8. Pooling'
  BY <1>1, <1>4 DEF Pooling
<1>9. Entering'
  <2>1. Len(wr'.order) - Len(wr'.todo) = 0 /\ \A i \in 1..0 : FALSE
    BY <1>4, <1>6
  <2>2. \A i \in 1..Len(wr'.todo) : wr'.todo[i] = wr'.order[0 + i]
    BY <1>4, <1>6
  <2>. QED  BY <1>1, <1>3, <1>4, <1>5, <2>1, <2>2 DEF Entering
<1>10. PartsInv'
  BY <1>3, <1>5, <1>6 DEF PartsInv
<1>. QED  BY <1>1, <1>7, <1>8, <1>9, <1>10, PutKeepsGraph DEF WriterGraph, Writing, Collecting

LEMMA ThunkKeepsGraph ==
    ASSUME ImageInv, GraphInv, WriteThunk
    PROVE  GraphInv'
<1>. DEFINE a == Head(wr.todo)  t == mem.th[a]  N == Len(mem.th)
            n == Len(wr.order)  done == n - Len(wr.todo)
<1>1. /\ op = "thunks" /\ wr.todo # <<>> /\ Numbering /\ Pooling /\ Entering /\ LocalsAreRecords /\ PartsInv
      /\ Sequence(file) /\ Len(file) = 5 + n - Len(wr.todo) /\ file[5].n = n /\ Len(wr.todo) <= n
  BY DEF WriteThunk, GraphInv, WriterGraph, ImageInv, WriterInv, Writing, Collecting, CountsAreNumbers
<1>2. CASE Fails
  BY <1>2, IdleKeepsGraph DEF Fails
<1>3. CASE ~ Fails
  <2>1. /\ op' = "thunks" /\ UNCHANGED <<mem, held, wrote>>
        /\ wr' = [wr EXCEPT !.todo = Tail(@)] /\ file' = file \o << Entry(t) >>
        /\ Range(t.kids) \subseteq Range(wr.order)
    BY <1>1, <1>3 DEF WriteThunk, Put
  <2>2. /\ wr'.roots = wr.roots /\ wr'.sp = wr.sp /\ wr'.yp = wr.yp
        /\ wr'.order = wr.order /\ wr'.todo = Tail(wr.todo)
    BY <1>1, <2>1 DEF LocalsAreRecords
  <2>3. /\ wr.order \in Seq(1..N) /\ wr.todo \in Seq(0..N) /\ n \in Nat /\ Len(wr.todo) \in Nat
        /\ Sequence(wr.order) /\ Sequence(wr.sp) /\ Sequence(wr.yp)
    BY <1>1, LenProperties, SequenceOf DEF Numbering
  <2>4. /\ Tail(wr.todo) \in Seq(0..N) /\ Len(Tail(wr.todo)) = Len(wr.todo) - 1
        /\ Len(wr.todo) >= 1 /\ a = wr.todo[1]
        /\ \A i \in 1 .. Len(wr.todo) - 1 : Tail(wr.todo)[i] = wr.todo[i + 1]
    BY <1>1, <2>3, HeadAndTail
  <2>5. done \in Nat /\ done + 1 <= n /\ Len(file) = 5 + done /\ a = wr.order[done + 1]
    <3>1. 1 \in 1..Len(wr.todo)
      BY <2>3, <2>4
    <3>2. wr.todo[1] = wr.order[done + 1]
      BY <1>1, <3>1 DEF Entering
    <3>3. done \in Nat /\ done + 1 <= n /\ Len(file) = 5 + done
      <4>. DEFINE m == Len(wr.todo)
      <4>1. n \in Nat /\ m \in Nat /\ m >= 1 /\ m <= n /\ Len(file) = 5 + n - m
        BY <1>1, <2>3, <2>4
      <4>. HIDE DEF m, n
      <4>. QED  BY <4>1 DEF m
    <3>. QED  BY <2>4, <3>2, <3>3
  <2>. HIDE DEF done
  <2>6. a \in Range(wr.order) /\ a \in 1..N /\ done + 1 \in 1..n
    <3>1. done + 1 \in 1..n
      <4>. HIDE DEF n
      <4>. QED  BY <2>3, <2>5
    <3>2. Sequence(wr.order) /\ wr.order \in Seq(1..N) /\ a = wr.order[done + 1]
      BY <2>3, <2>5
    <3>. HIDE DEF a, N
    <3>3. a \in Range(wr.order)
      BY <3>1, <3>2, InRange
    <3>4. a \in 1..N
      BY <3>1, <3>2, ElementOfSeq
    <3>. QED  BY <3>1, <3>3, <3>4
  <2>7. IsEntry(Entry(t), t, wr.order, wr.sp, wr.yp) /\ Entry(t).kids \in Seq(1..n)
    <3>1. t.kind \in Savable
      <4>. QED  BY <1>1, <2>5, <2>6 DEF Numbering
    <3>2. TextPooled(t, wr.sp, wr.yp)
      BY <1>1, <2>6 DEF Pooling
    <3>3. Sequence(t.kids)
      <4>1. t.kids \in Seq(0..N)
        BY <2>6 DEF GraphInv, MemInv, GoodThunks, GoodThunk
      <4>. QED  BY <4>1, SequenceOf
    <3>. HIDE DEF t, a
    <3>4. IdsOf(wr.order, t.kids) \in Seq(1..n)
      BY <2>1, <2>3, <3>3, IdsOfKnown
    <3>5. /\ Entry(t).kind = t.kind /\ Entry(t).num = t.num /\ Entry(t).kids = IdsOf(wr.order, t.kids)
          /\ t.kind \in InStrings => Entry(t).text = IdOf(wr.sp, CString(t.text))
          /\ t.kind \in InSymbols => Entry(t).text = IdOf(wr.yp, CString(t.text))
      BY DEF Entry, InStrings, InSymbols
    <3>6. t.kind \in InStrings => Entry(t).text \in 1..Len(wr.sp) /\ wr.sp[Entry(t).text] = CString(t.text)
      BY <2>3, <3>2, <3>5, IdOfKnown DEF TextPooled
    <3>7. t.kind \in InSymbols => Entry(t).text \in 1..Len(wr.yp) /\ wr.yp[Entry(t).text] = CString(t.text)
      BY <2>3, <3>2, <3>5, IdOfKnown DEF TextPooled
    <3>. QED  BY <2>1, <3>1, <3>4, <3>5, <3>6, <3>7 DEF IsEntry
  <2>. DEFINE e == Entry(t)
  <2>8. IsEntry(e, mem.th[wr.order[done + 1]], wr.order, wr.sp, wr.yp) /\ e.kids \in Seq(1..n)
    BY <2>5, <2>7
  <2>9. file' = file \o <<e>>
    BY <2>1
  <2>. HIDE DEF e, t, a
  <2>10. /\ Len(file') = 6 + done /\ file'[6 + done] = e
         /\ \A i \in 1 .. 5 + done : file'[i] = file[i]
    <3>1. /\ Len(file') = Len(file) + 1 /\ file'[Len(file) + 1] = e
          /\ \A i \in 1..Len(file) : file'[i] = file[i]
      <4>1. Sequence(file)
        BY <1>1
      <4>. QED  BY <4>1, <2>9, PartAppended
    <3>2. Len(file) + 1 = 6 + done
      BY <2>5
    <3>. QED  BY <2>5, <3>1, <3>2
  <2>11. file'[2] = file[2] /\ file'[3] = file[3] /\ file'[5] = file[5]
    BY <2>5, <2>10
  <2>12. Len(wr'.order) - Len(wr'.todo) = done + 1
    <3>. DEFINE m == Len(wr.todo)
    <3>1. Len(wr'.order) = n /\ Len(wr'.todo) = m - 1 /\ n \in Nat /\ m \in Nat
      BY <2>2, <2>3, <2>4
    <3>. HIDE DEF m, n
    <3>. QED  BY <3>1 DEF done, m
  <2>13. Entering'
    <3>1. ASSUME NEW i \in 1 .. done + 1
          PROVE  IsEntry(file'[5 + i], mem.th[wr.order[i]], wr.order, wr.sp, wr.yp)
      <4>1. CASE i = done + 1
        <5>1. file'[5 + i] = e
          BY <2>5, <2>10, <4>1
        <5>. QED  BY <2>8, <4>1, <5>1
      <4>2. CASE i # done + 1
        <5>1. i \in 1..done /\ 5 + i \in 1 .. 5 + done
          BY <2>5, <4>2
        <5>2. file'[5 + i] = file[5 + i]
          BY <2>10, <5>1
        <5>3. IsEntry(file[5 + i], mem.th[wr.order[i]], wr.order, wr.sp, wr.yp)
          BY <1>1, <5>1 DEF Entering, done
        <5>. QED  BY <5>2, <5>3
      <4>. QED  BY <4>1, <4>2
    <3>2. ASSUME NEW i \in 1..Len(wr'.todo) PROVE wr'.todo[i] = wr.order[done + 1 + i]
      <4>1. i \in 1 .. Len(wr.todo) - 1 /\ i + 1 \in 1..Len(wr.todo) /\ done + (i + 1) = done + 1 + i
        BY <2>2, <2>3, <2>4, <2>5
      <4>2. wr'.todo[i] = wr.todo[i + 1]
        BY <2>2, <2>4, <4>1
      <4>3. wr.todo[i + 1] = wr.order[done + (i + 1)]
        BY <1>1, <4>1 DEF Entering, done
      <4>. QED  BY <4>1, <4>2, <4>3
    <3>3. file'[2].texts = wr.sp /\ file'[3].texts = wr.yp
      BY <1>1, <2>11 DEF Entering
    <3>. QED  BY <2>1, <2>2, <2>12, <3>1, <3>2, <3>3 DEF Entering
  <2>14. Numbering' /\ Pooling'
    BY <1>1, <2>1, <2>2, <2>4 DEF Numbering, Pooling
  <2>15. PartsInv'
    <3>1. file'[5].n = n
      BY <1>1, <2>11
    <3>2. ASSUME NEW i \in 6 .. 5 + n, i <= Len(file') PROVE file'[i].kids \in Seq(1..n)
      <4>1. CASE i = 6 + done
        BY <2>8, <2>10, <4>1
      <4>2. CASE i # 6 + done
        <5>1. i \in 1 .. 5 + done /\ i <= Len(file) /\ Len(file) >= 5
          BY <2>3, <2>5, <2>10, <3>2, <4>2
        <5>2. file[i].kids \in Seq(1..n)
          BY <1>1, <5>1 DEF PartsInv
        <5>. QED  BY <2>10, <5>1, <5>2
      <4>. QED  BY <4>1, <4>2
    <3>3. ~ (Len(file') >= 6 + n)
      BY <2>3, <2>5, <2>10
    <3>. QED  BY <3>1, <3>2, <3>3 DEF PartsInv
  <2>. QED  BY <1>1, <2>1, <2>13, <2>14, <2>15, PutKeepsGraph DEF WriterGraph, Writing, Collecting
<1>. QED  BY <1>2, <1>3

LEMMA RootsKeepGraph ==
    ASSUME ImageInv, GraphInv, WriteRoots
    PROVE  GraphInv'
<1>. DEFINE n == Len(wr.order)  N == Len(mem.th)
            p == [part |-> "roots", ids |-> IdsOf(wr.order, wr.roots)]
            graph == [mem |-> mem, roots |-> wr.roots]
<1>1. /\ op = "thunks" /\ wr.todo = <<>> /\ Numbering /\ Pooling /\ Entering /\ PartsInv /\ MemInv
      /\ Sequence(file) /\ Len(file) = 5 + n - Len(wr.todo) /\ file[5].n = n
  BY DEF WriteRoots, GraphInv, WriterGraph, ImageInv, WriterInv, Writing, Collecting, CountsAreNumbers
<1>2. CASE Fails
  BY <1>2, IdleKeepsGraph DEF Fails
<1>3. CASE ~ Fails
  <2>1. /\ op' = "idle" /\ UNCHANGED <<mem, held>> /\ file' = file \o <<p>>
        /\ wrote' = <<graph>> /\ NULL \notin Range(wr.roots)
    BY <1>1, <1>3 DEF WriteRoots, Put
  <2>2. /\ wr.order \in Seq(1..N) /\ Distinct(wr.order) /\ n \in Nat /\ Sequence(wr.order)
        /\ Sequence(wr.roots) /\ Range(wr.roots) \subseteq Range(wr.order)
    BY <1>1, <2>1, LenProperties, SequenceOf DEF Numbering
  <2>3. Len(wr.todo) = 0 /\ Len(file) = 5 + n
    BY <1>1, <2>2, EmptySeq
  <2>4. p.ids = IdsOf(wr.order, wr.roots) /\ p.ids \in Seq(1..n)
    BY <2>2, IdsOfKnown
  <2>. HIDE DEF p
  <2>5. /\ Len(file') = 6 + n /\ file'[6 + n] = p
        /\ \A i \in 1 .. 5 + n : file'[i] = file[i]
    <3>1. /\ Len(file') = Len(file) + 1 /\ file'[Len(file) + 1] = p
          /\ \A i \in 1..Len(file) : file'[i] = file[i]
      BY <1>1, <2>1, PartAppended
    <3>2. Len(file) + 1 = 6 + n
      BY <2>2, <2>3
    <3>. QED  BY <2>2, <2>3, <3>1, <3>2
  <2>6. file'[2] = file[2] /\ file'[3] = file[3] /\ file'[5] = file[5]
    BY <2>2, <2>5
  <2>7. wrote'[1] = graph /\ graph.mem = mem /\ graph.roots = wr.roots
    BY <2>1
  <2>. HIDE DEF graph, n
  <2>8. \A i \in 1..n : IsEntry(file'[5 + i], mem.th[wr.order[i]], wr.order, file'[2].texts, file'[3].texts)
    <3>1. n - Len(wr.todo) = n
      BY <2>2, <2>3
    <3>. SUFFICES ASSUME NEW i \in 1..n
                  PROVE IsEntry(file'[5 + i], mem.th[wr.order[i]], wr.order, file'[2].texts, file'[3].texts)
      OBVIOUS
    <3>2. IsEntry(file[5 + i], mem.th[wr.order[i]], wr.order, wr.sp, wr.yp)
      BY <1>1, <3>1 DEF Entering, n
    <3>3. 5 + i \in 1 .. 5 + n
      BY <2>2
    <3>. QED  BY <1>1, <2>5, <2>6, <3>2, <3>3 DEF Entering
  <2>9. \E o : IsImage(o, wrote[1])'
    <3>1. GoodThunks(mem.th) /\ "th" \in DOMAIN mem
      BY <1>1 DEF MemInv
    <3>. QED  BY <1>1, <2>2, <2>4, <2>5, <2>6, <2>7, <2>8, <3>1 DEF IsImage, n
  <2>10. WrittenInv'
    BY <2>7, <2>9 DEF WrittenInv
  <2>11. PartsInv'
    <3>1. file'[5].n = n
      BY <1>1, <2>6 DEF n
    <3>2. ASSUME NEW i \in 6 .. 5 + n PROVE file'[i].kids \in Seq(1..n)
      <4>1. i \in 1 .. 5 + n /\ i <= Len(file) /\ Len(file) >= 5
        BY <2>2, <2>3
      <4>2. file[i].kids \in Seq(1..n)
        BY <1>1, <4>1 DEF PartsInv, n
      <4>. QED  BY <2>5, <4>1, <4>2
    <3>. QED  BY <2>4, <2>5, <3>1, <3>2 DEF PartsInv
  <2>12. MemInv'
    BY <1>1, <2>1 DEF MemInv
  <2>. QED  BY <2>1, <2>10, <2>11, <2>12 DEF GraphInv, WriterGraph, ReaderGraph, Writing, Collecting, Reads
<1>. QED  BY <1>2, <1>3

\* A step of the reader that makes nothing.
LEMMA ReaderKeepsGraph ==
    ASSUME GraphInv, op' \notin Writing, UNCHANGED <<mem, held, file, wrote>>, ReaderGraph'
    PROVE  GraphInv'
BY DEF GraphInv, MemInv, PartsInv, WrittenInv, IsImage, WriterGraph

\* A file whose write was completed has its roots behind its thunks.
LEMMA CompleteFile ==
    ASSUME ImageInv, wrote # NoGraph
    PROVE  Len(file) \in Nat /\ Len(file) >= 6 /\ file[5].n \in Nat /\ Len(file) = 6 + file[5].n
BY SequenceProperties DEF ImageInv, FileInv, CountsAreNumbers

LEMMA PoolsReadKeepGraph ==
    ASSUME ImageInv, GraphInv, ReadHeader \/ ReadStrings \/ ReadSymbols \/ ReadPatterns \/ ReadCount
    PROVE  GraphInv'
<1>1. LocalsAreRecords /\ ReaderGraph /\ (Reading => ReaderInv) /\ Len(file) \in Nat
  BY SequenceProperties DEF ImageInv, GraphInv, CountsAreNumbers
<1>2. CASE Fails
  BY <1>2, IdleKeepsGraph DEF Fails
<1>3. CASE ~ Fails /\ ReadHeader
  <2>1. op' = "rsp" /\ UNCHANGED <<mem, held, file, wrote>>
    BY <1>3 DEF ReadHeader, Get
  <2>2. ReaderGraph'
    BY <2>1 DEF ReaderGraph, Reads
  <2>. QED  BY <2>1, <2>2, ReaderKeepsGraph DEF Writing, Collecting
<1>4. CASE ~ Fails /\ ReadStrings
  <2>1. op = "rsp" /\ op' = "ryp" /\ UNCHANGED <<mem, held, file, wrote>>
    BY <1>4 DEF ReadStrings, Get
  <2>2. rd.at = 1
    BY <1>1, <2>1 DEF Reading, ReaderInv
  <2>3. wrote # NoGraph => rd'.sp = file[2].texts
    <3>. SUFFICES ASSUME wrote # NoGraph PROVE rd'.sp = file[2].texts
      OBVIOUS
    <3>1. rd.at < Len(file)
      BY <2>2, CompleteFile
    <3>2. rd' = [[rd EXCEPT !.sp = file[rd.at + 1].texts] EXCEPT !.at = rd.at + 1]
      BY <1>4, <3>1 DEF ReadStrings, Get
    <3>3. rd'.sp = file[rd.at + 1].texts
      BY <1>1, <3>2 DEF LocalsAreRecords
    <3>. QED  BY <2>2, <3>3
  <2>4. ReaderGraph'
    BY <2>1, <2>3 DEF ReaderGraph, Reads
  <2>. QED  BY <2>1, <2>4, ReaderKeepsGraph DEF Writing, Collecting
<1>5. CASE ~ Fails /\ ReadSymbols
  <2>1. op = "ryp" /\ op' = "rpatterns" /\ UNCHANGED <<mem, held, file, wrote>>
    BY <1>5 DEF ReadSymbols, Get
  <2>2. rd.at = 2 \/ (rd.at = Len(file) /\ rd.at < 2)
    BY <1>1, <2>1 DEF Reading, ReaderInv
  <2>3. wrote # NoGraph => rd'.sp = file[2].texts /\ rd'.yp = file[3].texts
    <3>. SUFFICES ASSUME wrote # NoGraph PROVE rd'.sp = file[2].texts /\ rd'.yp = file[3].texts
      OBVIOUS
    <3>1. rd.at < Len(file) /\ rd.at = 2
      BY <2>2, CompleteFile
    <3>2. rd' = [[rd EXCEPT !.yp = file[rd.at + 1].texts] EXCEPT !.at = rd.at + 1]
      BY <1>5, <3>1 DEF ReadSymbols, Get
    <3>3. rd'.yp = file[rd.at + 1].texts /\ rd'.sp = rd.sp
      BY <1>1, <3>2 DEF LocalsAreRecords
    <3>4. rd.sp = file[2].texts
      BY <1>1, <2>1 DEF ReaderGraph
    <3>. QED  BY <3>1, <3>3, <3>4
  <2>4. ReaderGraph'
    BY <2>1, <2>3 DEF ReaderGraph, Reads
  <2>. QED  BY <2>1, <2>4, ReaderKeepsGraph DEF Writing, Collecting
<1>6. CASE ~ Fails /\ ReadPatterns
  <2>1. /\ op = "rpatterns" /\ op' = "rcount" /\ UNCHANGED <<mem, held, file, wrote>>
        /\ rd' = [rd EXCEPT !.at = rd.at + 1]
    BY <1>6 DEF ReadPatterns, Get
  <2>2. rd'.sp = rd.sp /\ rd'.yp = rd.yp
    BY <1>1, <2>1 DEF LocalsAreRecords
  <2>3. ReaderGraph'
    BY <1>1, <2>1, <2>2 DEF ReaderGraph, Reads
  <2>. QED  BY <2>1, <2>3, ReaderKeepsGraph DEF Writing, Collecting
<1>7. CASE ~ Fails /\ ReadCount
  <2>1. /\ op = "rcount" /\ op' = "rthunks" /\ UNCHANGED <<mem, held, file, wrote>>
        /\ \E s : rd' = [[rd EXCEPT !.entries = s] EXCEPT !.at = rd.at + 1]
    BY <1>7 DEF ReadCount, Get
  <2>2. rd'.sp = rd.sp /\ rd'.yp = rd.yp /\ rd'.nodes = rd.nodes
    BY <1>1, <2>1 DEF LocalsAreRecords
  <2>3. rd'.nodes = <<>>
    BY <1>1, <2>1, <2>2 DEF Reading, ReaderInv
  <2>4. <<>> \in Seq(1..Len(mem.th)) /\ Len(<<>>) = 0 /\ \A i \in 1..0 : FALSE
    BY EmptySeq
  <2>5. Making' /\ Copying'
    BY <2>1, <2>3, <2>4 DEF Making, Copying, Distinct
  <2>6. ReaderGraph'
    BY <1>1, <2>1, <2>2, <2>5 DEF ReaderGraph, Reads
  <2>. QED  BY <2>1, <2>6, ReaderKeepsGraph DEF Writing, Collecting
<1>. QED  BY <1>2, <1>3, <1>4, <1>5, <1>6, <1>7

\* A thunk of a memory is one of a larger memory.
LEMMA GoodThunkGrows ==
    ASSUME NEW m \in Nat, NEW n \in Nat, m <= n, NEW t, GoodThunk(m, t)
    PROVE  GoodThunk(n, t)
<1>1. 0..m \subseteq 0..n
  OBVIOUS
<1>2. t.kids \in Seq(0..n)
  BY <1>1, SeqWithin DEF GoodThunk
<1>. QED  BY <1>2 DEF GoodThunk

LEMMA NewThunkIs ==
    ASSUME NEW e, NEW n \in Nat, NEW m, e.kids \in Seq(1..m)
    PROVE  /\ GoodThunk(n, NewThunk(e))
           /\ NewThunk(e).kind = e.kind /\ NewThunk(e).num = e.num
           /\ NewThunk(e).text = TextFor(e, rd.sp, rd.yp)
<1>. DEFINE u == NewThunk(e)
            kids == [k \in DOMAIN e.kids |-> NULL]
<1>1. /\ DOMAIN u = ThunkFields /\ u.kind = e.kind /\ u.num = e.num /\ u.kids = kids
      /\ u.text = TextFor(e, rd.sp, rd.yp)
  BY DEF NewThunk, Thunk, ThunkFields, TextFor, InStrings, InSymbols
<1>2. kids \in Seq(0..n)
  <2>1. DOMAIN e.kids = 1..Len(e.kids) /\ Len(e.kids) \in Nat
    BY LenProperties
  <2>2. kids \in [1..Len(e.kids) -> 0..n]
    BY <2>1 DEF NULL
  <2>. QED  BY <2>1, <2>2, SeqDef
<1>3. e.kind \notin TextKinds => TextFor(e, rd.sp, rd.yp) = NoText
  BY DEF TextFor, TextKinds, InStrings, InSymbols
<1>. HIDE DEF u, kids
<1>. QED  BY <1>1, <1>2, <1>3 DEF GoodThunk, u

LEMMA ThunkReadKeepsGraph ==
    ASSUME ImageInv, GraphInv, ReadThunk
    PROVE  GraphInv'
<1>. DEFINE N == Len(mem.th)  j == Len(rd.nodes)  n == file[5].n
            e == file[rd.at + 1]
            u == NewThunk(e)
<1>1. CASE Fails
  BY <1>1, IdleKeepsGraph DEF Fails
<1>2. CASE ~ Fails
  <2>1. /\ op = "rthunks" /\ op' = "rthunks" /\ j < Len(rd.entries)
        /\ mem' = [mem EXCEPT !.th = Append(@, u)]
        /\ rd' = [rd EXCEPT !.at = @ + 1, !.entries[j + 1] = e, !.nodes = Append(@, N + 1)]
        /\ UNCHANGED <<held, file, wr, ops, wrote>> /\ rd.at < Len(file)
    BY <1>2 DEF ReadThunk
  <2>2. /\ LocalsAreRecords /\ ReaderInv /\ MemInv /\ PartsInv /\ WrittenInv /\ ReaderGraph /\ Making
        /\ Sequence(file) /\ FileInv
    BY <2>1 DEF GraphInv, ImageInv, ReaderGraph, Reads, Reading, CountsAreNumbers
  <2>3. /\ N \in Nat /\ Sequence(mem.th) /\ Sequence(rd.nodes) /\ Sequence(rd.entries)
        /\ j \in Nat /\ rd.at = 5 + j /\ Len(rd.entries) = n /\ n \in Nat /\ j + 1 <= n
        /\ 5 + (j + 1) <= Len(file) /\ e = file[5 + (j + 1)] /\ Len(file) >= 5
    <3>1. N \in Nat /\ Sequence(mem.th)
      BY <2>2, SequenceProperties DEF MemInv, GoodThunks
    <3>2. Sequence(rd.nodes) /\ Sequence(rd.entries) /\ rd.at = 5 + j /\ Len(rd.entries) = n /\ Len(file) >= 5
      BY <2>1, <2>2 DEF ReaderInv
    <3>3. j \in Nat /\ n \in Nat /\ Len(file) \in Nat
      BY <2>2, <3>2, SequenceProperties
    <3>. HIDE DEF n, e, N, j
    <3>4. rd.at + 1 = 5 + (j + 1)
      BY <3>2, <3>3
    <3>. QED  BY <2>1, <3>1, <3>2, <3>3, <3>4 DEF e
  <2>4. e.kids \in Seq(1..n)
    <3>. HIDE DEF n, e, j
    <3>1. 5 + (j + 1) \in 6 .. 5 + n
      BY <2>3
    <3>. QED  BY <2>2, <2>3, <3>1 DEF PartsInv, n
  <2>. HIDE DEF e, n
  <2>5. /\ GoodThunk(N + 1, u) /\ u.kind = e.kind /\ u.num = e.num
        /\ u.text = TextFor(e, rd.sp, rd.yp)
    <3>1. N + 1 \in Nat
      BY <2>3
    <3>. QED  BY <2>4, <3>1, NewThunkIs
  <2>. HIDE DEF u
  <2>6. DOMAIN mem' = {"th", "pat"} /\ mem'.th = Append(mem.th, u)
    BY <2>1, <2>2 DEF MemInv
  <2>7. /\ Sequence(mem'.th) /\ Len(mem'.th) = N + 1
        /\ mem'.th[N + 1] = u /\ \A a \in 1..N : mem'.th[a] = mem.th[a]
    BY <2>3, <2>6, ElementAppended, RangeAppended
  <2>. HIDE DEF N
  <2>8. MemInv'
    <3>1. ASSUME NEW a \in 1..N + 1 PROVE GoodThunk(N + 1, mem'.th[a])
      <4>1. CASE a = N + 1
        BY <2>5, <2>7, <4>1
      <4>2. CASE a # N + 1
        <5>1. a \in 1..N /\ N <= N + 1 /\ N + 1 \in Nat
          BY <2>3, <4>2
        <5>2. GoodThunk(N, mem.th[a])
          BY <2>2, <5>1 DEF MemInv, GoodThunks, N
        <5>. QED  BY <2>3, <2>7, <5>1, <5>2, GoodThunkGrows
      <4>. QED  BY <4>1, <4>2
    <3>2. ASSUME NEW i \in 1..Len(held) PROVE held[i] \in Seq(0 .. N + 1)
      <4>1. held[i] \in Seq(0..N) /\ 0..N \subseteq 0 .. N + 1
        BY <2>2, <2>3 DEF MemInv, N
      <4>. QED  BY <4>1, SeqWithin
    <3>. QED  BY <2>1, <2>6, <2>7, <3>1, <3>2 DEF MemInv, GoodThunks
  <2>9. /\ rd'.sp = rd.sp /\ rd'.yp = rd.yp
        /\ rd'.entries = [rd.entries EXCEPT ![j + 1] = e] /\ rd'.nodes = Append(rd.nodes, N + 1)
    BY <2>1, <2>2 DEF LocalsAreRecords
  <2>10. /\ Len(rd'.nodes) = j + 1 /\ rd'.nodes[j + 1] = N + 1 /\ \A i \in 1..j : rd'.nodes[i] = rd.nodes[i]
    BY <2>3, <2>9, ElementAppended, RangeAppended
  <2>. HIDE DEF j
  <2>11. rd.nodes \in Seq(1..N) /\ Distinct(rd.nodes) /\ \A i \in 1..j : rd.nodes[i] \in 1..N
    BY <2>2, ElementOfSeq DEF Making, N, j
  <2>12. rd'.nodes \in Seq(1 .. N + 1) /\ Distinct(rd'.nodes)
    <3>1. rd.nodes \in Seq(1 .. N + 1)
      <4>1. 1..N \subseteq 1 .. N + 1
        BY <2>3
      <4>. QED  BY <2>11, <4>1, SeqWithin
    <3>2. N + 1 \in 1 .. N + 1
      BY <2>3
    <3>3. N + 1 \notin Range(rd.nodes)
      <4>1. \A i \in 1..j : rd.nodes[i] # N + 1
        BY <2>3, <2>11
      <4>. QED  BY <2>3, <4>1, InRange DEF j
    <3>. QED  BY <2>3, <2>9, <2>11, <3>1, <3>2, <3>3, AppendProperties, DistinctAppended
  <2>13. Making'
    <3>1. ASSUME NEW i \in 1..j + 1 PROVE rd'.entries[i] = file[5 + i]
      <4>1. i \in DOMAIN rd.entries /\ j + 1 \in DOMAIN rd.entries
        BY <2>3, SequenceProperties
      <4>2. CASE i = j + 1
        BY <2>3, <2>9, <4>1, <4>2
      <4>3. CASE i # j + 1
        <5>1. i \in 1..j
          BY <2>3, <4>3
        <5>. QED  BY <2>2, <2>9, <4>1, <4>3, <5>1 DEF Making, j
      <4>. QED  BY <4>2, <4>3
    <3>. QED  BY <2>1, <2>7, <2>10, <2>12, <3>1 DEF Making
  <2>14. wrote # NoGraph => rd.sp = file[2].texts /\ rd.yp = file[3].texts /\ Copying
    BY <2>1, <2>2 DEF ReaderGraph, Reads
  <2>15. wrote # NoGraph => Copying'
    <3>. SUFFICES ASSUME wrote # NoGraph, NEW i \in 1..j + 1
                  PROVE  LET v == mem'.th[rd'.nodes[i]]  d == file[5 + i] IN
                         v.kind = d.kind /\ v.num = d.num /\ v.text = TextFor(d, file[2].texts, file[3].texts)
      BY <2>1, <2>10 DEF Copying
    <3>1. CASE i = j + 1
      <4>1. mem'.th[rd'.nodes[i]] = u /\ file[5 + i] = e
        BY <2>3, <2>7, <2>10, <3>1
      <4>. QED  BY <2>5, <2>14, <4>1
    <3>2. CASE i # j + 1
      <4>1. i \in 1..j
        BY <2>3, <3>2
      <4>2. mem'.th[rd'.nodes[i]] = mem.th[rd.nodes[i]]
        BY <2>7, <2>10, <2>11, <4>1
      <4>. QED  BY <2>14, <4>1, <4>2 DEF Copying, j
    <3>. QED  BY <3>1, <3>2
  <2>16. ReaderGraph'
    BY <2>1, <2>9, <2>13, <2>14, <2>15 DEF ReaderGraph, Reads
  <2>17. PartsInv' /\ WrittenInv' /\ WriterGraph'
    BY <2>1, <2>2 DEF PartsInv, WrittenInv, IsImage, WriterGraph, Writing, Collecting
  <2>. QED  BY <2>8, <2>16, <2>17 DEF GraphInv
<1>. QED  BY <1>1, <1>2

LEMMA WireKeepsGraph ==
    ASSUME ImageInv, GraphInv, Wire
    PROVE  GraphInv'
<1>. DEFINE N == Len(mem.th)  nodes == rd.nodes  n == Len(nodes)
            kidsOf(e) == [k \in DOMAIN e.kids |-> nodes[e.kids[k]]]
            new(a) == IF a \in Range(nodes)
                      THEN [mem.th[a] EXCEPT !.kids = kidsOf(rd.entries[IdOf(nodes, a)])]
                      ELSE mem.th[a]
<1>1. /\ op = "rthunks" /\ op' = "rroots" /\ n = Len(rd.entries)
      /\ mem' = [mem EXCEPT !.th = [a \in DOMAIN mem.th |-> new(a)]]
      /\ UNCHANGED <<held, file, wr, rd, ops, wrote>>
  BY DEF Wire
<1>2. /\ ReaderInv /\ MemInv /\ PartsInv /\ WrittenInv /\ ReaderGraph /\ Making
      /\ (wrote # NoGraph => Copying) /\ Sequence(file)
  BY <1>1 DEF GraphInv, ImageInv, ReaderGraph, Reads, Reading, CountsAreNumbers
<1>3. /\ N \in Nat /\ Sequence(mem.th) /\ DOMAIN mem.th = 1..N
      /\ Sequence(nodes) /\ n \in Nat /\ n = file[5].n /\ rd.at = 5 + n
      /\ Len(file) \in Nat /\ Len(file) >= 5 + n
  <2>1. Sequence(mem.th)
    BY <1>2 DEF MemInv, GoodThunks
  <2>2. Sequence(nodes) /\ n = file[5].n /\ rd.at = 5 + n /\ rd.at <= Len(file)
    BY <1>1, <1>2 DEF ReaderInv
  <2>3. n \in Nat /\ N \in Nat /\ DOMAIN mem.th = 1..N /\ Len(file) \in Nat
    BY <1>2, <2>1, <2>2, SequenceProperties
  <2>. HIDE DEF n, N, nodes
  <2>. QED  BY <2>1, <2>2, <2>3
<1>4. nodes \in Seq(1..N) /\ Distinct(nodes) /\ \A i \in 1..n : nodes[i] \in 1..N /\ rd.entries[i] = file[5 + i]
  <2>1. nodes \in Seq(1..N) /\ Distinct(nodes) /\ \A i \in 1..n : rd.entries[i] = file[5 + i]
    BY <1>2 DEF Making
  <2>2. \A i \in 1..n : nodes[i] \in 1..N
    BY <2>1, ElementOfSeq
  <2>. QED  BY <2>1, <2>2
<1>. HIDE DEF n
<1>5. \A i \in 1..n : file[5 + i].kids \in Seq(1..n)
  <2>. SUFFICES ASSUME NEW i \in 1..n PROVE file[5 + i].kids \in Seq(1..n)
    OBVIOUS
  <2>1. 5 + i \in 6 .. 5 + n /\ 5 + i <= Len(file) /\ Len(file) >= 5
    BY <1>3
  <2>. QED  BY <1>2, <1>3, <2>1 DEF PartsInv
<1>. HIDE DEF N, nodes
<1>6. ASSUME NEW i \in 1..n PROVE kidsOf(file[5 + i]) \in Seq(0..N)
  <2>. DEFINE ks == file[5 + i].kids
  <2>1. ks \in Seq(1..n)
    BY <1>5
  <2>. HIDE DEF ks
  <2>2. DOMAIN ks = 1..Len(ks) /\ Len(ks) \in Nat /\ \A k \in 1..Len(ks) : ks[k] \in 1..n
    BY <2>1, LenProperties, ElementOfSeq
  <2>3. [k \in DOMAIN ks |-> nodes[ks[k]]] \in [1..Len(ks) -> 0..N]
    BY <1>3, <1>4, <2>2
  <2>4. [k \in DOMAIN ks |-> nodes[ks[k]]] \in Seq(0..N)
    BY <2>2, <2>3, SeqDef
  <2>. QED  BY <2>4 DEF ks
<1>. HIDE DEF kidsOf
<1>7. ASSUME NEW i \in 1..n
      PROVE  new(nodes[i]) = [mem.th[nodes[i]] EXCEPT !.kids = kidsOf(file[5 + i])]
  <2>1. nodes[i] \in Range(nodes)
    BY <1>3, InRange DEF n
  <2>2. IdOf(nodes, nodes[i]) = i
    BY <1>3, <1>4, IdOfAt DEF n
  <2>. QED  BY <1>4, <2>1, <2>2
<1>8. DOMAIN mem' = {"th", "pat"} /\ mem'.th = [a \in 1..N |-> new(a)]
  BY <1>1, <1>2, <1>3 DEF MemInv
<1>9. /\ Len(mem'.th) = N /\ Sequence(mem'.th) /\ \A a \in 1..N : mem'.th[a] = new(a)
  <2>. HIDE DEF new
  <2>. DEFINE t == mem'.th  S == {new(a) : a \in 1..N}
  <2>1. t \in [1..N -> S]
    BY <1>8
  <2>. HIDE DEF t, S
  <2>2. t \in Seq(S) /\ Len(t) = N
    BY <1>3, <2>1, SeqDef, LenProperties
  <2>3. Sequence(t)
    BY <2>2, SequenceOf
  <2>. QED  BY <1>8, <2>2, <2>3 DEF t
<1>10. ASSUME NEW a \in 1..N PROVE GoodThunk(N, mem'.th[a])
  <2>1. GoodThunk(N, mem.th[a])
    BY <1>2 DEF MemInv, GoodThunks, N
  <2>2. CASE a \notin Range(nodes)
    BY <1>9, <2>1, <2>2
  <2>3. CASE a \in Range(nodes)
    <3>1. PICK i \in 1..n : nodes[i] = a
      BY <1>3, <2>3, InRange DEF n
    <3>2. mem'.th[a] = [mem.th[a] EXCEPT !.kids = kidsOf(file[5 + i])]
      BY <1>7, <1>9, <3>1
    <3>. QED  BY <1>6, <2>1, <3>2 DEF GoodThunk, ThunkFields
  <2>. QED  BY <2>2, <2>3
<1>11. ASSUME NEW i \in 1..n
       PROVE  LET u == mem.th[nodes[i]]  v == mem'.th[nodes[i]] IN
              v.kind = u.kind /\ v.num = u.num /\ v.text = u.text /\ v.kids = kidsOf(file[5 + i])
  <2>1. GoodThunk(N, mem.th[nodes[i]])
    BY <1>2, <1>4 DEF MemInv, GoodThunks, N
  <2>2. mem'.th[nodes[i]] = [mem.th[nodes[i]] EXCEPT !.kids = kidsOf(file[5 + i])]
    BY <1>4, <1>7, <1>9
  <2>. QED  BY <2>1, <2>2 DEF GoodThunk, ThunkFields
<1>12. MemInv'
  <2>1. \A i \in 1..Len(held') : held'[i] \in Seq(0..N)
    BY <1>1, <1>2 DEF MemInv, N
  <2>. QED  BY <1>8, <1>9, <1>10, <2>1 DEF MemInv, GoodThunks
<1>13. Making'
  <2>1. rd'.nodes = nodes /\ Len(rd'.nodes) = n /\ rd' = rd
    BY <1>1 DEF nodes, n
  <2>. QED  BY <1>1, <1>3, <1>4, <1>9, <2>1 DEF Making
<1>14. wrote # NoGraph => Copying'
  <2>. SUFFICES ASSUME wrote # NoGraph, NEW i \in 1..n
                PROVE  LET v == mem'.th[nodes[i]]  e == file[5 + i] IN
                       /\ v.kind = e.kind /\ v.num = e.num /\ v.text = TextFor(e, file[2].texts, file[3].texts)
                       /\ Wired(v, e, nodes)
    BY <1>1 DEF Copying, nodes, n
  <2>1. LET u == mem.th[nodes[i]]  e == file[5 + i] IN
        u.kind = e.kind /\ u.num = e.num /\ u.text = TextFor(e, file[2].texts, file[3].texts)
    BY <1>2 DEF Copying, nodes, n
  <2>. QED  BY <1>11, <2>1 DEF Wired, kidsOf
<1>15. ReaderGraph'
  BY <1>1, <1>13, <1>14 DEF ReaderGraph, Reads
<1>16. PartsInv' /\ WrittenInv' /\ WriterGraph'
  BY <1>1, <1>2 DEF PartsInv, WrittenInv, IsImage, WriterGraph, Writing, Collecting
<1>. QED  BY <1>12, <1>15, <1>16 DEF GraphInv

LEMMA RootsReadKeepGraph ==
    ASSUME ImageInv, GraphInv, ReadRoots
    PROVE  GraphInv'
<1>. DEFINE N == Len(mem.th)  nodes == rd.nodes  n == Len(nodes)
            ids == file[rd.at + 1].ids
            roots == [i \in DOMAIN ids |-> nodes[ids[i]]]
<1>1. CASE Fails
  BY <1>1, IdleKeepsGraph DEF Fails
<1>2. CASE ~ Fails
  <2>1. /\ op = "rroots" /\ rd.at < Len(file) /\ op' \in {"idle", "fault"}
        /\ held' = Append(held, roots) /\ UNCHANGED <<mem, file, wrote>>
    BY <1>2 DEF ReadRoots
  <2>2. ReaderInv /\ MemInv /\ PartsInv /\ WrittenInv /\ Making /\ Sequence(file) /\ Sequence(held)
    BY <2>1 DEF GraphInv, ImageInv, ReaderGraph, Reads, Reading, CountsAreNumbers
  <2>3. /\ nodes \in Seq(1..N) /\ n = file[5].n /\ rd.at = 5 + n /\ n \in Nat /\ N \in Nat
        /\ Len(file) >= 5 /\ Len(file) \in Nat
    <3>1. nodes \in Seq(1..N) /\ n = file[5].n /\ Len(file) >= 5 /\ rd.at = 5 + file[5].n
      BY <2>1, <2>2 DEF Making, ReaderInv
    <3>2. N \in Nat /\ Len(file) \in Nat
      BY <2>2, SequenceProperties DEF MemInv, GoodThunks
    <3>. QED  BY <3>1, <3>2, LenProperties
  <2>. HIDE DEF N, nodes
  <2>4. ids \in Seq(1..n)
    <3>. HIDE DEF n
    <3>1. Len(file) >= 6 + n /\ rd.at + 1 = 6 + n
      BY <2>1, <2>3
    <3>. QED  BY <2>2, <2>3, <3>1 DEF PartsInv
  <2>5. roots \in Seq(0..N)
    <3>. HIDE DEF ids
    <3>1. DOMAIN ids = 1..Len(ids) /\ Len(ids) \in Nat /\ \A k \in 1..Len(ids) : ids[k] \in 1..n
      BY <2>4, LenProperties, ElementOfSeq
    <3>2. \A i \in 1..n : nodes[i] \in 1..N
      BY <2>3, ElementOfSeq
    <3>3. roots \in [1..Len(ids) -> 0..N]
      BY <2>3, <3>1, <3>2
    <3>. QED  BY <3>1, <3>3, SeqDef
  <2>. HIDE DEF roots
  <2>6. ASSUME NEW i \in 1..Len(held') PROVE held'[i] \in Seq(0..N)
    <3>1. /\ Len(held') = Len(held) + 1 /\ held'[Len(held) + 1] = roots /\ Len(held) \in Nat
          /\ \A k \in 1..Len(held) : held'[k] = held[k]
      BY <2>1, <2>2, ElementAppended, RangeAppended, SequenceProperties
    <3>2. i \in 1..Len(held) \/ i = Len(held) + 1
      BY <3>1
    <3>. QED  BY <2>2, <2>5, <3>1, <3>2 DEF MemInv, N
  <2>7. MemInv'
    BY <2>1, <2>2, <2>6 DEF MemInv, N
  <2>. QED
    BY <2>1, <2>2, <2>7 DEF GraphInv, PartsInv, WrittenInv, IsImage, WriterGraph, ReaderGraph, Writing, Collecting, Reads
<1>. QED  BY <1>1, <1>2

LEMMA RestartKeepsGraph == GraphInv /\ (Restart \/ UNCHANGED vars) => GraphInv'
<1>1. ASSUME GraphInv, UNCHANGED vars PROVE GraphInv'
  BY <1>1 DEF GraphInv, vars, MemInv, PartsInv, WrittenInv, IsImage, WriterGraph, ReaderGraph, Numbering, Pooling, Entering,
              Making, Copying
<1>2. ASSUME GraphInv, Restart PROVE GraphInv'
  <2>1. op' = "idle" /\ mem' = NoMemory /\ held' = <<>> /\ UNCHANGED <<file, wrote>>
    BY <1>2 DEF Restart
  <2>2. mem'.th = <<>> /\ DOMAIN mem' = {"th", "pat"} /\ Len(<<>>) = 0 /\ Sequence(<<>>)
    BY <2>1, EmptySeq DEF NoMemory, Memory, Sequence
  <2>3. MemInv'
    BY <2>1, <2>2 DEF MemInv, GoodThunks
  <2>. QED
    BY <1>2, <2>1, <2>3 DEF GraphInv, PartsInv, WrittenInv, IsImage, WriterGraph, ReaderGraph, Writing, Collecting, Reads
<1>. QED  BY <1>1, <1>2

LEMMA GraphInvStep == ImageInv /\ GraphInv /\ [Next]_vars => GraphInv'
<1>. SUFFICES ASSUME ImageInv, GraphInv, [Next]_vars PROVE GraphInv'
  OBVIOUS
<1>1. ASSUME NEW i \in DOMAIN held, Write(held[i]) PROVE GraphInv'
  BY <1>1, WriteKeepsGraph
<1>2. CASE Read
  BY <1>2, IdleKeepsGraph DEF Read
<1>. QED
  BY <1>1, <1>2, CollectKeepsGraph, CollectedKeepsGraph, PoolKeepsGraph, HeaderKeepsGraph, PoolPartKeepsGraph,
     CountsKeepGraph, ThunkKeepsGraph, RootsKeepGraph, PoolsReadKeepGraph, ThunkReadKeepsGraph, WireKeepsGraph,
     RootsReadKeepGraph, RestartKeepsGraph
  DEF Next

THEOREM GraphInvHolds == Spec => [](ImageInv /\ GraphInv)
<1>1. Init => ImageInv /\ GraphInv
  BY ImageInvInit, GraphInvInit
<1>2. (ImageInv /\ GraphInv) /\ [Next]_vars => (ImageInv /\ GraphInv)'
  BY ImageInvStep, GraphInvStep
<1>. QED  BY <1>1, <1>2, PTL DEF Spec

-----------------------------------------------------------------------------
(* The graph that is read is the one that was written *)

\* The texts of a graph as C strings; all else as it was.
LEMMA CStringsOf ==
    ASSUME NEW m, "th" \in DOMAIN m, GoodThunks(m.th)
    PROVE  /\ DOMAIN AsCStrings(m).th = 1..Len(m.th)
           /\ \A a \in 1..Len(m.th) :
                LET t == m.th[a]  u == AsCStrings(m).th[a] IN
                u.kind = t.kind /\ u.num = t.num /\ u.kids = t.kids /\ u.text = CString(t.text)
<1>. DEFINE N == Len(m.th)  new(a) == [m.th[a] EXCEPT !.text = CString(m.th[a].text)]
<1>1. DOMAIN m.th = 1..N
  BY SequenceProperties DEF GoodThunks
<1>2. AsCStrings(m).th = [a \in 1..N |-> new(a)]
  BY <1>1 DEF AsCStrings
<1>3. ASSUME NEW a \in 1..N
      PROVE  LET t == m.th[a]  u == new(a) IN
             u.kind = t.kind /\ u.num = t.num /\ u.kids = t.kids /\ u.text = CString(t.text)
  <2>1. DOMAIN m.th[a] = ThunkFields
    BY DEF GoodThunks, GoodThunk
  <2>. QED  BY <2>1 DEF ThunkFields
<1>. HIDE DEF new
<1>. QED  BY <1>2, <1>3

\* What pools and entries give is the text of the thunk, as a C string.
LEMMA TextIs ==
    ASSUME NEW e, NEW t, NEW o, NEW sp, NEW yp, NEW n, GoodThunk(n, t), IsEntry(e, t, o, sp, yp)
    PROVE  TextFor(e, sp, yp) = CString(t.text)
<1>1. t.kind = "int" => CString(t.text) = NoText
  BY CStringAssumption DEF GoodThunk, TextKinds
<1>. QED  BY <1>1 DEF IsEntry, Savable, Leaves, TextFor, InStrings, InSymbols

\* Only the last step of a read adds a graph to those a program holds.
LEMMA OnlyRootsAreRead ==
    ASSUME ImageInv, [Next]_vars, Read1
    PROVE  ReadRoots /\ rd.at < Len(file)
<1>1. Len(held) \in Nat
  BY SequenceProperties DEF ImageInv, CountsAreNumbers
<1>2. held' # held
  BY <1>1 DEF Read1
<1>3. ~ Restart
  <2>1. ASSUME Restart PROVE FALSE
    <3>1. Len(held') = 0
      BY <2>1, EmptySeq DEF Restart
    <3>. QED  BY <1>1, <3>1 DEF Read1
  <2>. QED  BY <2>1
<1>4. ~ (\E i \in DOMAIN held : Write(held[i])) /\ ~ Collect /\ ~ Collected /\ ~ Pool
  BY <1>2 DEF Write, Collect, Collected, Pool, Fails
<1>5. ~ WriteHeader /\ ~ WritePool /\ ~ WriteCounts /\ ~ WriteThunk /\ ~ WriteRoots
  BY <1>2 DEF WriteHeader, WritePool, WriteCounts, WriteThunk, WriteRoots, Put, Fails
<1>6. ~ Read /\ ~ ReadHeader /\ ~ ReadStrings /\ ~ ReadSymbols /\ ~ ReadPatterns /\ ~ ReadCount
  BY <1>2 DEF Read, ReadHeader, ReadStrings, ReadSymbols, ReadPatterns, ReadCount, Get, Fails
<1>7. ~ ReadThunk /\ ~ Wire /\ ~ UNCHANGED vars
  BY <1>2 DEF ReadThunk, Wire, Fails, vars
<1>8. ReadRoots
  BY <1>3, <1>4, <1>5, <1>6, <1>7 DEF Next
<1>. QED  BY <1>2, <1>8 DEF ReadRoots, Fails

LEMMA ReadIsCopy ==
    ASSUME ImageInv, GraphInv, ReadRoots, rd.at < Len(file), wrote # NoGraph
    PROVE  SameGraph(AsCStrings(wrote[1].mem), wrote[1].roots, mem', Last(held'))
<1>. DEFINE graph == wrote[1]
            g == AsCStrings(graph.mem)
            M == Len(graph.mem.th)
            N == Len(mem.th)
            nodes == rd.nodes
            ids == file[rd.at + 1].ids
            hRoots == [i \in DOMAIN ids |-> nodes[ids[i]]]
<1>1. op = "rroots" /\ held' = Append(held, hRoots) /\ mem' = mem
  BY DEF ReadRoots
<1>2. ReaderInv /\ MemInv /\ WrittenInv /\ Making /\ Copying /\ Sequence(held)
  BY <1>1 DEF GraphInv, ImageInv, ReaderGraph, Reads, Reading, CountsAreNumbers
<1>3. PICK o : IsImage(o, graph)
  BY <1>2 DEF WrittenInv
<1>. DEFINE n == Len(o)
<1>4. /\ GoodThunks(graph.mem.th) /\ "th" \in DOMAIN graph.mem /\ o \in Seq(1..M) /\ Distinct(o) /\ file[5].n = n
      /\ Sequence(graph.roots) /\ Range(graph.roots) \subseteq Range(o) /\ file[6 + n].ids = IdsOf(o, graph.roots)
      /\ \A i \in 1..n : IsEntry(file[5 + i], graph.mem.th[o[i]], o, file[2].texts, file[3].texts)
  BY <1>3 DEF IsImage
<1>5. /\ n \in Nat /\ Len(nodes) = n /\ nodes \in Seq(1..N) /\ Distinct(nodes)
      /\ \A i \in 1..n : o[i] \in 1..M
      /\ rd.at + 1 = 6 + n
  <2>1. Len(nodes) = n /\ nodes \in Seq(1..N) /\ Distinct(nodes)
    BY <1>1, <1>2, <1>4 DEF Making
  <2>2. n \in Nat /\ \A i \in 1..n : o[i] \in 1..M
    BY <1>4, LenProperties, ElementOfSeq
  <2>3. rd.at = 5 + n
    BY <1>1, <1>2, <1>4 DEF ReaderInv
  <2>. HIDE DEF n
  <2>. QED  BY <2>1, <2>2, <2>3
<1>6. /\ DOMAIN g.th = 1..M
      /\ \A a \in 1..M : LET t == graph.mem.th[a]  u == g.th[a] IN
                         u.kind = t.kind /\ u.num = t.num /\ u.kids = t.kids /\ u.text = CString(t.text)
  BY <1>4, CStringsOf
<1>7. DOMAIN mem.th = 1..N /\ N \in Nat /\ M \in Nat
  BY <1>2, <1>4, SequenceProperties DEF MemInv, GoodThunks
<1>8. hRoots = [i \in DOMAIN graph.roots |-> nodes[IdOf(o, graph.roots[i])]]
  BY <1>4, <1>5 DEF IdsOf
<1>9. Last(held') = hRoots
  <2>. HIDE DEF hRoots
  <2>. DEFINE s == Append(held, hRoots)
  <2>1. Len(s) = Len(held) + 1 /\ s[Len(held) + 1] = hRoots
    BY <1>2, ElementAppended, RangeAppended
  <2>. HIDE DEF s
  <2>. QED  BY <1>1, <2>1 DEF Last, s
<1>10. \A i \in 1..n :
         LET u == mem.th[nodes[i]]  e == file[5 + i] IN
         u.kind = e.kind /\ u.num = e.num /\ u.text = TextFor(e, file[2].texts, file[3].texts) /\ Wired(u, e, nodes)
  BY <1>1, <1>2, <1>5 DEF Copying
<1>. HIDE DEF M, N, n, nodes, g, hRoots, ids, graph
<1>11. ASSUME NEW i \in 1..n
       PROVE  LET t == g.th[o[i]]  u == mem.th[nodes[i]] IN
              /\ SavedKind(u.kind) = SavedKind(t.kind) /\ u.text = t.text /\ u.num = t.num
              /\ Sequence(t.kids) /\ Range(t.kids) \subseteq Range(o)
              /\ u.kids = [k \in DOMAIN t.kids |-> nodes[IdOf(o, t.kids[k])]]
  <2>. DEFINE t == graph.mem.th[o[i]]  v == g.th[o[i]]  u == mem.th[nodes[i]]  e == file[5 + i]
  <2>1. v.kind = t.kind /\ v.num = t.num /\ v.kids = t.kids /\ v.text = CString(t.text)
    BY <1>5, <1>6
  <2>2. IsEntry(e, t, o, file[2].texts, file[3].texts)
    BY <1>4
  <2>3. GoodThunk(M, t)
    BY <1>4, <1>5 DEF GoodThunks, M
  <2>4. u.kind = e.kind /\ u.num = e.num /\ u.text = TextFor(e, file[2].texts, file[3].texts) /\ Wired(u, e, nodes)
    BY <1>10
  <2>. HIDE DEF t, u, v, e
  <2>5. u.text = CString(t.text)
    BY <2>2, <2>3, <2>4, TextIs
  <2>6. Sequence(t.kids)
    BY <2>3, SequenceOf DEF GoodThunk
  <2>7. u.kids = [k \in DOMAIN t.kids |-> nodes[IdOf(o, t.kids[k])]]
    BY <2>2, <2>4 DEF IsEntry, IdsOf, Wired
  <2>8. e.kind = t.kind /\ e.num = t.num /\ Range(t.kids) \subseteq Range(o)
    BY <2>2 DEF IsEntry
  <2>9. /\ SavedKind(u.kind) = SavedKind(v.kind) /\ u.text = v.text /\ u.num = v.num
        /\ Sequence(v.kids) /\ Range(v.kids) \subseteq Range(o)
        /\ u.kids = [k \in DOMAIN v.kids |-> nodes[IdOf(o, v.kids[k])]]
    BY <2>1, <2>4, <2>5, <2>6, <2>7, <2>8
  <2>. QED  BY <2>9 DEF u, v
<1>12. Copied(o, nodes, g, graph.roots, mem, hRoots)
  BY <1>4, <1>5, <1>6, <1>7, <1>8, <1>11 DEF Copied, n, M
<1>13. IsFiniteSet(DOMAIN g.th) /\ IsFiniteSet(DOMAIN mem.th)
  <2>1. DOMAIN g.th = 1..M
    BY <1>6 DEF M
  <2>2. IsFiniteSet(1..M) /\ IsFiniteSet(1..N)
    <3>1. M \in Int /\ N \in Int
      BY <1>7 DEF M, N
    <3>. QED  BY <3>1, FS_Interval
  <2>. QED  BY <1>7, <2>1, <2>2 DEF N, M
<1>14. SameGraph(g, graph.roots, mem, hRoots)
  BY <1>12, <1>13, CopyIsSame
<1>. QED  BY <1>1, <1>9, <1>14 DEF g, graph

\* A graph read from a file lstb_write has completed is the graph written,
\* texts as C strings, shared and cyclic where it was: from its roots every
\* path of edges leads to a thunk that agrees, and two paths lead to one thunk
\* in the one if and only if they do in the other.
THEOREM ReadGivesTheGraph == Spec => RoundTrip
<1>. DEFINE A == Read1 /\ wrote # NoGraph =>
                   SameGraph(AsCStrings(wrote[1].mem), wrote[1].roots, mem', Last(held'))
<1>1. ASSUME ImageInv, GraphInv, [Next]_vars PROVE A
  <2>. SUFFICES ASSUME Read1, wrote # NoGraph
                PROVE  SameGraph(AsCStrings(wrote[1].mem), wrote[1].roots, mem', Last(held'))
    OBVIOUS
  <2>. USE <1>1
  <2>1. ReadRoots /\ rd.at < Len(file)
    BY OnlyRootsAreRead
  <2>. QED  BY <2>1, ReadIsCopy
<1>2. ImageInv /\ GraphInv /\ [Next]_vars => [A]_vars
  BY <1>1
<1>3. Spec => [](ImageInv /\ GraphInv)
  BY GraphInvHolds
<1>4. Spec => [][Next]_vars
  BY PTL DEF Spec
<1>. HIDE DEF A
<1>5. Spec => [][A]_vars
  BY <1>2, <1>3, <1>4, PTL
<1>. QED  BY <1>5 DEF A, RoundTrip

=============================================================================
