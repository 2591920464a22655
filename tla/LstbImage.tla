----------------------------- MODULE LstbImage -----------------------------
(***************************************************************************)
(* lstb_write and lstb_read (thunk/thunk.c): the portable image of a graph *)
(* of thunks. The file is a sequence of parts, written and read from front *)
(* to back; a process that ends half way leaves a prefix. The writer's     *)
(* recursive walks are stacks of the addresses still to visit.             *)
(***************************************************************************)
EXTENDS ThunkGraph

CONSTANTS Programs,      \* graphs a program may hold: memory and sequences of roots
          CString(_),    \* a text up to its first NUL byte
          LibcAlloc,     \* LAZYSCRIPT_USE_LIBC_ALLOC: lsmalloc is malloc
          MaxOps         \* writes, reads and restarts of one behaviour

ASSUME LibcAllocIsBoolean == LibcAlloc \in BOOLEAN
ASSUME ProgramsAssumption == \A p \in Programs :
    /\ p.th \in Seq(ThunkRecords)
    /\ \A a \in DOMAIN p.th : WellFormed(p.th, p.th[a])
    /\ p.held \in Seq(Seq(DOMAIN p.th \cup {NULL}))
ASSUME CStringAssumption == CString(NoText) = NoText

VARIABLES mem,    \* thunks of the process
          held,   \* the roots it holds, a sequence for each graph
          file,   \* the parts in the file
          op,     \* the part of lstb_write or lstb_read that runs
          wr,     \* locals of lstb_write
          rd,     \* locals of lstb_read
          ops,    \* writes, reads and restarts so far
          wrote   \* the graph whose image lstb_write has completed, if it has (history)

vars == <<mem, held, file, op, wr, rd, ops, wrote>>

(* todo: the thunks a recursive walk has still to visit; order: thunks by  *)
(* id; sp, yp: the string pool and the symbol pool.                        *)
NoWriter == [roots |-> <<>>, todo |-> <<>>, order |-> <<>>, sp |-> <<>>, yp |-> <<>>]
NoReader == [at |-> 0, sp |-> <<>>, yp |-> <<>>, entries |-> <<>>, nodes |-> <<>>]
NoGraph == <<>>

Idle == op = "idle" /\ ops < MaxOps
Fails == op' = "idle" /\ wr' = NoWriter /\ rd' = NoReader /\ UNCHANGED <<mem, held, file, ops, wrote>>

-----------------------------------------------------------------------------
(* Writing *)

Write(roots) ==
    /\ Idle
    /\ ops' = ops + 1
    /\ op' = "collect"
    /\ wr' = [NoWriter EXCEPT !.roots = roots, !.todo = roots]
    /\ file' = <<>>
    /\ wrote' = NoGraph
    /\ UNCHANGED <<mem, held, rd>>

Leaves == {"int", "str", "symbol", "bottom"}

(* collect_subset: one call. The related thunks of a bottom are not        *)
(* visited; a thunk of another kind ends the write.                        *)
Collect ==
    /\ op = "collect" /\ wr.todo # <<>>
    /\ LET a == Head(wr.todo) IN
       IF a = NULL \/ a \in Range(wr.order) THEN wr' = [wr EXCEPT !.todo = Tail(@)] /\ UNCHANGED <<op, rd>>
       ELSE IF mem.th[a].kind \in Leaves
       THEN wr' = [wr EXCEPT !.todo = Tail(@), !.order = Append(@, a)] /\ UNCHANGED <<op, rd>>
       ELSE IF mem.th[a].kind = "alge"
       THEN /\ wr' = [wr EXCEPT !.todo = mem.th[a].kids \o Tail(@), !.order = Append(@, a)]
            /\ UNCHANGED <<op, rd>>
       ELSE op' = "idle" /\ wr' = NoWriter /\ rd' = NoReader
    /\ UNCHANGED <<mem, held, file, ops, wrote>>

Collected ==
    /\ op = "collect" /\ wr.todo = <<>>
    /\ op' = "pools"
    /\ wr' = [wr EXCEPT !.todo = wr.order]
    /\ UNCHANGED <<mem, held, file, rd, ops, wrote>>

Pooled(pool, text) == IF CString(text) \in Range(pool) THEN pool ELSE Append(pool, CString(text))

(* pool_collect_from_thunk: one call. It visits what a thunk leads to      *)
(* again, however often it was there.                                      *)
Pool ==
    /\ op = "pools" /\ wr.todo # <<>>
    /\ LET a == Head(wr.todo)
           t == mem.th[a]
       IN  IF a = NULL THEN wr' = [wr EXCEPT !.todo = Tail(@)] /\ UNCHANGED <<mem, held, file, op, rd, ops, wrote>>
           ELSE IF t.kind \in {"int", "str", "symbol", "alge", "bottom"}
           THEN wr' = [wr EXCEPT !.todo = t.kids \o Tail(@),
                                 !.sp = IF t.kind \in {"str", "bottom"} THEN Pooled(@, t.text) ELSE @,
                                 !.yp = IF t.kind \in {"symbol", "alge"} THEN Pooled(@, t.text) ELSE @]
                /\ UNCHANGED <<mem, held, file, op, rd, ops, wrote>>
           ELSE Fails

Put(from, to, parts) ==
    /\ op = from
    /\ op' = to
    /\ file' = file \o parts
    /\ UNCHANGED <<mem, held, rd, ops>>

(* The header, both pools, the count of patterns (none) and of thunks.     *)
WriteHeader ==
    /\ wr.todo = <<>>
    /\ Put("pools", "sp", << [part |-> "header"] >>)
    /\ UNCHANGED <<wr, wrote>>

WritePool ==
    /\ Put("sp", "yp", << [part |-> "pool", texts |-> wr.sp] >>)
    /\ UNCHANGED <<wr, wrote>>

WriteCounts ==
    /\ Put("yp", "thunks", << [part |-> "pool", texts |-> wr.yp], [part |-> "patterns"],
                              [part |-> "count", n |-> Len(wr.order)] >>)
    /\ wr' = [wr EXCEPT !.todo = wr.order]
    /\ UNCHANGED wrote

Entry(t) ==
    [part |-> "thunk", kind |-> t.kind, num |-> t.num, kids |-> IdsOf(wr.order, t.kids),
     text |-> CASE t.kind \in {"str", "bottom"} -> IdOf(wr.sp, CString(t.text))
                [] t.kind \in {"symbol", "alge"} -> IdOf(wr.yp, CString(t.text))
                [] OTHER -> 0]

(* A thunk it leads to that has no id ends the write.                      *)
WriteThunk ==
    /\ op = "thunks" /\ wr.todo # <<>>
    /\ LET t == mem.th[Head(wr.todo)] IN
       IF Range(t.kids) \subseteq Range(wr.order)
       THEN /\ Put("thunks", "thunks", << Entry(t) >>)
            /\ wr' = [wr EXCEPT !.todo = Tail(@)]
            /\ UNCHANGED wrote
       ELSE Fails

WriteRoots ==
    /\ op = "thunks" /\ wr.todo = <<>>
    /\ IF NULL \notin Range(wr.roots)
       THEN /\ Put("thunks", "idle", << [part |-> "roots", ids |-> IdsOf(wr.order, wr.roots)] >>)
            /\ wrote' = <<[mem |-> mem, roots |-> wr.roots]>>
            /\ wr' = NoWriter
       ELSE Fails

-----------------------------------------------------------------------------
(* Reading *)

Read ==
    /\ Idle
    /\ ops' = ops + 1
    /\ op' = "header"
    /\ rd' = NoReader
    /\ UNCHANGED <<mem, held, file, wr, wrote>>

(* The next part of the file; without one the read fails.                  *)
Get(from, to, locals(_)) ==
    /\ op = from
    /\ IF rd.at < Len(file)
       THEN /\ op' = to
            /\ rd' = [locals(file[rd.at + 1]) EXCEPT !.at = rd.at + 1]
            /\ UNCHANGED <<mem, held, file, wr, ops, wrote>>
       ELSE Fails

ReadHeader == Get("header", "rsp", LAMBDA p : rd)

(* read_pool at the end of the file gives no pool and is not noticed; what *)
(* comes after it is.                                                      *)
ReadStrings ==
    IF rd.at < Len(file)
    THEN Get("rsp", "ryp", LAMBDA p : [rd EXCEPT !.sp = p.texts])
    ELSE op = "rsp" /\ op' = "ryp" /\ UNCHANGED <<mem, held, file, wr, rd, ops, wrote>>

ReadSymbols ==
    IF rd.at < Len(file)
    THEN Get("ryp", "rpatterns", LAMBDA p : [rd EXCEPT !.yp = p.texts])
    ELSE op = "ryp" /\ op' = "rpatterns" /\ UNCHANGED <<mem, held, file, wr, rd, ops, wrote>>

ReadPatterns == Get("rpatterns", "rcount", LAMBDA p : rd)

ReadCount == Get("rcount", "rthunks", LAMBDA p : [rd EXCEPT !.entries = [i \in 1..p.n |-> NULL]])

(* A thunk for an entry, its children still to come.                       *)
NewThunk(e) ==
    Thunk(e.kind, CASE e.kind \in {"str", "bottom"} -> rd.sp[e.text]
                    [] e.kind \in {"symbol", "alge"} -> rd.yp[e.text]
                    [] OTHER -> NoText,
          e.num, [k \in DOMAIN e.kids |-> NULL])

ReadThunk ==
    /\ op = "rthunks" /\ Len(rd.nodes) < Len(rd.entries)
    /\ IF rd.at < Len(file)
       THEN LET e == file[rd.at + 1]  i == Len(rd.nodes) + 1 IN
            /\ mem' = [mem EXCEPT !.th = Append(@, NewThunk(e))]
            /\ rd' = [rd EXCEPT !.at = @ + 1, !.entries[i] = e, !.nodes = Append(@, Len(mem.th) + 1)]
            /\ UNCHANGED <<held, file, op, wr, ops, wrote>>
       ELSE Fails

WireReversed ==
    /\ op = "rthunks" /\ Len(rd.nodes) = Len(rd.entries)
    /\ mem' = [mem EXCEPT !.th = [a \in DOMAIN @ |->
           IF a \in Range(rd.nodes)
           THEN LET e == rd.entries[IdOf(rd.nodes, a)] IN
                [@[a] EXCEPT !.kids = [k \in DOMAIN e.kids |-> rd.nodes[Reverse(e.kids)[k]]]]
           ELSE @[a]]]
    /\ op' = "rroots"
    /\ UNCHANGED <<held, file, wr, rd, ops, wrote>>

(* The second pass: children by their id. The thunks made so far stay      *)
(* without them when the read fails before.                                *)
Wire ==
    /\ op = "rthunks" /\ Len(rd.nodes) = Len(rd.entries)
    /\ mem' = [mem EXCEPT !.th = [a \in DOMAIN @ |->
           IF a \in Range(rd.nodes)
           THEN LET e == rd.entries[IdOf(rd.nodes, a)] IN
                [@[a] EXCEPT !.kids = [k \in DOMAIN e.kids |-> rd.nodes[e.kids[k]]]]
           ELSE @[a]]]
    /\ op' = "rroots"
    /\ UNCHANGED <<held, file, wr, rd, ops, wrote>>

ReadRootsOrNone ==
    /\ op = "rroots"
    /\ held' = Append(held, IF rd.at < Len(file)
                            THEN [i \in DOMAIN file[rd.at + 1].ids |-> rd.nodes[file[rd.at + 1].ids[i]]]
                            ELSE <<>>)
    /\ op' = "idle" /\ rd' = NoReader
    /\ UNCHANGED <<mem, file, wr, ops, wrote>>

(* The roots, then free(nodes): what lsmalloc gave is malloc's only under  *)
(* LAZYSCRIPT_USE_LIBC_ALLOC; freeing the collector's memory may end the   *)
(* process. Without thunks there is nothing to free.                       *)
ReadRoots ==
    /\ op = "rroots"
    /\ IF rd.at < Len(file)
       THEN /\ held' = Append(held, [i \in DOMAIN file[rd.at + 1].ids |-> rd.nodes[file[rd.at + 1].ids[i]]])
            /\ op' \in IF LibcAlloc \/ rd.nodes = <<>> THEN {"idle"} ELSE {"idle", "fault"}
            /\ rd' = NoReader
            /\ UNCHANGED <<mem, file, wr, ops, wrote>>
       ELSE Fails

-----------------------------------------------------------------------------
(* The process ends, wherever it is, and another one starts.               *)
Restart ==
    /\ ops < MaxOps
    /\ ops' = ops + 1
    /\ op' = "idle"
    /\ mem' = NoMemory /\ held' = <<>>
    /\ wr' = NoWriter /\ rd' = NoReader
    /\ UNCHANGED <<file, wrote>>

Init ==
    /\ \E p \in Programs : mem = Memory(p.th, p.pat) /\ held = p.held
    /\ file = <<>>
    /\ op = "idle" /\ wr = NoWriter /\ rd = NoReader
    /\ ops = 0
    /\ wrote = NoGraph

Next ==
    \/ \E i \in DOMAIN held : Write(held[i])
    \/ Collect \/ Collected \/ Pool
    \/ WriteHeader \/ WritePool \/ WriteCounts \/ WriteThunk \/ WriteRoots
    \/ Read
    \/ ReadHeader \/ ReadStrings \/ ReadSymbols \/ ReadPatterns \/ ReadCount
    \/ ReadThunk \/ Wire \/ ReadRoots
    \/ Restart

Spec == Init /\ [][Next]_vars

-----------------------------------------------------------------------------
(* Properties *)

Reading == op \in {"header", "rsp", "ryp", "rpatterns", "rcount", "rthunks", "rroots"}
Read1 == Len(held') = Len(held) + 1

(* lstb_read gives a graph from a file lstb_write has completed, whatever  *)
(* graph that is, and from no other: a file that ends earlier is noticed,  *)
(* wherever it ends and although the read of a pool is not checked.        *)
ReadIffComplete ==
    [][Reading /\ op' = "idle" /\ ops' = ops => (Read1 <=> wrote # NoGraph)]_vars

(* What it gives is the graph that was written, shared where it was shared *)
(* (texts as C strings).                                                   *)
AsCStrings(g) == [g EXCEPT !.th = [a \in DOMAIN @ |-> [@[a] EXCEPT !.text = CString(g.th[a].text)]]]
RoundTrip ==
    [][Read1 /\ wrote # NoGraph =>
           SameGraph(AsCStrings(wrote[1].mem), wrote[1].roots, mem', Last(held'))]_vars
=============================================================================
