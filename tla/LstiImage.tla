----------------------------- MODULE LstiImage -----------------------------
(***************************************************************************)
(* thunk/lsti.c: a graph of thunks is written to a file as an image of     *)
(* tables and blobs, and an image is mapped, validated and made into       *)
(* thunks again. A step is what the code does between two loops' turns;    *)
(* the process may end between any two steps and start again, and what it  *)
(* had written of a file stays.                                            *)
(***************************************************************************)
EXTENDS ThunkGraph

CONSTANTS Programs,      \* graphs a program may hold: memory and sequences of roots
          PreludeNames,  \* texts the environment of a loader resolves
          Files,         \* names of files
          MaxOps         \* writes and loads of one behaviour

ASSUME ProgramsAssumption == \A p \in Programs :
    /\ p.th \in Seq(ThunkRecords)
    /\ \A a \in DOMAIN p.th : WellFormed(p.th, p.th[a])
    /\ p.held \in Seq(Seq(DOMAIN p.th \cup {NULL}))

VARIABLES mem,    \* thunks and patterns of the process
          held,   \* the roots it holds, a sequence for each graph
          pdec,   \* static pdec of lsti_materialize: a decoded pattern for each index
          disk,   \* what is in the files
          op,     \* the part of lsti_write or lsti_materialize that runs
          wr,     \* locals of lsti_write
          ld,     \* locals of lsti_materialize
          ops,    \* writes and loads so far
          wrote   \* the graph whose image in a file lsti_write has completed, if it has (history)

vars == <<mem, held, pdec, disk, op, wr, ld, ops, wrote>>

(* A file: its header, the section table as far as it is filled in, and    *)
(* what the sections hold.                                                 *)
EmptyFile ==
    [head |-> FALSE, table |-> {}, strings |-> <<>>, symbols |-> <<>>,
     patterns |-> <<>>, thunks |-> <<>>, roots |-> <<>>]

NoWriter == [file |-> CHOOSE f \in Files : TRUE, roots |-> <<>>, nodes |-> <<>>, qh |-> 0,
             next |-> 0, params |-> <<>>, spool |-> <<>>, ypool |-> <<>>]
NoLoader == [file |-> CHOOSE f \in Files : TRUE, nodes |-> <<>>]
NoGraph == <<>>

-----------------------------------------------------------------------------
(* Writing *)

(* ADD_SPOOL, ADD_YPOOL: a text is in a pool once. Its offset is known     *)
(* when the blob is written; an entry added later keeps offset 0.          *)
Pooled(pool, text) ==
    IF \E i \in DOMAIN pool : pool[i].text = text THEN pool ELSE Append(pool, [text |-> text, off |-> 0])

OffOf(pool, text) == pool[CHOOSE i \in DOMAIN pool : pool[i].text = text].off

Texts(pool) == [i \in DOMAIN pool |-> pool[i].text]

(* Where each text ends in a blob that concatenates them.                  *)
Ends(texts) ==
    LET end[i \in 0..Len(texts)] == IF i = 0 THEN 0 ELSE end[i - 1] + texts[i].len IN end

BlobLen(blob) == Ends(blob)[Len(blob)]

(* The pool with the offsets of its texts: each begins where the last ends. *)
Placed(pool) ==
    LET ends == Ends(Texts(pool)) IN [i \in DOMAIN pool |-> [pool[i] EXCEPT !.off = ends[i - 1]]]

StringKinds == {"str", "bottom"}
SymbolKinds == {"symbol", "alge", "ref", "builtin"}

Write(f, roots) ==
    /\ op = "idle" /\ ops < MaxOps
    /\ ops' = ops + 1
    /\ op' = "collect"
    /\ wr' = [NoWriter EXCEPT !.file = f, !.roots = roots,
                              !.nodes = Numbered(<<>>, roots)]
    /\ disk' = [disk EXCEPT ![f] = EmptyFile]
    /\ wrote' = [wrote EXCEPT ![f] = NoGraph]
    /\ UNCHANGED <<mem, held, pdec, ld>>

CollectForever ==
    /\ op = "collect" /\ wr.qh < Len(wr.nodes)
    /\ UNCHANGED vars

(* One turn of the breadth-first loop: number the children, pool the text. *)
Collect ==
    /\ op = "collect" /\ wr.qh < Len(wr.nodes)
    /\ LET t == mem.th[wr.nodes[wr.qh + 1]] IN
       wr' = [wr EXCEPT
           !.qh = @ + 1,
           !.nodes = Numbered(@, t.kids),
           !.params = IF t.kind = "lambda" THEN Known(@, t.pat) ELSE @,
           !.spool = IF t.kind \in StringKinds THEN Pooled(@, t.text) ELSE @,
           !.ypool = IF t.kind \in SymbolKinds THEN Pooled(@, t.text) ELSE @]
    /\ UNCHANGED <<mem, held, pdec, disk, op, ld, ops, wrote>>

(* What the next part of lsti_write does to the file and its locals.       *)
Part(from, to, file, locals) ==
    /\ op = from
    /\ op' = to
    /\ disk' = [disk EXCEPT ![wr.file] = file]
    /\ wr' = locals
    /\ UNCHANGED <<mem, held, pdec, ld, ops, wrote>>

(* A return with an error: the file stays as it is.                        *)
WriteFails == op' = "idle" /\ wr' = NoWriter /\ UNCHANGED <<mem, held, pdec, disk, ld, ops, wrote>>

Out == disk[wr.file]

WriteHeaderAndTable ==
    /\ wr.qh = Len(wr.nodes)
    /\ Part("collect", "blobs", [Out EXCEPT !.head = TRUE, !.table = {"thunks", "roots"}], wr)

WriteHeader ==
    /\ wr.qh = Len(wr.nodes)
    /\ Part("collect", "blobs", [Out EXCEPT !.head = TRUE], wr)

(* STRING_BLOB and SYMBOL_BLOB, each when its pool has an entry.           *)
WriteBlobs ==
    LET s == Placed(wr.spool)  y == Placed(wr.ypool) IN
    Part("blobs", "patterns", [Out EXCEPT !.strings = Texts(s), !.symbols = Texts(y)],
         [wr EXCEPT !.spool = s, !.ypool = y, !.next = 1])

(* An entry of PATTERN_TAB. The patterns inside a pattern must themselves  *)
(* be parameters: only those were collected.                               *)
PatternPools(p) ==
    [wr EXCEPT !.spool = IF p.kind = "str" THEN Pooled(@, p.text) ELSE @,
               !.ypool = IF p.kind \in {"alge", "ref"} THEN Pooled(@, p.text) ELSE @,
               !.next = @ + 1]

PatternEntry(p, pools) ==
    [kind |-> p.kind, num |-> p.num, len |-> p.text.len, kids |-> IdsOf(wr.params, p.kids),
     off |-> CASE p.kind = "str" -> OffOf(pools.spool, p.text)
               [] p.kind \in {"alge", "ref"} -> OffOf(pools.ypool, p.text)
               [] OTHER -> 0]

WritePattern ==
    /\ op = "patterns" /\ wr.next <= Len(wr.params)
    /\ LET p == mem.pat[wr.params[wr.next]] IN
       IF Range(p.kids) \subseteq Range(wr.params)
       THEN LET pools == PatternPools(p) IN
            Part("patterns", "patterns",
                 [Out EXCEPT !.patterns = Append(@, PatternEntry(p, pools))], pools)
       ELSE WriteFails

PatternsEnd ==
    /\ wr.next > Len(wr.params)
    /\ Part("patterns", "thunks", Out, [wr EXCEPT !.next = 1])

(* An entry of THUNK_TAB: header and payload. Children and parameter by    *)
(* their index, a text by length and offset, a builtin as a reference.     *)
ThunkEntry(t) ==
    [kind |-> SavedKind(t.kind), num |-> t.num, len |-> t.text.len, kids |-> IdsOf(wr.nodes, t.kids),
     pat |-> IF t.kind = "lambda" THEN IdOf(wr.params, t.pat) ELSE 0,
     off |-> CASE t.kind \in StringKinds -> OffOf(wr.spool, t.text)
               [] t.kind \in SymbolKinds -> OffOf(wr.ypool, t.text)
               [] OTHER -> 0]

WriteThunk ==
    /\ op = "thunks" /\ wr.next <= Len(wr.nodes)
    /\ LET t == mem.th[wr.nodes[wr.next]] IN
       IF NULL \notin Range(t.kids)
       THEN Part("thunks", "thunks", [Out EXCEPT !.thunks = Append(@, ThunkEntry(t))],
                 [wr EXCEPT !.next = @ + 1])
       ELSE WriteFails

(* ROOTS; a root that is NULL has no index.                                *)
WriteRoots ==
    /\ op = "thunks" /\ wr.next > Len(wr.nodes)
    /\ IF NULL \notin Range(wr.roots)
       THEN Part("thunks", "table", [Out EXCEPT !.roots = IdsOf(wr.nodes, wr.roots)],
                 [wr EXCEPT !.next = 1])
       ELSE WriteFails

(* The section table is filled in last, in the order of the sections.      *)
Section(name, content) == IF content = <<>> THEN <<>> ELSE <<name>>

Sections ==
    Section("strings", Out.strings) \o Section("symbols", Out.symbols)
        \o Section("patterns", wr.params) \o <<"thunks", "roots">>

WriteTable ==
    /\ wr.next < Len(Sections)
    /\ Part("table", "table", [Out EXCEPT !.table = @ \cup {Sections[wr.next]}],
            [wr EXCEPT !.next = @ + 1])

WriteDone ==
    /\ op = "table" /\ wr.next = Len(Sections)
    /\ op' = "idle"
    /\ disk' = [disk EXCEPT ![wr.file] = [Out EXCEPT !.table = @ \cup {Last(Sections)}]]
    /\ wrote' = [wrote EXCEPT ![wr.file] = <<[mem |-> mem, roots |-> wr.roots]>>]
    /\ wr' = NoWriter
    /\ UNCHANGED <<mem, held, pdec, ld, ops>>

-----------------------------------------------------------------------------
(* lsti_validate *)

ValidTables(file) ==
    /\ file.head
    /\ {"thunks", "roots"} \subseteq file.table
    /\ \A i \in DOMAIN file.roots : file.roots[i] \in DOMAIN file.thunks

InBlob(file, section, blob, e) == section \in file.table /\ e.off + e.len <= BlobLen(blob)

ValidThunk(file, e) ==
    CASE e.kind \in StringKinds -> InBlob(file, "strings", file.strings, e)
      [] e.kind \in SymbolKinds -> InBlob(file, "symbols", file.symbols, e)
      [] e.kind = "appl" -> e.kids[1] \in DOMAIN file.thunks
      [] e.kind = "choice" -> e.num \in 1..3 /\ Range(e.kids) \subseteq DOMAIN file.thunks
      [] e.kind = "lambda" -> /\ "patterns" \in file.table
                              /\ e.pat \in DOMAIN file.patterns
                              /\ Range(e.kids) \subseteq DOMAIN file.thunks
      [] OTHER -> TRUE

(* Thunks are looked at only when there is a blob. *)
Accepted(file) ==
    /\ ValidTables(file)
    /\ {"strings", "symbols"} \cap file.table # {} =>
           \A i \in DOMAIN file.thunks : ValidThunk(file, file.thunks[i])

-----------------------------------------------------------------------------
(* Loading *)

(* The bytes of a blob at an offset: the text that was put there, or       *)
(* whatever else that many bytes are.                                      *)
TextAt(blob, off, len) ==
    LET here == {i \in DOMAIN blob : Ends(blob)[i - 1] = off /\ blob[i].len = len}
    IN  IF here # {} THEN blob[CHOOSE i \in here : TRUE]
        ELSE IF len = 0 THEN NoText ELSE Text("?", len)

In == disk[ld.file]

(* lsti_map, lsti_validate, and lsti_materialize's own validation. An      *)
(* image without thunks has no roots.                                      *)
Load(f) ==
    /\ op = "idle" /\ ops < MaxOps
    /\ ops' = ops + 1
    /\ Accepted(disk[f]) /\ disk[f].thunks # <<>>
    /\ op' = "nodes"
    /\ ld' = [NoLoader EXCEPT !.file = f]
    /\ UNCHANGED <<mem, held, pdec, disk, wr, wrote>>

LoadRefused(f) ==
    /\ op = "idle" /\ ops < MaxOps
    /\ ops' = ops + 1
    /\ ~Accepted(disk[f]) \/ disk[f].thunks = <<>>
    /\ UNCHANGED <<mem, held, pdec, disk, op, wr, ld, wrote>>

(* decode_impl: the pattern of an index, decoded unless pdec has it. The   *)
(* state is the patterns of the process and pdec.                          *)
Decode(file, idx, state) ==
    LET dec[i \in Nat, s \in [pat : Seq([kind : PatKinds, text : [name : STRING, len : Nat],
                                          num : Int, kids : Seq(Nat)]), pdec : Seq(Nat)]] ==
            IF s.pdec[i] # NULL THEN s ELSE
            LET e == file.patterns[i]
                inner == FoldLeft(LAMBDA acc, k : dec[k, acc], s, e.kids)
                blob == IF e.kind = "str" THEN file.strings ELSE file.symbols
                new == Pat(e.kind, TextAt(blob, e.off, e.len), e.num,
                           [k \in DOMAIN e.kids |-> inner.pdec[e.kids[k]]])
            IN [pat |-> Append(inner.pat, new), pdec |-> [inner.pdec EXCEPT ![i] = Len(inner.pat) + 1]]
    IN dec[idx, state]

GrownAnew(count) == [i \in 1..count |-> NULL]

(* pdec grows to the number of patterns and is never emptied.              *)
Grown(count) == [i \in 1..Max({count, Len(pdec)}) |-> IF i <= Len(pdec) THEN pdec[i] ELSE NULL]

(* Text of a pattern without its blob: the address is a small number.      *)
ReadsNowhere(file, e) ==
    \/ e.kind = "str" /\ "strings" \notin file.table /\ e.len > 0
    \/ e.kind \in {"alge", "ref"} /\ "symbols" \notin file.table /\ e.len > 0

(* The first pass: a thunk for every entry, its children still to come. A  *)
(* reference is looked up in the environment of the loader.                *)
NewThunk(e, param) ==
    LET text == CASE e.kind \in StringKinds -> TextAt(In.strings, e.off, e.len)
                  [] e.kind \in SymbolKinds -> TextAt(In.symbols, e.off, e.len)
                  [] OTHER -> NoText
    IN [Thunk(e.kind, text, e.num, [k \in DOMAIN e.kids |-> NULL]) EXCEPT
            !.pat = param,
            !.tgt = IF e.kind = "ref" /\ text \in PreludeNames THEN Prelude ELSE NULL]

Loading(e) == op = "nodes" /\ Len(ld.nodes) < Len(In.thunks) /\ e = In.thunks[Len(ld.nodes) + 1]

Made(thunk, pats) ==
    /\ mem' = Memory(Append(mem.th, thunk), pats)
    /\ ld' = [ld EXCEPT !.nodes = Append(@, Len(mem.th) + 1)]
    /\ UNCHANGED <<held, disk, op, wr, ops, wrote>>

LoadThunk ==
    \E e \in Range(In.thunks) :
        /\ Loading(e) /\ e.kind # "lambda"
        /\ Made(NewThunk(e, NULL), mem.pat)
        /\ UNCHANGED pdec

LoadLambda ==
    \E e \in Range(In.thunks) :
        /\ Loading(e) /\ e.kind = "lambda"
        /\ LET known == Grown(Len(In.patterns)) IN
           IF known[e.pat] = NULL /\ ReadsNowhere(In, In.patterns[e.pat])
           THEN op' = "fault" /\ UNCHANGED <<mem, held, pdec, disk, wr, ld, ops, wrote>>
           ELSE LET s == Decode(In, e.pat, [pat |-> mem.pat, pdec |-> known]) IN
                /\ Made(NewThunk(e, s.pdec[e.pat]), s.pat)
                /\ pdec' = s.pdec

WireTo(kid(_)) ==
    /\ op = "nodes" /\ Len(ld.nodes) = Len(In.thunks)
    /\ mem' = [mem EXCEPT !.th = [a \in DOMAIN @ |->
           IF a \in Range(ld.nodes)
           THEN LET e == In.thunks[IdOf(ld.nodes, a)] IN
                [@[a] EXCEPT !.kids = [k \in DOMAIN e.kids |-> kid(e.kids[k])]]
           ELSE @[a]]]
    /\ held' = Append(held, [i \in DOMAIN In.roots |-> ld.nodes[In.roots[i]]])
    /\ op' = "idle"
    /\ ld' = NoLoader
    /\ UNCHANGED <<pdec, disk, wr, ops, wrote>>

WireToPrevious == WireTo(LAMBDA i : ld.nodes[Max({1, i - 1})])

WireFromFirst ==
    /\ op = "nodes" /\ Len(ld.nodes) = Len(In.thunks)
    /\ mem' = [mem EXCEPT !.th = [a \in DOMAIN @ |->
           IF a <= Last(ld.nodes)
           THEN LET e == In.thunks[((a - 1) % Len(ld.nodes)) + 1] IN
                [@[a] EXCEPT !.kids = [k \in DOMAIN e.kids |-> ld.nodes[e.kids[k]]]]
           ELSE @[a]]]
    /\ held' = Append(held, [i \in DOMAIN In.roots |-> ld.nodes[In.roots[i]]])
    /\ op' = "idle"
    /\ ld' = NoLoader
    /\ UNCHANGED <<pdec, disk, wr, ops, wrote>>

(* The second pass: children by their index. Then the roots.               *)
Wire == WireTo(LAMBDA i : ld.nodes[i])

-----------------------------------------------------------------------------
(* The process ends, wherever it is, and another one starts.               *)
Restart ==
    /\ ops < MaxOps
    /\ ops' = ops + 1
    /\ op' = "idle"
    /\ mem' = NoMemory /\ held' = <<>> /\ pdec' = <<>>
    /\ wr' = NoWriter /\ ld' = NoLoader
    /\ UNCHANGED <<disk, wrote>>

Init ==
    /\ \E p \in Programs : mem = Memory(p.th, p.pat) /\ held = p.held
    /\ pdec = <<>>
    /\ disk = [f \in Files |-> EmptyFile]
    /\ op = "idle" /\ wr = NoWriter /\ ld = NoLoader
    /\ ops = 0
    /\ wrote = [f \in Files |-> NoGraph]

Next ==
    \/ \E f \in Files, i \in DOMAIN held : Write(f, held[i])
    \/ Collect \/ WriteHeader \/ WriteBlobs \/ WritePattern \/ PatternsEnd
    \/ WriteThunk \/ WriteRoots \/ WriteTable \/ WriteDone
    \/ \E f \in Files : Load(f) \/ LoadRefused(f)
    \/ LoadThunk \/ LoadLambda \/ Wire
    \/ Restart

Spec == Init /\ [][Next]_vars /\ WF_vars(Next)

-----------------------------------------------------------------------------
(* Properties *)

(* A file that lsti_validate accepts is one lsti_write has completed: what *)
(* a process that ended half way, or a write that was refused, leaves is   *)
(* not accepted (lsti.c fills the section table in last). And what it has  *)
(* completed is accepted.                                                  *)
AcceptedIffComplete == \A f \in Files : Accepted(disk[f]) <=> wrote[f] # NoGraph

Loaded1 == Len(held') = Len(held) + 1

(* What lsti_materialize makes of an image is the graph that was written:  *)
(* the same thunks with the same texts and edges, shared where they were   *)
(* shared, cyclic where they were cyclic.                                  *)
RoundTrip ==
    [][Loaded1 => LET w == wrote[ld.file][1] IN SameGraph(w.mem, w.roots, mem', Last(held'))]_vars

(* The text of a parameter is also the text of a thunk, so that it is in   *)
(* its pool before the pool is written.                                    *)
NamesOccur(g, roots) ==
    LET nodes == {p[1] : p \in Pairs(g, roots, g, roots)}
        texts(kinds) == {NoText} \cup {g.th[a].text : a \in {b \in nodes : g.th[b].kind \in kinds}}
        params == {g.pat[g.th[a].pat] : a \in {b \in nodes : g.th[b].kind = "lambda"}}
    IN  \A q \in params : /\ q.kind = "str" => q.text \in texts(StringKinds)
                          /\ q.kind \in {"alge", "ref"} => q.text \in texts(SymbolKinds)

(* Of an image that is the first its process loads, the lambdas have the   *)
(* parameters they had, each its own, shared where they were shared: as    *)
(* long as pdec has nothing of an earlier load, its indices are the        *)
(* image's.                                                                *)
ParamsKept ==
    [][Loaded1 /\ held = <<>> =>
           LET w == wrote[ld.file][1] IN
           NamesOccur(w.mem, w.roots) => SameParams(w.mem, w.roots, mem', Last(held'))]_vars

(* A graph that was already in memory is not changed by loading another.   *)
OthersKept ==
    [][op = "nodes" /\ held' # <<>> => \A a \in DOMAIN mem.th \ Range(ld.nodes) : mem'.th[a] = mem.th[a]]_vars

(* Every write and every load comes to its end, cyclic graphs included.    *)
OperationsEnd == [](op # "idle" => <>(op = "idle"))
=============================================================================
