----------------------------- MODULE MCPrelude -----------------------------
(***************************************************************************)
(* Sessions for PreludePlugin: programs written as terms, laid out in the  *)
(* heap after the static thunks, and what the two directories of the       *)
(* search path may hold under the name of the core library.                *)
(***************************************************************************)
EXTENDS PreludePlugin

T_(k, op, a) == [k |-> k, op |-> op, a |-> a]
C_(name) == T_("con", name, <<>>)
S_(name) == T_("sym", name, <<>>)
R_(name) == T_("ref", name, <<>>)
Int_ == T_("int", "", <<>>)
Core_ == T_("str", "core", <<>>)
Ap(f, args) == T_("appl", "", <<f>> \o args)
Lam(body) == T_("lam", "", <<body>>)

RECURSIVE Size(_), Flat(_, _), FlatArgs(_, _)
Size(e) == IF e.a = <<>> THEN 1 ELSE Size(Head(e.a)) + Size([e EXCEPT !.a = Tail(@)])

\* The thunks of e, its own first, from address at on.
FlatArgs(args, at) ==
    IF args = <<>> THEN <<>>
    ELSE Flat(Head(args), at) \o FlatArgs(Tail(args), at + Size(Head(args)))
Flat(e, at) ==
    LET Before(i) == Size([e EXCEPT !.a = SubSeq(@, 1, i - 1)])
    IN  <<Th(e.k, e.op, [i \in DOMAIN e.a |-> at + Before(i)], 0, 0, FALSE)>>
        \o FlatArgs(e.a, at + 1)

Run(e, wrapped, fresh) == [e |-> e, wrapped |-> wrapped, fresh |-> fresh]

RECURSIVE Layout(_, _)
Layout(runs, at) ==
    IF runs = <<>> THEN [heap |-> <<>>, runs |-> <<>>]
    ELSE LET run == Head(runs)
             rest == Layout(Tail(runs), at + Size(run.e))
         IN  [heap |-> Flat(run.e, at) \o rest.heap,
              runs |-> <<[root |-> at, nodes |-> at..(at + Size(run.e) - 1),
                          wrapped |-> run.wrapped, fresh |-> run.fresh]>> \o rest.runs]
Session(runs, disks) ==
    LET l == Layout(runs, Len(Static) + 1)
    IN  [heap |-> l.heap, runs |-> l.runs, disks |-> disks]

\* An installed library, alone or behind another file on the search path; and
\* everything the directories may hold.
Disk(first, second) == [name \in {"core"} |-> <<first, second>>]
OnlyCore == {Disk("none", "good")}
AnyDisk ==
    {Disk("none", "none"), Disk("none", "good"), Disk("abi", "good"), Disk("no init", "good"),
     Disk("good", "abi")}

P_ == R_("prelude")
Pre(name, args) == Ap(P_, <<C_(name)>> \o args)
Env(key, args) == Ap(P_, <<S_("env"), S_(key)>> \o args)
Lit(key, value) == Pre("nslit2", <<key, value>>)
Lit2(key1, value1, key2, value2) == Pre("nslit4", <<key1, value1, key2, value2>>)
Then_(a, b) == Pre("chain", <<a, Lam(b)>>)
Println(e) == Pre("println", <<e>>)
Library == Pre("builtin", <<Core_>>)
LibraryEnv == Env("builtin", <<Core_>>)
Of(space, key) == Ap(space, <<key>>)
A == S_("a")

\* Programs that import, and those that use what may have been imported.
Imports_ ==
    {Env("import", <<Lit(A, Int_)>>),
     Env("import", <<Lit2(A, Int_, C_("a"), Println(Int_))>>),
     Env("importOpt", <<Lit2(S_("b"), R_("a"), C_("a"), Println(R_("none")))>>),
     Pre("importOpt", <<Int_>>), Env("import", <<Int_>>), Env("importOpt", <<R_("none")>>),
     Env("import", <<Lit(C_("prelude"), Lam(Int_))>>),
     Env("import", <<Library>>),
     Pre("withImport", <<Lit2(C_("a"), R_("c"), S_("c"), Int_), Lam(Then_(R_("a"), R_("c")))>>),
     Then_(Env("import", <<Lit(A, Lam(Println(Int_)))>>), Ap(R_("a"), <<Int_>>))}
Uses ==
    {R_("a"), Println(R_("a")), Then_(R_("a"), R_("b")), Ap(R_("println"), <<Int_>>),
     Pre("chain", <<Ap(R_("println"), <<R_("none")>>), Pre("return", <<>>)>>),
     Ap(R_("prelude$builtin"), <<C_("println"), R_("lt")>>),
     Pre("bind", <<R_("a"), Pre("exit", <<>>)>>)}
Loads ==
    {Library, LibraryEnv, Then_(Library, Of(LibraryEnv, S_("println"))),
     Then_(R_("none"), Library), Pre("chain", <<Println(Int_), Ap(Library, <<C_("println")>>)>>),
     Pre("bind", <<Library, Pre("nsMembers", <<>>)>>), Pre("builtin", <<Int_>>),
     Pre("lt", <<>>), Pre("lt", <<Int_, Int_>>), Then_(Pre("lt", <<Int_, A>>), Library)}
Others ==
    {Of(Lit(A, Int_), C_("a")), Of(Lit(A, Int_), S_("b")), Of(Lit2(A, A, A, Int_), A),
     Ap(Lit(A, Int_), <<S_("__set"), A, Int_>>), Of(Lit(A, Println(Int_)), A),
     Lit(Int_, A), Lit2(A, A, Core_, Int_), Pre("nsMembers", <<Lit(A, R_("none"))>>),
     Pre("nsMembers", <<A>>), Pre("none", <<>>), Env("none", <<>>),
     Ap(P_, <<S_("builtin"), Core_>>), Ap(P_, <<S_("println"), Int_>>), Ap(P_, <<Int_>>),
     Ap(Int_, <<A>>), Ap(C_("a"), <<A, A>>), Of(Lit(Ap(C_("a"), <<A>>), A), A),
     Pre("chain", <<Int_>>),
     Ap(Of(Lit(A, Pre("chain", <<Println(Int_)>>)), A), <<Lam(Println(A))>>),
     Pre("exit", <<A>>), Pre("chain", <<Ap(Int_, <<A>>), Pre("return", <<>>)>>),
     Then_(Then_(Println(Int_), Println(A)), Pre("return", <<Println(Int_)>>))}

\* An init script, wrapped, then a program and an entry in its environment or
\* in a new one.
MCSessions ==
    {Session(<<Run(e, TRUE, FALSE), Run(f, w, n)>>, OnlyCore) :
        e \in Imports_, f \in Imports_ \cup Uses, w \in BOOLEAN, n \in BOOLEAN}
    \cup {Session(<<Run(e, w, FALSE), Run(f, TRUE, n)>>, AnyDisk) :
        e \in Loads, w \in BOOLEAN, n \in BOOLEAN, f \in {Env("import", <<Library>>), Library}}
    \cup {Session(<<Run(Library, TRUE, FALSE), Run(e, FALSE, FALSE), Run(Library, TRUE, TRUE)>>,
                   AnyDisk) : e \in Loads}
    \cup {Session(<<Run(e, w, FALSE)>>, OnlyCore) : e \in Others \cup Uses, w \in BOOLEAN}
=============================================================================
