------------------------------- MODULE MCHost -------------------------------
(***************************************************************************)
(* Disks and command lines for HostRuntime: a user's file, two files to    *)
(* require or include, an init script and an entry function, with every    *)
(* small content from the sets below.                                      *)
(***************************************************************************)
EXTENDS HostRuntime

MCPath == {"user", "lib", "sub", "init", "main", "gone"}
MCName == {"main", "n"}

St(op) == [op |-> op, path |-> "", names |-> {}]
Ld(op, p) == [op |-> op, path |-> p, names |-> {}]
Nm(op, ns) == [op |-> op, path |-> "", names |-> ns]
Script_(kind, body, bad) == [kind |-> kind, body |-> body, undisciplined |-> bad]
Do(body) == Script_("do", body, FALSE)
Expr(s) == Script_("expr", <<s>>, FALSE)

UserScripts ==
    {Do(<<Ld("require", "lib"), Nm("use", {"n"}), St("print")>>),
     Do(<<Ld("require", "lib"), Ld("requireOpt", "lib"), Ld("require", "sub")>>),
     Do(<<Ld("include", "lib"), Ld("include", "sub"), Ld("require", "sub")>>),
     Do(<<St("print"), St("bottom"), St("print")>>),
     Do(<<Nm("import", {"main"}), Ld("requireOpt", "gone"), St("value")>>),
     Do(<<Nm("import", {"main"}), St("null")>>),
     Do(<<Ld("require", "gone"), St("print")>>),
     Expr(Ld("require", "lib")), Expr(St("print")), Expr(Ld("include", "lib")),
     Expr(St("value")), Expr(St("null")),
     Script_("do", <<St("print"), St("print")>>, TRUE),
     Script_("broken", <<>>, FALSE)}
LibScripts ==
    {Do(<<St("print"), Nm("import", {"n"})>>), Do(<<St("print"), St("bottom")>>),
     Do(<<Ld("require", "sub"), St("print")>>), Do(<<Ld("include", "sub"), St("print")>>),
     Do(<<St("print"), St("exit")>>), Do(<<Ld("require", "gone"), St("print")>>),
     Expr(St("null")), Expr(St("print")), Expr(Nm("import", {"n", "main"})),
     Script_("missing", <<>>, FALSE)}
SubScripts ==
    {Do(<<St("print"), Ld("require", "lib")>>), Do(<<St("print"), Ld("requireOpt", "sub")>>),
     Do(<<Ld("include", "lib"), St("print")>>), Do(<<St("print"), St("null")>>), Expr(St("value"))}
InitScripts ==
    {Do(<<Ld("require", "lib"), Nm("import", {"main"})>>), Expr(St("print")),
     Script_("broken", <<>>, FALSE), Script_("missing", <<>>, FALSE)}
MainScript == Do(<<St("print"), Ld("require", "lib"), St("bottom")>>)

MCDisks ==
    {[user |-> u, lib |-> l, sub |-> s, init |-> i, main |-> MainScript,
      gone |-> Script_("missing", <<>>, FALSE)] :
     u \in UserScripts, l \in LibScripts, s \in SubScripts, i \in InitScripts}

Opt(o, p) == [opt |-> o, path |-> p]
MCCommandLines ==
    {[options |-> <<>>, files |-> <<"user">>],
     [options |-> <<Opt("-s", "")>>, files |-> <<"user", "user">>],
     [options |-> <<Opt("-s", ""), Opt("--init", "init")>>, files |-> <<"user", "user">>],
     [options |-> <<Opt("-e", "user"), Opt("-s", ""), Opt("-e", "lib")>>, files |-> <<>>],
     [options |-> <<>>, files |-> <<"gone", "user">>]}
=============================================================================
