------------------------------- MODULE MCLstb -------------------------------
(* Instances of LstbImage: graphs of up to three thunks without cycles. *)
EXTENDS LstbImage

a == Text("a", 1)
ok == Text("ok", 2)
aNul == Text("a, NUL, b", 3)
MCCString(text) == IF text = aNul THEN a ELSE text

Leaf == {Thunk("int", NoText, 7, <<>>), Thunk("str", a, 0, <<>>), Thunk("str", aNul, 0, <<>>),
         Thunk("symbol", ok, 0, <<>>), Thunk("str", NoText, 0, <<>>)}
Middle == {Thunk("alge", a, 0, kids) : kids \in {<<>>, <<3>>, <<3, 3>>}} \cup
          {Thunk("bottom", a, 0, kids) : kids \in {<<>>, <<3>>}} \cup
          {Thunk("appl", NoText, 0, <<3, 3>>)}
Top == {Thunk("alge", ok, 0, kids) : kids \in {<<>>, <<2>>, <<2, 2>>, <<2, 3>>, <<3, 2>>}} \cup
       {Thunk("bottom", ok, 0, kids) : kids \in {<<>>, <<2>>, <<3, 2>>}}

Held == {<< <<1>> >>, << <<3, 2>>, <<1>> >>, << <<2, 1, 2>> >>, << <<1, 0>> >>}
MCPrograms == {[th |-> <<i, j, k>>, pat |-> <<>>, held |-> h] : i \in Top, j \in Middle, k \in Leaf, h \in Held}

=============================================================================
