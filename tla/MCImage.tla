------------------------------ MODULE MCImage ------------------------------
(* Instances of LstiImage: graphs of three thunks. *)
EXTENDS LstiImage

a == Text("a", 1)
ok == Text("ok", 2)
x == Text("x", 1)
print == Text("print", 5)
MCPrelude == {print}

MCFiles == {"f"}

Leaves == {Thunk("int", NoText, 7, <<>>), Thunk("str", a, 0, <<>>), Thunk("symbol", ok, 0, <<>>),
           Thunk("builtin", print, 0, <<>>), Thunk("str", NoText, 0, <<>>)}

Inner ==
    {Thunk("alge", ok, 0, kids) : kids \in {<<>>, <<1>>, <<3, 2>>, <<2, 2>>}} \cup
    {Thunk("bottom", a, 0, kids) : kids \in {<<>>, <<2>>}} \cup
    {Thunk("appl", NoText, 0, kids) : kids \in {<<2, 3>>, <<1, 3, 3>>}} \cup
    {Thunk("choice", NoText, n, <<2, 3>>) : n \in {1, 3}}

Wild == Pat("wild", NoText, 0, <<>>)
RefX == Pat("ref", x, 0, <<>>)

Seven == Pat("int", NoText, 7, <<>>)
StrA == Pat("str", a, 0, <<>>)
Ok == Pat("alge", ok, 0, <<>>)

LambdaOf(pat, body) == [Thunk("lambda", NoText, 0, <<body>>) EXCEPT !.pat = pat]
Lambda(body) == LambdaOf(1, body)
RefOf(text, tgt) == [Thunk("ref", text, 0, <<>>) EXCEPT !.tgt = tgt]

(* Graphs with one parameter, which several lambdas may share as copies of *)
(* a lambda do; a named one occurs in a body.                              *)
Graph(th, pat) == [th |-> th, pat |-> <<pat>>]
OneParam ==
    {Graph(<<i, j, k>>, Wild) : i \in Inner \cup {Lambda(1)}, j \in {Thunk("alge", a, 0, <<1, 3>>), Lambda(2), Lambda(1)},
                                k \in Leaves} \cup
    {Graph(<<i, Lambda(3), RefOf(x, 1)>>, RefX) : i \in Inner \cup {Lambda(2), Lambda(3)}}

(* A lambda in a lambda, with different parameters. The text of each one   *)
(* is that of the body, but of x where the body is the constructor: it     *)
(* enters the pool late.                                                   *)
Nested(p, q, body) == [th |-> <<LambdaOf(1, 2), LambdaOf(2, 3), body>>, pat |-> <<p, q>>]
TwoParams ==
    {Nested(RefX, q, RefOf(x, 1)) : q \in {Wild, Seven, RefX}} \cup
    {Nested(p, RefX, RefOf(x, 2)) : p \in {Wild, Seven, RefX}} \cup
    {Nested(p, q, Thunk("alge", ok, 0, <<>>)) : p \in {Ok, Seven, RefX}, q \in {Ok, Wild}} \cup
    {Nested(p, q, Thunk("str", a, 0, <<>>)) : p \in {StrA, Seven}, q \in {StrA, Wild}}
Graphs == OneParam \cup TwoParams

(* A parameter with a pattern inside cannot be written. *)
Structured == [th |-> <<Lambda(2), Thunk("str", a, 0, <<>>), Thunk("int", NoText, 7, <<>>)>>,
               pat |-> <<Pat("alge", ok, 0, <<2>>), RefX>>]

Held == {<< <<1>> >>, << <<2, 3>>, <<1>> >>, << <<2, 2>> >>, << <<1, 0>> >>}
MCPrograms == {[th |-> g.th, pat |-> g.pat, held |-> h] : g \in Graphs \cup {Structured}, h \in Held}
============================================================================
