---------------------------- MODULE MCImageDocs ----------------------------
(***************************************************************************)
(* A process that writes and loads two images, one of \_ -> "a" and one of *)
(* \7 -> \_ -> "a", and what the format's document says of parameters. The *)
(* property fails of the image that is loaded second.                      *)
(***************************************************************************)
EXTENDS MCImage

Inside == Nested(Seven, Wild, Thunk("str", a, 0, <<>>))
DocPrograms == {[th |-> Inside.th, pat |-> Inside.pat, held |-> << <<2>>, <<1>> >>]}

\* The parameter of a lambda is restored from PATTERN_TAB
\* (docs/thunk-binary-format.md): from that of the image it is in.
ParamsRestored ==
    [][Loaded1 => LET w == wrote[ld.file][1] IN
           NamesOccur(w.mem, w.roots) => SameParams(w.mem, w.roots, mem', Last(held'))]_vars
============================================================================
