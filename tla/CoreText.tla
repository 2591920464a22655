------------------------------ MODULE CoreText ------------------------------
(***************************************************************************)
(* The text form of Core IR: lscir_print (coreir/cir_lower_print.c) writes *)
(* it, lscir_read_text (coreir/cir_text_reader.c) reads it. A text is a    *)
(* sequence of tokens: parentheses, words, strings between quotes, lines   *)
(* of comment. The reader descends recursively; its C stack is rd.stack.   *)
(* A keyword is accepted when the word begins with it, and the rest of the *)
(* word is what comes next.                                                *)
(***************************************************************************)
EXTENDS CoreIR

CONSTANT MaxParts   \* what a list the reader cannot get out of is counted to

VARIABLE rd         \* the reader

Token(t, s) == [t |-> t, s |-> s]
Open == Token("(", "")
Close == Token(")", "")
Word(s) == Token("word", s)
Quoted(s) == Token("string", s)
Comment(s) == Token("comment", s)

Header == "LCIR v0"

-----------------------------------------------------------------------------
(* Printing *)

List(head, rest) == <<Open, Word(head)>> \o rest \o <<Close>>

RECURSIVE Printed(_), PrintedAll(_), PrintedMembers(_, _)
PrintedAll(es) == IF es = <<>> THEN <<>> ELSE Printed(Head(es)) \o PrintedAll(Tail(es))
PrintedMembers(names, vals) ==
    IF names = <<>> THEN <<>>
    ELSE List(Head(names), Printed(Head(vals))) \o PrintedMembers(Tail(names), Tail(vals))

PrintedLetSwapped(e) ==
    CASE e.k = "int" -> List("int", <<Word(ToString(e.n))>>)
      [] e.k = "str" -> List("str", <<Quoted(e.s)>>)
      [] e.k = "var" -> List("var", <<Word(e.x)>>)
      [] e.k = "con" -> List(e.x, PrintedAll(e.args))
      [] e.k = "lam" -> List("lam", <<Word(e.x)>> \o Printed(e.body))
      [] e.k = "nslit" -> List("nslit", PrintedMembers(e.names, e.args))
      [] e.k = "let" -> List("let", <<Word(e.x)>> \o Printed(e.body) \o Printed(e.bind))
      [] e.k = "app" -> List("app", PrintedAll(<<e.func>> \o e.args))
      [] e.k = "if" -> List("if", PrintedAll(<<e.cond, e.then, e.else>>))
      [] e.k = "effapp" -> List("effapp", PrintedAll(<<e.func, e.token>> \o e.args))
      [] e.k = "token" -> List("token", <<>>)
      [] OTHER -> <<Word("<null-expr>")>>

(* cir_print_expr, cir_print_val. (No program that is printed has a match.)*)
Printed(e) ==
    CASE e.k = "int" -> List("int", <<Word(ToString(e.n))>>)
      [] e.k = "str" -> List("str", <<Quoted(e.s)>>)
      [] e.k = "var" -> List("var", <<Word(e.x)>>)
      [] e.k = "con" -> List(e.x, PrintedAll(e.args))
      [] e.k = "lam" -> List("lam", <<Word(e.x)>> \o Printed(e.body))
      [] e.k = "nslit" -> List("nslit", PrintedMembers(e.names, e.args))
      [] e.k = "let" -> List("let", <<Word(e.x)>> \o Printed(e.bind) \o Printed(e.body))
      [] e.k = "app" -> List("app", PrintedAll(<<e.func>> \o e.args))
      [] e.k = "if" -> List("if", PrintedAll(<<e.cond, e.then, e.else>>))
      [] e.k = "effapp" -> List("effapp", PrintedAll(<<e.func, e.token>> \o e.args))
      [] e.k = "token" -> List("token", <<>>)
      [] OTHER -> <<Word("<null-expr>")>>

(* lazyscriptc: its header, then lscir_print. Without an expression the    *)
(* tree of the source is printed instead (print_value_like): "source".     *)
Text(e) ==
    <<Comment(Header), Comment("CoreIR dump (temporary)")>> \o
    (IF e = Null THEN List("source", <<>>) ELSE Printed(e))

-----------------------------------------------------------------------------
(* Reading: the tokens to come and what is under way. *)

NoReader == [do |-> "idle", toks |-> <<>>, stack |-> <<>>, ret |-> Null]

Is(toks, t) == toks # <<>> /\ Head(toks).t = t
StartsWith(s, kw) == Len(kw) <= Len(s) /\ SubSeq(s, 1, Len(kw)) = kw

(* accept_kw *)
Accepts(toks, kw) == Is(toks, "word") /\ StartsWith(Head(toks).s, kw)
After(toks, kw) ==
    LET s == Head(toks).s IN
    IF s = kw THEN Tail(toks) ELSE <<Word(SubSeq(s, Len(kw) + 1, Len(s)))>> \o Tail(toks)

ValueKeywords == {"int", "str", "var", "lam", "nslit"}
Keywords == ValueKeywords \cup {"app", "let", "if", "match", "effapp", "token"}
PatKeywords == {"_", "var", "int", "str"}
KeywordOf(toks, keywords) ==
    IF \E kw \in keywords : Accepts(toks, kw) THEN CHOOSE kw \in keywords : Accepts(toks, kw) ELSE ""

(* read_int reads no digit of a word that has none.                        *)
Digits == 0..9
IntOf(toks) ==
    IF Is(toks, "word") /\ \E n \in Digits : ToString(n) = Head(toks).s
    THEN CHOOSE n \in Digits : ToString(n) = Head(toks).s ELSE 0
AfterInt(toks) ==
    IF Is(toks, "word") /\ \E n \in Digits : ToString(n) = Head(toks).s THEN Tail(toks) ELSE toks

Returning(toks, v) == [rd EXCEPT !.do = "return", !.toks = toks, !.ret = v]
ClosedAtEnd(toks, v) ==
    IF Is(toks, ")") THEN Returning(Tail(toks), v) ELSE Returning(toks, IF toks = <<>> THEN v ELSE Null)

Closed(toks, v) == IF Is(toks, ")") THEN Returning(Tail(toks), v) ELSE Returning(toks, Null)

(* What a list is still to hold: by position, then any number more, up to  *)
(* the parenthesis ("loop"), or none (and the parenthesis must come).      *)
Fixed(h) == CASE h = "let" -> <<"expr", "expr">> [] h = "if" -> <<"val", "expr", "expr">>
              [] h = "lam" -> <<"expr">> [] h = "app" -> <<"val">> [] h = "effapp" -> <<"val", "val">>
              [] h = "member" -> <<"val">> [] h = "match" -> <<"val">> [] h = "case" -> <<"pat", "expr">>
              [] OTHER -> <<>>
Loops(h) == h \in {"app", "effapp", "con", "pcon"}
Nests(h) == h \in {"nslit", "match"}
Part(h) == IF h = "pcon" THEN "pat" ELSE "val"

Push(h, x, toks) ==
    [rd EXCEPT !.do = "list", !.toks = toks, !.stack = Append(@, [h |-> h, x |-> x, parts |-> <<>>])]

(* read_symbol, then a list of that name.                                  *)
PushNamed(h, toks) ==
    IF Is(toks, "word") THEN Push(h, Head(toks).s, Tail(toks)) ELSE Returning(toks, Null)

StartKeyword(kw, toks) ==
    CASE kw = "int" -> Closed(AfterInt(toks), ValInt(IntOf(toks)))
      [] kw = "str" -> IF Is(toks, "string") THEN Closed(Tail(toks), ValStr(Head(toks).s))
                       ELSE Closed(toks, ValStr("(null)"))
      [] kw = "var" -> IF Is(toks, "word") THEN Closed(Tail(toks), ValVar(Head(toks).s))
                       ELSE Closed(toks, Null)
      [] kw = "token" -> Closed(toks, ExpToken)
      [] kw \in {"lam", "let"} -> PushNamed(kw, toks)
      [] kw = "" -> PushNamed("con", toks)
      [] OTHER -> Push(kw, "", toks)

(* parse_expr, parse_val: a list by its keyword, or a word as a variable.  *)
Parse(keywords) ==
    rd' = IF Is(rd.toks, "(")
          THEN LET kw == KeywordOf(Tail(rd.toks), keywords) IN
               StartKeyword(kw, IF kw = "" THEN Tail(rd.toks) ELSE After(Tail(rd.toks), kw))
          ELSE IF Is(rd.toks, "word") THEN Returning(Tail(rd.toks), ValVar(Head(rd.toks).s))
          ELSE Returning(rd.toks, Null)

ReadExpr == rd.do = "expr" /\ Parse(Keywords)
ReadVal == rd.do = "val" /\ Parse(ValueKeywords)

(* parse_pat *)
ReadPat ==
    /\ rd.do = "pat"
    /\ LET in == IF Is(rd.toks, "(") THEN Tail(rd.toks) ELSE rd.toks
           kw == KeywordOf(in, PatKeywords)
           toks == IF kw = "" THEN in ELSE After(in, kw)
       IN  rd' = IF ~Is(rd.toks, "(")
                 THEN IF ~Is(in, "word") THEN Returning(in, Null)
                      ELSE Returning(Tail(in), IF Head(in).s = "_" THEN PatWild ELSE PatVar(Head(in).s))
                 ELSE CASE kw = "_" -> Closed(toks, PatWild)
                        [] kw = "" -> PushNamed("pcon", in)
                        [] OTHER -> StartKeyword(kw, toks)

Built(l) ==
    CASE l.h = "let" -> ExpLet(l.x, l.parts[1], l.parts[2])
      [] l.h = "if" -> ExpIf(l.parts[1], l.parts[2], l.parts[3])
      [] l.h = "lam" -> ValLam(l.x, l.parts[1])
      [] l.h = "app" -> ExpApp(l.parts[1], Tail(l.parts))
      [] l.h = "effapp" -> ExpEff(l.parts[1], l.parts[2], Tail(Tail(l.parts)))
      [] l.h = "con" -> ValCon(l.x, l.parts)
      [] l.h = "pcon" -> PatCon(l.x, l.parts)
      [] l.h = "member" -> [k |-> "member", x |-> l.x, val |-> l.parts[1]]
      [] l.h = "case" -> [k |-> "case", pat |-> l.parts[1], body |-> l.parts[2]]
      [] l.h = "match" -> ExpMatch(l.parts[1], Tail(l.parts))
      [] l.h = "nslit" -> ValNs([i \in DOMAIN l.parts |-> l.parts[i].x], [i \in DOMAIN l.parts |-> l.parts[i].val])

(* The innermost list: its next part, or its end.                          *)
ReadList ==
    /\ rd.do = "list"
    /\ LET l == rd.stack[Len(rd.stack)]
           n == Len(l.parts)
           out == [rd EXCEPT !.stack = SubSeq(@, 1, Len(@) - 1)]
           end(toks, v) == [out EXCEPT !.do = "return", !.toks = toks, !.ret = v]
       IN  IF l.h = "case" /\ n = 1 /\ ~Accepts(rd.toks, "->") THEN rd' = end(rd.toks, Null)
           ELSE IF n < Len(Fixed(l.h))
           THEN rd' = [rd EXCEPT !.do = Fixed(l.h)[n + 1],
                                 !.toks = IF l.h = "case" /\ n = 1 THEN After(@, "->") ELSE @]
           ELSE IF Nests(l.h) /\ Is(rd.toks, "(")
           THEN rd' = IF l.h = "nslit"
                      THEN LET in == Tail(rd.toks) IN
                           Push("member", IF Is(in, "word") THEN Head(in).s ELSE "", IF Is(in, "word") THEN Tail(in) ELSE in)
                      ELSE Push("case", "", Tail(rd.toks))
           ELSE IF Loops(l.h) /\ ~Is(rd.toks, ")") THEN rd' = [rd EXCEPT !.do = Part(l.h)]
           ELSE rd' = IF Is(rd.toks, ")") THEN end(Tail(rd.toks), Built(l)) ELSE end(rd.toks, Null)

(* What was parsed becomes a part of the list around it. A member or case  *)
(* that failed fails its list. A list that gets nothing where nothing is   *)
(* left to read goes on for ever.                                          *)
ReadPart ==
    /\ rd.do = "return" /\ rd.stack # <<>>
    /\ LET last == Len(rd.stack)
           l == rd.stack[last]
       IN  IF Nests(l.h) /\ rd.ret = Null /\ Len(l.parts) >= Len(Fixed(l.h))
           THEN rd' = [rd EXCEPT !.stack = SubSeq(@, 1, last - 1)]
           ELSE rd' = [rd EXCEPT !.do = "list", !.ret = Null,
                                 !.stack[last].parts = IF Len(@) < MaxParts THEN Append(@, rd.ret) ELSE @]

RECURSIVE SkipWs(_)
SkipWs(toks) == IF Is(toks, "comment") THEN SkipWs(Tail(toks)) ELSE toks

(* lscir_read_text: the header is looked for behind the comments, and so   *)
(* never found. Nothing at all is no text.                                 *)
StartRead(text) ==
    LET toks == SkipWs(text) IN
    rd' = IF text = <<>> \/ (Is(toks, "comment") /\ Head(toks).s # Header)
          THEN [NoReader EXCEPT !.do = "return"]
          ELSE [NoReader EXCEPT !.do = "expr", !.toks = toks]

ReadStep == ReadExpr \/ ReadVal \/ ReadPat \/ ReadList \/ ReadPart
HasRead == rd.do = "return" /\ rd.stack = <<>>
=============================================================================
