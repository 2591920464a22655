------------------------------ MODULE Literal -------------------------------
(***************************************************************************)
(* Text literals: how common/str.c prints a text (the formatter, the Core  *)
(* IR and every dump use it) and reads one from the source. A character is *)
(* a signed byte, as char is in the build; -1 is both the byte 255 and the *)
(* end of the input.                                                       *)
(***************************************************************************)
EXTENDS Integers, Sequences

Chars == -128 .. 127
Eof == -1
NoText == [text |-> <<>>, end |-> 0]
Quote == 34
Backslash == 92

Byte(c) == IF c % 256 >= 128 THEN (c % 256) - 256 ELSE c % 256

(* The escapes of one letter: the letter and what it stands for.           *)
Named ==
    <<<<110, 10>>, <<116, 9>>, <<114, 13>>, <<48, 0>>, <<92, 92>>, <<34, 34>>, <<39, 39>>,
      <<97, 7>>, <<98, 8>>, <<102, 12>>, <<118, 11>>>>
NamedOf(c) == {i \in DOMAIN Named : Named[i][2] = c}
Letter(c) == IF c \in {78, 84, 82, 65, 66, 70, 86} THEN c + 32 ELSE c

HexDigit(c) ==
    CASE c \in 48 .. 57 -> c - 48 [] c \in 97 .. 102 -> c - 87 [] c \in 65 .. 70 -> c - 55 [] OTHER -> -1
HexChar(n) == IF n < 10 THEN 48 + n ELSE 87 + n

(* %02x of a char, which is an int by then: all eight digits if negative.  *)
Hex(c) ==
    (IF c < 0 THEN [i \in 1 .. 6 |-> 102] ELSE <<>>) \o <<HexChar((c % 256) \div 16), HexChar(c % 16)>>

PrintedChar(c) ==
    IF NamedOf(c) # {} THEN <<Backslash, Named[CHOOSE i \in NamedOf(c) : TRUE][1]>>
    ELSE IF c < 32 \/ c >= 127 THEN <<Backslash, 120>> \o Hex(c) ELSE <<c>>

(* lsstr_print.                                                            *)
Printed(text) ==
    LET upto[i \in 0 .. Len(text)] == IF i = 0 THEN <<Quote>> ELSE upto[i - 1] \o PrintedChar(text[i])
    IN  Append(upto[Len(text)], Quote)

-----------------------------------------------------------------------------
At(s, i) == IF i <= Len(s) THEN s[i] ELSE Eof
After(s, i) == IF i <= Len(s) THEN i + 1 ELSE i
Read(c, i) == [c |-> c, next |-> i]

(* The digits after \x; i is where they start. A character that is no      *)
(* digit is taken all the same.                                            *)
ReadHex(s, i) ==
    LET c1 == At(s, i)  j == After(s, i)  c2 == At(s, j)
    IN  IF c1 = Eof THEN Read(Eof, i)
        ELSE IF HexDigit(c1) < 0 THEN Read(120, j)
        ELSE IF c2 = Eof THEN Read(Eof, j)
        ELSE IF HexDigit(c2) < 0 THEN Read(HexDigit(c1), After(s, j))
        ELSE Read(HexDigit(c1) * 16 + HexDigit(c2), After(s, j))

(* The digit after an octal one.                                           *)
ReadOct(s, i, first) ==
    LET c == At(s, i)
    IN  Read(IF c = Eof THEN Eof
             ELSE IF c \in 48 .. 55 THEN (first - 48) * 8 + c - 48
             ELSE first - 48, After(s, i))

(* What follows a backslash.                                               *)
ReadEscapeOctalFirst(s, i) ==
    LET c == At(s, i)  l == Letter(c)  j == After(s, i)
        named == {n \in DOMAIN Named : Named[n][1] = l}
    IN  IF c = Eof THEN Read(Eof, i)
        ELSE IF c \in 48 .. 55 THEN ReadOct(s, j, c)
        ELSE IF named # {} THEN Read(Named[CHOOSE n \in named : TRUE][2], j)
        ELSE IF l \in {120, 88} THEN ReadHex(s, j)
        ELSE Read(c, j)

ReadEscape(s, i) ==
    LET c == At(s, i)  l == Letter(c)  j == After(s, i)
        named == {n \in DOMAIN Named : Named[n][1] = l}
    IN  IF c = Eof THEN Read(Eof, i)
        ELSE IF named # {} THEN Read(Named[CHOOSE n \in named : TRUE][2], j)
        ELSE IF l \in {120, 88} THEN ReadHex(s, j)
        ELSE IF c \in 48 .. 55 THEN ReadOct(s, j, c)
        ELSE Read(c, j)

(* lsstr_parse: the text and where it ends, or NoText.                     *)
Parsed(s) ==
    LET from[i \in 2 .. Len(s) + 1] ==
            LET r == IF At(s, i) = Backslash THEN ReadEscape(s, i + 1) ELSE Read(At(s, i), After(s, i))
                rest == from[r.next]
            IN  IF At(s, i) = Quote THEN [text |-> <<>>, end |-> i]
                ELSE IF r.c = Eof \/ rest = NoText THEN NoText
                ELSE [text |-> <<Byte(r.c)>> \o rest.text, end |-> rest.end]
    IN  IF At(s, 1) # Quote THEN NoText ELSE from[2]
=============================================================================
