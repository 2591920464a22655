-------------------------------- MODULE Codec -------------------------------
(***************************************************************************)
(* What the program writes and reads itself: integers in the bytes of an   *)
(* image, texts as literals. A step is the next integer, or a text that is *)
(* one character longer.                                                   *)
(***************************************************************************)
EXTENDS Varint, Literal

CONSTANTS Characters,  \* characters of texts
          MaxText      \* bound: characters of a text

ASSUME CodecAssumption == Characters \subseteq Chars

VARIABLES word,  \* the integer written
          chars  \* the text printed

codecVars == <<word, chars>>

CodecInit == word \in Words /\ chars = <<>>
NextWord == chars = <<>> /\ word' = (word + 1) % Power[Bits] /\ UNCHANGED chars
NextText ==
    /\ word = 0
    /\ IF Len(chars) = MaxText THEN chars' = <<>>
       ELSE \E c \in Characters : chars' = Append(chars, c)
    /\ UNCHANGED word
CodecNext == NextWord \/ NextText
CodecSpec == CodecInit /\ [][CodecNext]_codecVars

-----------------------------------------------------------------------------
(* What was written is what is read, to the last bit of the width.         *)
NumbersKept ==
    /\ ReadUnsigned(WriteUnsigned(word)) = word
    /\ ReadSigned(WriteSigned(Signed(word))) = Signed(word)

(* An integer that the file ends in is an error, not a smaller integer.    *)
CutIsError ==
    \A bytes \in {WriteUnsigned(word), WriteSigned(Signed(word))} :
        \A k \in 0 .. Len(bytes) - 1 :
            ReadUnsigned(SubSeq(bytes, 1, k)) = Error /\ ReadSigned(SubSeq(bytes, 1, k)) = Error

(* A text that is printed and read again is one literal: it is read to its *)
(* end, not beyond a quote within it, and gives the same text if its       *)
(* characters have seven bits, whatever escapes and digits stand side by   *)
(* side in it.                                                             *)
LiteralKept ==
    LET read == Parsed(Printed(chars))
    IN  /\ read.end = Len(Printed(chars))
        /\ (\A i \in DOMAIN chars : chars[i] >= 0) => read.text = chars
=============================================================================
