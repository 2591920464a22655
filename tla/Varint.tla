------------------------------- MODULE Varint -------------------------------
(***************************************************************************)
(* The integers of an LSTB image (thunk/thunk.c): seven bits a byte, the   *)
(* lowest first, the eighth bit set on every byte but the last. Bits is 64 *)
(* in the code; what matters of it is how many bits the last of the bytes  *)
(* has left over (one).                                                    *)
(***************************************************************************)
EXTENDS Integers, Sequences

CONSTANT Bits   \* of an integer

ASSUME BitsAssumption == Bits \in Nat \ {0}

(* Two to the power of k.                                                  *)
Power[k \in 0 .. 7 * Bits] == IF k = 0 THEN 1 ELSE 2 * Power[k - 1]

Words == 0 .. Power[Bits] - 1
Signed(w) == IF w >= Power[Bits - 1] THEN w - Power[Bits] ELSE w

(* What is left of a number after k turns of a writing loop: val >>= 7,    *)
(* which keeps the sign. Bits turns are more than enough.                  *)
Shifted(val) ==
    LET after[k \in 0 .. Bits] == IF k = 0 THEN val ELSE after[k - 1] \div 128
    IN  after

(* The bytes of a loop that ends with the first of these turns.            *)
Written(val, last) ==
    LET n == CHOOSE k \in last : \A j \in last : k <= j
    IN  [k \in 1 .. n |-> (Shifted(val)[k - 1] % 128) + (IF k < n THEN 128 ELSE 0)]

WriteUnsigned(val) == Written(val, {k \in 1 .. Bits : Shifted(val)[k] = 0})

(* The last byte is the one whose bit 6 says the sign of the rest.         *)
SignEnds(rest, byte) == (rest = 0 /\ byte < 64) \/ (rest = -1 /\ byte >= 64)

WriteSigned(val) ==
    Written(val, {k \in 1 .. Bits : SignEnds(Shifted(val)[k], Shifted(val)[k - 1] % 128)})

Error == -Power[Bits]

(* The bytes up to the first without the eighth bit; none, or a byte too   *)
(* many for the width, is an error.                                        *)
EndsAtEof(bytes) ==
    {n \in DOMAIN bytes : (bytes[n] < 128 \/ n = Len(bytes)) /\ \A k \in 1 .. n - 1 : bytes[k] >= 128}

Ends(bytes) == {n \in DOMAIN bytes : bytes[n] < 128 /\ \A k \in 1 .. n - 1 : bytes[k] >= 128}

Digits(bytes, n) ==
    LET sum[k \in 0..n] == IF k = 0 THEN 0 ELSE sum[k - 1] + (bytes[k] % 128) * Power[7 * (k - 1)]
    IN sum[n] % Power[Bits]

MaxBytesShort == (Bits - 1) \div 7

MaxBytes == (Bits - 1) \div 7 + 1

ReadUnsigned(bytes) ==
    IF \E n \in Ends(bytes) : n <= MaxBytes
    THEN Digits(bytes, CHOOSE n \in Ends(bytes) : TRUE)
    ELSE Error

(* The sign is extended unless the bytes fill the width.                   *)
ReadSigned(bytes) ==
    IF \E n \in Ends(bytes) : n <= MaxBytes
    THEN LET n == CHOOSE m \in Ends(bytes) : TRUE
             w == Digits(bytes, n)
         IN  Signed(IF 7 * n < Bits /\ bytes[n] >= 64 THEN w + Power[Bits] - Power[7 * n] ELSE w)
    ELSE Error
=============================================================================
