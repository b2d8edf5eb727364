------------------------------ MODULE Huffman ------------------------------
(***************************************************************************)
(* msp.HuffmanDecode, bit by bit, with the code table of the source.       *)
(*                                                                         *)
(* In the table the codes of each length are consecutive, so that it is    *)
(* given by the first and the last code of each length; what byte a code   *)
(* stands for is left out: a decoded byte is the pair of its code's length *)
(* and its code.  The input is not known before it is read.                *)
(***************************************************************************)
EXTENDS Integers, Sequences

CONSTANTS MaxBytes,   \* bound: bytes of input
          MaxChars    \* bound: charCount, the bytes expected

ASSUME HuffmanAssumption == MaxBytes \in Nat /\ MaxChars \in Nat

VARIABLES total,      \* totalBits
          charCount,
          bits,       \* history: the bits read; bitPos is its length
          codeLen,
          prefix,     \* code: what has been read of it
          out,
          result      \* "running", "full", "eof", "short" or "invalid"

huffmanVars == <<total, charCount, bits, codeLen, prefix, out, result>>

maxCodeLen == 12

Lengths == 1..maxCodeLen

\* rawTree: the codes of length n are First[n]..Last[n].
First == <<2, 3, 5, 9, 15, 25, 41, 61, 80, 13, 1, 0>>
Last  == <<1, 3, 5, 9, 17, 29, 49, 81, 121, 159, 25, 1>>

\* HuffmanEOF
EOF == <<12, 0>>

\* Mutation: the codes of the longest length are not indexed.
FoundShorter(n, c) == n < maxCodeLen /\ c \in First[n]..Last[n]

\* Is there an entry in huffmanLookup?
Found(n, c) == c \in First[n]..Last[n]

----------------------------------------------------------------------------
HuffmanInit ==
    /\ total \in {8 * n : n \in 0..MaxBytes}
    /\ charCount \in 0..MaxChars
    /\ bits = <<>>
    /\ codeLen = 0
    /\ prefix = 0
    /\ out = <<>>
    /\ result = IF charCount = 0 THEN "full" ELSE "running"

\* A code is complete.
Emit(n, c) ==
    /\ codeLen' = 0
    /\ prefix' = 0
    /\ IF <<n, c>> = EOF
       THEN result' = "eof" /\ UNCHANGED out
       ELSE /\ out' = Append(out, <<n, c>>)
            /\ result' = IF Len(out) + 1 = charCount THEN "full" ELSE "running"

\* Mutation: the bits of a byte are read lowest first.
ReadBitLowFirst ==
    /\ result = "running"
    /\ Len(bits) < total
    /\ \E bit \in {0, 1} :
          /\ bits' = Append(bits, bit)
          /\ LET n == codeLen + 1
                 c == prefix + (bit * 2^codeLen)
             IN  \/ Found(n, c) /\ Emit(n, c)
                 \/ /\ ~Found(n, c)
                    /\ codeLen' = n
                    /\ prefix' = c
                    /\ result' = IF n = maxCodeLen THEN "invalid" ELSE "running"
                    /\ UNCHANGED out
    /\ UNCHANGED <<total, charCount>>

\* One turn of the inner loop; after the last the code is invalid.
ReadBit ==
    /\ result = "running"
    /\ Len(bits) < total
    /\ \E bit \in {0, 1} :
          /\ bits' = Append(bits, bit)
          /\ LET n == codeLen + 1
                 c == (2 * prefix) + bit
             IN  \/ Found(n, c) /\ Emit(n, c)
                 \/ /\ ~Found(n, c)
                    /\ codeLen' = n
                    /\ prefix' = c
                    /\ result' = IF n = maxCodeLen THEN "invalid" ELSE "running"
                    /\ UNCHANGED out
    /\ UNCHANGED <<total, charCount>>

\* "unexpected end of input"
InputEnds == /\ result = "running"
             /\ Len(bits) = total
             /\ result' = "short"
             /\ UNCHANGED <<total, charCount, bits, codeLen, prefix, out>>

HuffmanNext == ReadBit \/ InputEnds

HuffmanSpec == HuffmanInit /\ [][HuffmanNext]_huffmanVars

----------------------------------------------------------------------------
(* Properties *)

Symbols == {<<n, c>> : n \in Lengths, c \in 0..159}

\* The types; an unfinished code never exceeds what the table leaves open.
HuffmanTypeOK ==
    /\ total \in 0..8 * MaxBytes
    /\ charCount \in 0..MaxChars
    /\ bits \in Seq({0, 1}) /\ Len(bits) <= total
    /\ codeLen \in 0..maxCodeLen
    /\ prefix \in 0..79
    /\ out \in Seq(Symbols) /\ Len(out) <= charCount
    /\ result \in {"running", "full", "eof", "short", "invalid"}

\* The n low bits of c, the highest first.
BitsOf(n, c) == [i \in 1..n |-> (c \div 2^(n - i)) % 2]

\* What an encoder writes for a sequence of bytes.
Encoded(chars) ==
    LET code_of[i \in 0..Len(chars)] ==
            IF i = 0 THEN <<>> ELSE code_of[i - 1] \o BitsOf(chars[i][1], chars[i][2])
    IN  code_of[Len(chars)]

\* Decoding inverts encoding, at every point: the bits read so far are the code
\* of the bytes put out, then the part of a code that is being read, or the end
\* mark.
InvertsEncoding ==
    bits = Encoded(out) \o IF result = "eof" THEN BitsOf(EOF[1], EOF[2])
                                             ELSE BitsOf(codeLen, prefix)

\* The table is complete: no input whatever is refused as an invalid code.
NoInvalidCode == result # "invalid"
=============================================================================
