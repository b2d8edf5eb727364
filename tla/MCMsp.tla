-------------------------------- MODULE MCMsp --------------------------------
(***************************************************************************)
(* The two decoders of the MSP client for TLC.  HuffmanDecode works on the *)
(* data of a reply that has come whole, between two bytes from the line,   *)
(* and keeps nothing: a behaviour is either a line with nothing to         *)
(* decompress or one input to HuffmanDecode.                               *)
(*                                                                         *)
(* Framing: 36, 77, 88 and 62 are $ M X and >.  With 0, 1 and 2 as length  *)
(* bytes the sizes are small ones and those around 256.  Huffman: two      *)
(* bytes of input hold every code of the table, and several short ones.    *)
(***************************************************************************)
EXTENDS Framing, Huffman

SomeSamples == {0, 1, 2, 36, 62, 77, 88, 255}
SomeFields == {0, 1, 36, 77}
SomeFiller == {0, 1, 36}

NoData == total = 0 /\ charCount = 0

Line == NoData /\ Next /\ UNCHANGED huffmanVars

Decompress == HuffmanNext /\ UNCHANGED vars

\* HuffmanDecode has returned.
Decompressed == ~NoData /\ result # "running" /\ UNCHANGED <<vars, huffmanVars>>

MspInit == Init /\ HuffmanInit

MspNext == Line \/ Decompress \/ Decompressed

MspSpec == MspInit /\ [][MspNext]_<<vars, huffmanVars>>
=============================================================================
