------------------------------ MODULE Framing ------------------------------
(***************************************************************************)
(* msp.FrameDecoder: a state machine that finds MSP frames, version 1 and  *)
(* version 2, in a stream of bytes that may hold anything, and the encoder *)
(* that builds them.  Checksums are computed as the code does.             *)
(***************************************************************************)
EXTENDS Naturals, Sequences, FiniteSets

CONSTANTS Samples,   \* bound: bytes the stream may hold, with every right checksum
          Fields,    \* bound: bytes a flag or a code may be
          Filler,    \* bound: bytes a payload may hold
          Short,     \* bound: longer payloads repeat one of these bytes
          MaxSize    \* bound: announced payload sizes

Bytes == 0..255
MaxWord == 65535
Words == 0..MaxWord   \* uint16

ASSUME FramingAssumption ==
    /\ Samples \subseteq Bytes
    /\ Fields \subseteq Bytes
    /\ Filler \subseteq Bytes
    /\ Short \in Nat
    /\ MaxSize \in Words

VARIABLES state, version, direction, code, size, payload,
          checksum,   \* running XOR of a version 1 frame
          v2Header,   \* header bytes of a version 2 frame
          frames,     \* what the last byte completed: no frame or one
          seen        \* history: the bytes since the decoder last left "Idle"

decoder == <<state, version, direction, code, size, payload, checksum, v2Header>>
vars == <<decoder, frames, seen>>

\* $ M X and the directions
Dollar == 36
ProtoM == 77
ProtoX == 88
Directions == {60, 62, 33}

----------------------------------------------------------------------------
(* Checksums *)

\* The bitwise exclusive or of two bytes.
xor[x \in Bytes] ==
    [y \in Bytes |-> IF x = 0 \/ y = 0 THEN x + y
                      ELSE (2 * xor[x \div 2][y \div 2]) + ((x + y) % 2)]

\* Eight shifts with the polynomial 0xD5.
Shift == [c \in Bytes |-> IF c >= 128 THEN xor[(2 * c) % 256][213] ELSE 2 * c]

crc8Table == [c \in Bytes |-> Shift[Shift[Shift[Shift[Shift[Shift[Shift[Shift[c]]]]]]]]]

CRC8DVBS2(data, initial) ==
    LET crc[i \in 0..Len(data)] ==
            IF i = 0 THEN initial ELSE crc8Table[xor[crc[i - 1]][data[i]]]
    IN  crc[Len(data)]

CRC8Xor(data) ==
    LET crc[i \in 0..Len(data)] == IF i = 0 THEN 0 ELSE xor[crc[i - 1]][data[i]]
    IN  crc[Len(data)]

----------------------------------------------------------------------------
(* The encoder.  The direction and the flag are parameters: the code writes *)
(* '<' and 0, controllers answer with '>' or '!'.                           *)

EncodeV1(f) ==
    LET body == <<Len(f.payload), f.code>> \o f.payload
    IN  <<Dollar, ProtoM, f.direction>> \o body \o <<CRC8Xor(body)>>

EncodeV2(f, flag) ==
    LET body == <<flag, f.code % 256, f.code \div 256,
                  Len(f.payload) % 256, Len(f.payload) \div 256>> \o f.payload
    IN  <<Dollar, ProtoX, f.direction>> \o body \o <<CRC8DVBS2(body, 0)>>

----------------------------------------------------------------------------
(* The decoder: process, by state *)

Init == /\ state = "Idle"
        /\ version = 0
        /\ direction = 0
        /\ code = 0
        /\ size = 0
        /\ payload = <<>>
        /\ checksum = 0
        /\ v2Header = <<>>
        /\ frames = {}
        /\ seen = <<>>

\* Mutation: the payload of the last frame is not forgotten.
ResetKeepingPayload == /\ state' = "Idle"
                       /\ version' = 0 /\ direction' = 0 /\ code' = 0 /\ size' = 0
                       /\ checksum' = 0 /\ v2Header' = <<>>
                       /\ UNCHANGED payload

Reset == /\ state' = "Idle"
         /\ version' = 0 /\ direction' = 0 /\ code' = 0 /\ size' = 0
         /\ payload' = <<>> /\ checksum' = 0 /\ v2Header' = <<>>

Goto(s) == state' = s /\ frames' = {}

Idle(b) == /\ state = "Idle"
           /\ Goto(IF b = Dollar THEN "Proto" ELSE "Idle")
           /\ UNCHANGED <<version, direction, code, size, payload, checksum, v2Header>>

Proto(b) == /\ state = "Proto"
            /\ \/ /\ b \in {ProtoM, ProtoX}
                  /\ version' = IF b = ProtoM THEN 1 ELSE 2
                  /\ Goto("Direction")
                  /\ UNCHANGED <<direction, code, size, payload, checksum, v2Header>>
               \/ /\ b \notin {ProtoM, ProtoX}
                  /\ Reset /\ frames' = {}

Direction(b) == /\ state = "Direction"
                /\ \/ /\ b \in Directions
                      /\ direction' = b
                      /\ Goto(IF version = 1 THEN "V1Len" ELSE "V2Flag")
                      /\ UNCHANGED <<version, code, size, payload, checksum, v2Header>>
                   \/ /\ b \notin Directions
                      /\ Reset /\ frames' = {}

V1Len(b) == /\ state = "V1Len"
            /\ size' = b
            /\ checksum' = b
            /\ Goto("V1Code")
            /\ UNCHANGED <<version, direction, code, payload, v2Header>>

V1Code(b) == /\ state = "V1Code"
             /\ code' = b
             /\ checksum' = xor[checksum][b]
             /\ Goto(IF size = 0 THEN "V1Checksum" ELSE "V1Payload")
             /\ UNCHANGED <<version, direction, size, payload, v2Header>>

\* Mutation: the last byte of a payload is taken for the next to last.
PayloadOneMore(b) ==
    /\ state \in {"V1Payload", "V2Payload"}
    /\ payload' = Append(payload, b)
    /\ checksum' = IF state = "V1Payload" THEN xor[checksum][b] ELSE checksum
    /\ Goto(IF Len(payload) < size THEN state
            ELSE IF state = "V1Payload" THEN "V1Checksum" ELSE "V2Checksum")
    /\ UNCHANGED <<version, direction, code, size, v2Header>>

\* Mutation: a payload ends only when a byte is beyond it.
PayloadEndless(b) ==
    /\ state \in {"V1Payload", "V2Payload"}
    /\ payload' = IF Len(payload) < size THEN Append(payload, b) ELSE payload
    /\ checksum' = IF state = "V1Payload" THEN xor[checksum][b] ELSE checksum
    /\ Goto(state)
    /\ UNCHANGED <<version, direction, code, size, v2Header>>

Payload(b) ==
    /\ state \in {"V1Payload", "V2Payload"}
    /\ payload' = Append(payload, b)
    /\ checksum' = IF state = "V1Payload" THEN xor[checksum][b] ELSE checksum
    /\ Goto(IF Len(payload) + 1 < size THEN state
            ELSE IF state = "V1Payload" THEN "V1Checksum" ELSE "V2Checksum")
    /\ UNCHANGED <<version, direction, code, size, v2Header>>

V2Flag(b) == /\ state = "V2Flag"
             /\ v2Header' = <<b>>
             /\ Goto("V2CodeLo")
             /\ UNCHANGED <<version, direction, code, size, payload, checksum>>

V2Code(b) == /\ state \in {"V2CodeLo", "V2CodeHi"}
             /\ code' = IF state = "V2CodeLo" THEN b ELSE code + 256 * b
             /\ v2Header' = Append(v2Header, b)
             /\ Goto(IF state = "V2CodeLo" THEN "V2CodeHi" ELSE "V2LenLo")
             /\ UNCHANGED <<version, direction, size, payload, checksum>>

V2LenLo(b) == /\ state = "V2LenLo"
              /\ size' = b
              /\ v2Header' = Append(v2Header, b)
              /\ Goto("V2LenHi")
              /\ UNCHANGED <<version, direction, code, payload, checksum>>

V2LenHi(b) == /\ state = "V2LenHi"
              /\ size' = size + 256 * b
              /\ v2Header' = Append(v2Header, b)
              /\ Goto(IF size' = 0 THEN "V2Checksum" ELSE "V2Payload")
              /\ UNCHANGED <<version, direction, code, payload, checksum>>

\* The checksum expected next.
Expected == IF version = 1 THEN checksum
            ELSE CRC8DVBS2(payload, CRC8DVBS2(v2Header, 0))

Checksum(b) ==
    /\ state \in {"V1Checksum", "V2Checksum"}
    /\ frames' = IF b = Expected
                 THEN {[version |-> version, direction |-> direction,
                        code |-> code, payload |-> payload]}
                 ELSE {}
    /\ Reset

process(b) == \/ Idle(b) \/ Proto(b) \/ Direction(b)
              \/ V1Len(b) \/ V1Code(b)
              \/ V2Flag(b) \/ V2Code(b) \/ V2LenLo(b) \/ V2LenHi(b)
              \/ Payload(b) \/ Checksum(b)

\* The bytes that may come: samples, the right checksum, sizes within the bound.
Offered == CASE state \in {"V1Checksum", "V2Checksum"} -> Samples \cup {Expected}
             [] state \in {"V1Payload", "V2Payload"} ->
                   {b \in Filler : size <= Short \/ \A c \in Filler : c <= b}
             [] state \in {"V1Code", "V2Flag", "V2CodeLo", "V2CodeHi"} -> Fields
             [] state \in {"V1Len", "V2LenLo"} -> {b \in Samples : b <= MaxSize}
             [] state = "V2LenHi" -> {b \in Samples : size + 256 * b <= MaxSize}
             [] OTHER -> Samples

Feed == \E b \in Offered :
           /\ process(b)
           /\ seen' = IF state = "Idle" THEN <<b>> ELSE Append(seen, b)

Next == Feed

Spec == Init /\ [][Next]_vars

----------------------------------------------------------------------------
(* Properties *)

DecoderStates == {"Idle", "Proto", "Direction", "V1Len", "V1Code", "V1Payload", "V1Checksum",
                  "V2Flag", "V2CodeLo", "V2CodeHi", "V2LenLo", "V2LenHi", "V2Payload",
                  "V2Checksum"}

\* The types; a payload never outgrows the buffer made for it, so that no write
\* into d.payload is out of range.
TypeOK ==
    /\ state \in DecoderStates
    /\ version \in 0..2
    /\ direction \in Directions \cup {0}
    /\ code \in Words
    /\ size \in 0..MaxSize
    /\ payload \in Seq(Bytes)
    /\ Len(payload) <= size
    /\ state \in {"V1Payload", "V2Payload"} => Len(payload) < size
    /\ checksum \in Bytes
    /\ v2Header \in Seq(Bytes) /\ Len(v2Header) <= 5
    /\ Cardinality(frames) <= 1

\* What the bytes of a frame say, if they are one.
FieldsV1(bytes) == [version |-> 1, direction |-> bytes[3], code |-> bytes[5],
                    payload |-> SubSeq(bytes, 6, Len(bytes) - 1)]
FieldsV2(bytes) == [version |-> 2, direction |-> bytes[3],
                    code |-> bytes[5] + 256 * bytes[6],
                    payload |-> SubSeq(bytes, 9, Len(bytes) - 1)]

\* They are one when they are what the encoder makes of that frame.
IsV1(bytes) == /\ Len(bytes) > 5 /\ bytes[2] = ProtoM /\ bytes[3] \in Directions
               /\ EncodeV1(FieldsV1(bytes)) = bytes
IsV2(bytes) == /\ Len(bytes) > 8 /\ bytes[2] = ProtoX /\ bytes[3] \in Directions
               /\ EncodeV2(FieldsV2(bytes), bytes[4]) = bytes

FrameOf(bytes) == IF IsV1(bytes) THEN {FieldsV1(bytes)}
                  ELSE IF IsV2(bytes) THEN {FieldsV2(bytes)}
                  ELSE {}

\* Whatever came before, a frame is reported at the byte with which the bytes of
\* the attempt become what the encoder makes of that frame, and at no other: none
\* is missed, held back, or made up of the leftovers of earlier ones.
DecodesWhatIsEncoded == seen # <<>> => frames = FrameOf(seen)

\* Garbage, a broken frame or a damaged length never holds the decoder for longer
\* than a header and the bytes that were announced: it is idle again then, and
\* ready for the next frame.
AttemptIsBounded == state # "Idle" => Len(seen) <= 8 + size
=============================================================================
