----------------------------- MODULE FlashRead -----------------------------
(***************************************************************************)
(* Step 6 of a sync: Orchestrator.readFlash, the MSP client it reads       *)
(* through (Client.Receive, ReceiveFlashReadResponse, SendFlashRead-       *)
(* Request), the serial line and the flight controller at its other end.   *)
(*                                                                         *)
(* The reader keeps one request ahead of the data it is writing.  Nothing  *)
(* in a reply says which request it answers except the address it carries, *)
(* so a reply that outlives the timeout of its request meets the reader    *)
(* later, as an answer to another request.                                 *)
(*                                                                         *)
(* Bytes are numbered by their flash address, so the copy is faithful when *)
(* its i-th byte is i - 1.  Frames that fail their checksum and the error  *)
(* replies ('!') the client ignores are both "noise": bytes that wake up   *)
(* port.Read and complete no frame the client looks at.                    *)
(***************************************************************************)
EXTENDS Integers, Sequences

CONSTANTS UsedSize,     \* bytes in use on the flash, from the step 3 summary
          ChunkSize,    \* cfg.FlashChunkSize
          Word,         \* 2^16: the width `remaining` is truncated to
          MaxErrors,    \* maxConsecutiveErrors
          MaxLate,      \* bound: timeouts that fire while an answer is under way
          Worlds        \* the sets of faults a read may have to face

\* "wakeup": port.Read returns although no byte arrived.
FaultKinds == {"lost", "noise", "malformed", "empty", "unplug", "wakeup",
               "write", "close", "slow", "panic"}

ASSUME FlashReadAssumption ==
    /\ UsedSize \in Nat \ {0}      \* queryFlashState returns early on 0
    /\ Word \in Nat \ {0}
    /\ ChunkSize \in 0..(Word - 1)
    /\ MaxErrors \in Nat \ {0}
    /\ MaxLate \in Nat
    /\ Worlds \subseteq SUBSET FaultKinds

VARIABLES pc,        \* where readFlash is
          address,   \* next flash address to copy
          errors,    \* consecutiveErrors
          out,       \* bytes handed to the StreamWriter (hashed and counted)
          file,      \* the output file: open, closed, partial or removed
          toFC,      \* read requests on their way to the FC
          fromFC,    \* replies the client has not consumed
          plugged,   \* is the device there?
          expired,   \* has syncDeadline passed?
          faults,    \* the faults that may occur
          late       \* history: timeouts that fired with an answer under way

host == <<pc, address, errors, out, file>>
line == <<toFC, fromFC>>
env  == <<plugged, expired, faults>>
vars == <<host, line, env, late>>

----------------------------------------------------------------------------
(* Requests and replies *)

\* `if remaining := usedSize - a; uint16(remaining) < chunk`: the comparison
\* and the size sent see the remaining bytes modulo 2^16.
RequestSize(a) ==
    LET remaining == (UsedSize - a) % Word
    IN  IF remaining < ChunkSize THEN remaining ELSE ChunkSize

Request(a) == [addr |-> a, size |-> RequestSize(a)]

\* port.Write of a request: its error is ignored by every caller but the first.
SendTo(chan, a) == IF plugged THEN Append(chan, Request(a)) ELSE chan

\* Replies left after the client consumed the first n.
After(n) == SubSeq(fromFC, n + 1, Len(fromFC))

InFlight == Len(toFC) + Len(fromFC)

FlashBytes(a, n) == [i \in 1..n |-> a + i - 1]

----------------------------------------------------------------------------
(* The reader *)

Init == /\ pc = "start"
        /\ address = 0
        /\ errors = 0
        /\ out = <<>>
        /\ file = "open"
        /\ toFC = <<>>
        /\ fromFC = <<>>
        /\ plugged = TRUE
        /\ expired = FALSE
        /\ faults \in Worlds
        /\ late = 0

\* writer.Abort, the LED and the status message, `return &ResultError`.
Abort == /\ pc' = "failed"
         /\ file' = "removed"

\* Mutation: the pipeline is primed with two requests.
SendFirstTwo ==
    /\ pc = "start"
    /\ pc' = "loop"
    /\ toFC' = <<Request(0), Request(RequestSize(0))>>
    /\ UNCHANGED <<file, address, errors, out, fromFC, env, late>>

\* The first request primes the pipeline; here a failed write ends the read.
SendFirst ==
    /\ pc = "start"
    /\ IF plugged
       THEN /\ pc' = "loop"
            /\ toFC' = Append(toFC, Request(0))
            /\ UNCHANGED file
       ELSE Abort /\ UNCHANGED toFC
    /\ UNCHANGED <<address, errors, out, fromFC, env, late>>

\* Mutation: the loop ends when less than a chunk is left.
LoopHeadStopsEarly ==
    /\ pc = "loop"
    /\ IF address + ChunkSize > UsedSize
       THEN pc' = "close" /\ UNCHANGED file
       ELSE IF expired THEN Abort ELSE pc' = "receive" /\ UNCHANGED file
    /\ UNCHANGED <<address, errors, out, line, env, late>>

\* `for address < usedSize` and the deadline check at the head of its body.
LoopHead ==
    /\ pc = "loop"
    /\ \/ /\ address >= UsedSize
          /\ pc' = "close"
          /\ UNCHANGED file
       \/ /\ address < UsedSize
          /\ expired
          /\ Abort
       \/ /\ address < UsedSize
          /\ ~expired
          /\ pc' = "receive"
          /\ UNCHANGED file
    /\ UNCHANGED <<address, errors, out, line, env, late>>

\* Mutation: errors are not counted.
RetryUncounted(rest) ==
    /\ fromFC' = rest
    /\ pc' = "loop"
    /\ toFC' = SendTo(toFC, address)
    /\ UNCHANGED <<errors, file, address, out, env>>

\* An error or a wrong address: count it, give up at the limit, else ask for
\* the same address again.  `rest` is what is left of fromFC.
Retry(rest) ==
    /\ errors' = errors + 1
    /\ fromFC' = rest
    /\ IF errors + 1 >= MaxErrors
       THEN Abort /\ UNCHANGED toFC
       ELSE /\ pc' = "loop"
            /\ toFC' = SendTo(toFC, address)
            /\ UNCHANGED file
    /\ UNCHANGED <<address, out, env>>

\* One port.Read may hand the decoder several replies.  They share one slot of
\* `pending`, so the last one is the one Receive returns: reply n, with the
\* replies before it overwritten.
Returned(n) == /\ pc = "receive"
               /\ plugged
               /\ fromFC[n].kind # "noise"

\* payload too short, or data that does not decode
Malformed(n) == /\ Returned(n)
                /\ fromFC[n].kind = "malformed"
                /\ Retry(After(n))
                /\ UNCHANGED late

AddressMismatch(n) == /\ Returned(n)
                      /\ fromFC[n].kind = "data"
                      /\ fromFC[n].addr # address
                      /\ Retry(After(n))
                      /\ UNCHANGED late

\* "FC returned 0 bytes": leave the loop, whatever is still missing.
EndOfData(n) == /\ Returned(n)
                /\ fromFC[n].kind = "data"
                /\ fromFC[n].addr = address
                /\ fromFC[n].len = 0
                /\ pc' = "close"
                /\ fromFC' = After(n)
                /\ UNCHANGED <<address, errors, out, file, toFC, env, late>>

\* Mutation: the address of a reply is not compared.
AcceptAnyAddress(n) ==
    /\ Returned(n)
    /\ fromFC[n].kind = "data"
    /\ fromFC[n].len > 0
    /\ LET next == address + fromFC[n].len
       IN  /\ toFC' = IF next < UsedSize THEN SendTo(toFC, next) ELSE toFC
           /\ out' = out \o FlashBytes(fromFC[n].addr, fromFC[n].len)
           /\ address' = next
    /\ pc' = "loop"
    /\ errors' = 0
    /\ fromFC' = After(n)
    /\ UNCHANGED <<file, env, late>>

\* Mutation: the next address is a chunk further, however short the reply was.
AcceptWholeChunk(n) ==
    /\ Returned(n)
    /\ fromFC[n].kind = "data"
    /\ fromFC[n].addr = address
    /\ fromFC[n].len > 0
    /\ LET next == IF address + ChunkSize < UsedSize THEN address + ChunkSize ELSE UsedSize
       IN  /\ toFC' = IF next < UsedSize THEN SendTo(toFC, next) ELSE toFC
           /\ out' = out \o FlashBytes(fromFC[n].addr, fromFC[n].len)
           /\ address' = next
    /\ pc' = "loop"
    /\ errors' = 0
    /\ fromFC' = After(n)
    /\ UNCHANGED <<file, env, late>>

\* Mutation: good data does not reset the error counter.
AcceptKeepsErrors(n) ==
    /\ Returned(n)
    /\ fromFC[n].kind = "data"
    /\ fromFC[n].addr = address
    /\ fromFC[n].len > 0
    /\ LET next == address + fromFC[n].len
       IN  /\ toFC' = IF next < UsedSize THEN SendTo(toFC, next) ELSE toFC
           /\ out' = out \o FlashBytes(fromFC[n].addr, fromFC[n].len)
           /\ address' = next
    /\ pc' = "loop"
    /\ fromFC' = After(n)
    /\ UNCHANGED <<errors, file, env, late>>

\* The expected data: request the next piece first, then write this one.
Accept(n) ==
    /\ Returned(n)
    /\ fromFC[n].kind = "data"
    /\ fromFC[n].addr = address
    /\ fromFC[n].len > 0
    /\ LET next == address + fromFC[n].len
       IN  /\ toFC' = IF next < UsedSize THEN SendTo(toFC, next) ELSE toFC
           /\ \/ /\ out' = out \o FlashBytes(fromFC[n].addr, fromFC[n].len)
                 /\ address' = next
                 /\ pc' = "loop"
                 /\ UNCHANGED file
              \/ /\ "write" \in faults
                 /\ Abort
                 /\ UNCHANGED <<address, out>>
    /\ errors' = 0
    /\ fromFC' = After(n)
    /\ UNCHANGED <<env, late>>

\* Bytes arrived that complete no frame: Receive reads on.
ReadNoise == /\ pc = "receive"
             /\ fromFC # <<>>
             /\ fromFC[1].kind = "noise"
             /\ fromFC' = Tail(fromFC)
             /\ UNCHANGED <<host, toFC, env, late>>

\* The deadline of Receive is looked at between two calls of port.Read.  A Read
\* that cannot time out returns only when bytes arrive: n replies of noise, or
\* the first bytes of a reply whose rest comes later.
Timeout(n) ==
    /\ pc = "receive"
    /\ plugged
    /\ \A i \in 1..n : fromFC[i].kind = "noise"
    /\ "wakeup" \in faults \/ fromFC # <<>>
    /\ IF InFlight = n
       THEN UNCHANGED late
       ELSE late < MaxLate /\ late' = late + 1
    /\ Retry(After(n))

\* port.Read fails once the device is gone.
ReadError == /\ pc = "receive"
             /\ ~plugged
             /\ Retry(fromFC)
             /\ UNCHANGED late

\* writer.Close: flush, fsync, close.  A failure leaves the file where it is.
Close == /\ pc = "close"
         /\ \/ /\ pc' = "handed"
               /\ file' = "closed"
            \/ /\ "close" \in faults
               /\ pc' = "failed"
               /\ file' = "partial"
         /\ UNCHANGED <<address, errors, out, line, env, late>>

\* The deferred recover aborts the writer and lets readFlash return nil.
Panic == /\ "panic" \in faults
         /\ pc \in {"loop", "receive"}
         /\ pc' = "handed"
         /\ file' = "removed"
         /\ UNCHANGED <<address, errors, out, line, env, late>>

----------------------------------------------------------------------------
(* The flight controller, the line and the clock *)

\* The FC answers requests in order, with no more bytes than asked for.
Answer ==
    /\ toFC # <<>>
    /\ plugged
    /\ toFC' = Tail(toFC)
    /\ LET req == Head(toFC)
           reply(n, kind) == [addr |-> req.addr, len |-> n, kind |-> kind]
       IN  \/ \E n \in 0..req.size :
                 /\ n = 0 => req.size = 0 \/ "empty" \in faults
                 /\ fromFC' = Append(fromFC, reply(n, "data"))
           \/ \E kind \in {"noise", "malformed"} \cap faults :
                 fromFC' = Append(fromFC, reply(0, kind))
           \/ "lost" \in faults /\ UNCHANGED fromFC
    /\ UNCHANGED <<host, env, late>>

Unplug == /\ "unplug" \in faults
          /\ plugged
          /\ plugged' = FALSE
          /\ toFC' = <<>>
          /\ fromFC' = <<>>
          /\ UNCHANGED <<host, expired, faults, late>>

Expire == /\ "slow" \in faults
          /\ ~expired
          /\ expired' = TRUE
          /\ UNCHANGED <<host, line, plugged, faults, late>>

----------------------------------------------------------------------------

Receive == \/ \E n \in 1..Len(fromFC) : \/ Malformed(n)
                                        \/ AddressMismatch(n)
                                        \/ EndOfData(n)
                                        \/ Accept(n)
           \/ \E n \in 0..Len(fromFC) : Timeout(n)
           \/ ReadNoise
           \/ ReadError

\* readFlash has returned.
Returns == pc \in {"handed", "failed"} /\ UNCHANGED vars

Next == \/ SendFirst
        \/ LoopHead
        \/ Receive
        \/ Close
        \/ Panic
        \/ Answer
        \/ Unplug
        \/ Expire
        \/ Returns

\* The Go runtime schedules readFlash whenever it can run, and a connected FC
\* eventually serves its MSP queue.  Faults need not happen.
Fairness == /\ WF_vars(SendFirst \/ LoopHead \/ Receive \/ Close)
            /\ WF_vars(Answer)

Spec == Init /\ [][Next]_vars

FairSpec == Spec /\ Fairness

----------------------------------------------------------------------------
(* Properties *)

\* Everything readable this way lies below UsedSize mod 2^16: see TruncationCap.
Limit == UsedSize % Word

RequestSet == {r \in [addr : 0..Limit, size : 0..Limit] : r.addr + r.size <= Limit}

ReplySet == {r \in [addr : 0..Limit, len : 0..Limit,
                    kind : {"data", "noise", "malformed"}] : r.addr + r.len <= Limit}

\* The types of the variables; requests and replies stay inside the flash.
TypeOK == /\ pc \in {"start", "loop", "receive", "close", "handed", "failed"}
          /\ address \in 0..UsedSize
          /\ errors \in 0..MaxErrors
          /\ out \in Seq(Nat)
          /\ file \in {"open", "closed", "partial", "removed"}
          /\ toFC \in Seq(RequestSet)
          /\ fromFC \in Seq(ReplySet)
          /\ plugged \in BOOLEAN
          /\ expired \in BOOLEAN
          /\ faults \in Worlds
          /\ late \in 0..MaxLate

\* Whatever replies are lost, late, repeated or swallowed by a later one, the
\* bytes handed to the output file are the bytes at flash addresses
\* 0 .. address - 1, each once and in order (readFlash, the address check).
CopyMatchesFlash == out = FlashBytes(0, address)

\* A reply for an address the reader has not reached does not exist: the
\* pipeline asks for the next piece only once the piece before it has arrived.
NoReplyFromTheFuture ==
    pc \in {"loop", "receive"} =>
        /\ \A i \in 1..Len(toFC) : toFC[i].addr <= address
        /\ \A i \in 1..Len(fromFC) : fromFC[i].addr <= address

\* Resending on a mismatch does not multiply traffic: there is one request or
\* reply under way, plus at most one for each timeout that fired too early.
InFlightBounded == InFlight <= 1 + late

\* A late answer costs at most one of the MaxErrors consecutive errors, however
\* many pieces later its echo is met: with no fault but slowness the counter
\* never exceeds the number of late answers, and fewer than MaxErrors of them
\* never fail the copy.
SlownessIsForgiven ==
    faults \cap {"lost", "noise", "malformed", "unplug"} = {} => errors <= late

\* The reads never pass UsedSize mod 2^16: uint16(remaining) shrinks the
\* requests to nothing when a multiple of 64 KiB is left.
TruncationCap == address <= Limit

\* "full blackbox flash copy": unless the FC itself cuts the data short or
\* readFlash panics, what is handed over is the whole flash.
HealthyCopyIsFull ==
    (faults \cap {"empty", "panic"} = {} /\ ChunkSize > 0 /\ pc = "handed")
        => address = UsedSize

\* With no fault but late answers, fewer of them than MaxErrors in all, the
\* whole flash is eventually handed over.
HealthyCopyCompletes ==
    (faults = {} /\ ChunkSize > 0)
        => <>((pc = "handed" /\ address = UsedSize) \/ late >= MaxErrors)

\* readFlash returns, every loop being bounded by the error limit, if every
\* request gets an answer that the client can see or a Read may return without.
Terminates ==
    (faults \cap {"lost", "noise"} = {} \/ "wakeup" \in faults)
        => <>(pc \in {"handed", "failed"})

\* What step 6 promises to step 7.
Copy == INSTANCE FlashCopy
            WITH Size <- UsedSize,
                 copied <- out,
                 status <- CASE pc = "handed" -> "handed"
                             [] pc = "failed" -> "failed"
                             [] OTHER -> "copying"

ImplementsFlashCopy == Copy!CopySpec
=============================================================================
