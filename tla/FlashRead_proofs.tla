-------------------------- MODULE FlashRead_proofs --------------------------
(***************************************************************************)
(* Theorems about FlashRead, for every size of flash, chunk and word, any  *)
(* error limit, any number of late answers and any set of faults.          *)
(***************************************************************************)
EXTENDS FlashRead, SequenceTheorems, TLAPS

----------------------------------------------------------------------------
(* Requests *)

LEMMA RemainderBelow ==
    ASSUME NEW u \in Nat, NEW w \in Nat \ {0}, NEW a \in 0..(u % w)
    PROVE  (u - a) % w = (u % w) - a
OBVIOUS

\* A request made at or below Limit asks for nothing beyond Limit: this is
\* where uint16(remaining) cuts the flash at its last multiple of 2^16.
LEMMA RequestInRange ==
    ASSUME NEW a \in 0..Limit
    PROVE  /\ Limit \in Nat
           /\ Limit <= UsedSize
           /\ Request(a) \in RequestSet
<1>1. Limit \in 0..(Word - 1) /\ Limit <= UsedSize
  BY FlashReadAssumption DEF Limit
<1>2. (UsedSize - a) % Word = Limit - a
  BY RemainderBelow, FlashReadAssumption DEF Limit
<1>3. RequestSize(a) \in 0..(Limit - a)
  BY <1>1, <1>2, FlashReadAssumption DEF RequestSize
<1>. QED
  BY <1>1, <1>3 DEF Request, RequestSet

\* What is left of a sequence of replies is a sequence of replies.
LEMMA RestOfReplies ==
    ASSUME fromFC \in Seq(ReplySet), NEW n \in 0..Len(fromFC)
    PROVE  /\ After(n) \in Seq(ReplySet)
           /\ Len(After(n)) = Len(fromFC) - n
           /\ \A i \in 1..Len(After(n)) : After(n)[i] = fromFC[n + i]
BY DEF After

LEMMA BytesType ==
    ASSUME NEW a \in Nat, NEW n \in Nat
    PROVE  FlashBytes(a, n) \in Seq(Nat) /\ Len(FlashBytes(a, n)) = n
<1>1. \A i \in 1..n : a + i - 1 \in Nat
  OBVIOUS
<1>. QED
  BY <1>1 DEF FlashBytes

LEMMA SendInRange ==
    ASSUME toFC \in Seq(RequestSet), plugged \in BOOLEAN, NEW a \in 0..Limit
    PROVE  /\ SendTo(toFC, a) \in Seq(RequestSet)
           /\ Len(SendTo(toFC, a)) <= Len(toFC) + 1
BY RequestInRange DEF SendTo

----------------------------------------------------------------------------
(* Type correctness, and the invariant it rests on *)

\* The reader stays below Limit, and it still has an error to spend while it
\* is running: this is what bounds errors by MaxErrors.
Bounded == /\ TypeOK
           /\ TruncationCap
           /\ pc \notin {"handed", "failed"} => errors < MaxErrors

LEMMA RetryBounded ==
    ASSUME Bounded, NEW n \in 0..Len(fromFC), Retry(After(n)),
           pc = "receive", late' \in 0..MaxLate
    PROVE  Bounded'
<1>. USE FlashReadAssumption DEF Bounded, TypeOK, TruncationCap
<1>1. After(n) \in Seq(ReplySet)
  BY RestOfReplies
<1>2. address \in 0..Limit /\ SendTo(toFC, address) \in Seq(RequestSet)
  BY SendInRange, RequestInRange DEF Limit
<1>3. Limit' = Limit
  BY DEF Limit
<1>. QED
  BY <1>1, <1>2, <1>3 DEF Retry, Abort, env, RequestSet, ReplySet

LEMMA BoundedInit == Init => Bounded
<1>1. Limit \in Nat
  BY FlashReadAssumption DEF Limit
<1>2. <<>> \in Seq(Nat) /\ <<>> \in Seq(RequestSet) /\ <<>> \in Seq(ReplySet)
  OBVIOUS
<1>3. Init => toFC \in Seq(RequestSet) /\ fromFC \in Seq(ReplySet) /\ out \in Seq(Nat)
  BY <1>2 DEF Init
<1>4. /\ UsedSize \in Nat /\ MaxErrors \in Nat \ {0} /\ MaxLate \in Nat
  BY FlashReadAssumption
<1>5. Init => plugged \in BOOLEAN /\ expired \in BOOLEAN
  BY DEF Init
<1>. QED
  BY <1>1, <1>3, <1>4, <1>5 DEF Init, Bounded, TypeOK, TruncationCap

LEMMA BoundedStep == Bounded /\ [Next]_vars => Bounded'
<1>. SUFFICES ASSUME Bounded, [Next]_vars PROVE Bounded'
  OBVIOUS
<1>. USE DEF Bounded, TypeOK, TruncationCap, env, line, host
<1>l. /\ Limit' = Limit /\ Limit \in Nat /\ Limit <= UsedSize
      /\ UsedSize \in Nat /\ MaxErrors \in Nat \ {0} /\ MaxLate \in Nat
  BY RequestInRange, FlashReadAssumption DEF Limit
<1>r. ReplySet' = ReplySet /\ RequestSet' = RequestSet
  BY <1>l DEF ReplySet, RequestSet
<1>1. CASE SendFirst
  <2>1. Append(toFC, Request(0)) \in Seq(RequestSet)
    BY <1>l, RequestInRange
  <2>. QED
    BY <1>1, <1>l, <1>r, <2>1 DEF SendFirst, Abort
<1>2. CASE LoopHead
  BY <1>2, <1>l, <1>r DEF LoopHead, Abort
<1>3. ASSUME NEW n \in 1..Len(fromFC), Malformed(n) PROVE Bounded'
  BY <1>3, RetryBounded DEF Malformed, Returned
<1>4. ASSUME NEW n \in 1..Len(fromFC), AddressMismatch(n) PROVE Bounded'
  BY <1>4, RetryBounded DEF AddressMismatch, Returned
<1>5. ASSUME NEW n \in 1..Len(fromFC), EndOfData(n) PROVE Bounded'
  BY <1>5, <1>l, <1>r, RestOfReplies DEF EndOfData, Returned
<1>6. ASSUME NEW n \in 1..Len(fromFC), Accept(n) PROVE Bounded'
  <2>. DEFINE r == fromFC[n]
              next == address + r.len
  <2>1. r \in ReplySet /\ r.addr = address /\ r.len > 0
    BY <1>6 DEF Accept
  <2>2. /\ r.addr \in 0..Limit
        /\ r.len \in 0..Limit
        /\ r.addr + r.len <= Limit
    BY <2>1 DEF ReplySet
  <2>7. next \in 0..Limit /\ next \in 0..UsedSize
    <3>. HIDE DEF r
    <3>. QED  BY <2>1, <2>2, <1>l
  <2>3. toFC' \in Seq(RequestSet)
    BY <1>6, <2>7, SendInRange DEF Accept
  <2>4. After(n) \in Seq(ReplySet)
    <3>1. fromFC \in Seq(ReplySet) /\ n \in 0..Len(fromFC)
      OBVIOUS
    <3>. QED  BY ONLY <3>1, RestOfReplies
  <2>5. FlashBytes(r.addr, r.len) \in Seq(Nat)
    <3>. HIDE DEF r
    <3>1. r.addr \in Nat /\ r.len \in Nat
      BY <2>2, <1>l
    <3>. QED  BY ONLY <3>1, BytesType
  <2>6. out \o FlashBytes(r.addr, r.len) \in Seq(Nat)
    BY <2>5
  <2>8. /\ address' \in {address, next}
        /\ out' \in {out, out \o FlashBytes(r.addr, r.len)}
        /\ pc' \in {"loop", "failed"}
        /\ file' \in {file, "removed"}
        /\ errors' = 0
        /\ fromFC' = After(n)
        /\ plugged' = plugged /\ expired' = expired /\ late' = late
        /\ faults' = faults
    BY <1>6 DEF Accept, Abort
  <2>. QED
    <3>. HIDE DEF r, next
    <3>1. address' \in 0..Limit /\ address' \in 0..UsedSize
      BY <1>l, <2>7, <2>8
    <3>2. out' \in Seq(Nat)
      BY <2>6, <2>8
    <3>. QED  BY <1>l, <1>r, <2>3, <2>4, <2>8, <3>1, <3>2
<1>7. ASSUME NEW n \in 0..Len(fromFC), Timeout(n) PROVE Bounded'
  <2>1. pc = "receive" /\ Retry(After(n)) /\ late' \in {late, late + 1}
    BY <1>7 DEF Timeout
  <2>2. late' \in 0..MaxLate
    BY <1>7, <1>l DEF Timeout
  <2>. QED
    <3>. HIDE DEF Bounded
    <3>. QED  BY <2>1, <2>2, RetryBounded
<1>8. CASE ReadNoise
  BY <1>8, <1>l, <1>r DEF ReadNoise
<1>9. CASE ReadError
  <2>1. fromFC = After(0)
    BY DEF After
  <2>. QED
    BY <1>9, <2>1, RetryBounded DEF ReadError
<1>10. CASE Close
  BY <1>10, <1>l, <1>r DEF Close
<1>11. CASE Panic
  BY <1>11, <1>l, <1>r DEF Panic
<1>12. CASE Answer
  <2>1. Head(toFC) \in RequestSet /\ Tail(toFC) \in Seq(RequestSet)
    BY <1>12 DEF Answer
  <2>3. ASSUME NEW k \in {"data", "noise", "malformed"},
               NEW m \in 0..Head(toFC).size
        PROVE  [addr |-> Head(toFC).addr, len |-> m, kind |-> k] \in ReplySet
    BY <2>1, <1>l DEF RequestSet, ReplySet
  <2>2. fromFC' \in Seq(ReplySet)
    <3>1. 0 \in 0..Head(toFC).size
      BY <2>1, <1>l DEF RequestSet
    <3>2. CASE \E m \in 0..Head(toFC).size :
                  fromFC' = Append(fromFC, [addr |-> Head(toFC).addr,
                                            len |-> m, kind |-> "data"])
      BY <2>3, <3>2
    <3>3. CASE \E k \in {"noise", "malformed"} :
                  fromFC' = Append(fromFC, [addr |-> Head(toFC).addr,
                                            len |-> 0, kind |-> k])
      BY <2>3, <3>1, <3>3
    <3>. QED  BY <1>12, <3>2, <3>3 DEF Answer
  <2>. QED
    BY <1>12, <1>l, <1>r, <2>1, <2>2 DEF Answer
<1>13. CASE Unplug
  <2>1. <<>> \in Seq(RequestSet) /\ <<>> \in Seq(ReplySet)
    OBVIOUS
  <2>. QED
    BY <1>13, <1>l, <1>r, <2>1 DEF Unplug
<1>14. CASE Expire
  BY <1>14, <1>l, <1>r DEF Expire
<1>15. CASE UNCHANGED vars
  BY <1>15, <1>l, <1>r DEF vars
<1>. QED
  BY <1>1, <1>2, <1>3, <1>4, <1>5, <1>6, <1>7, <1>8, <1>9, <1>10, <1>11, <1>12,
     <1>13, <1>14, <1>15 DEF Next, Receive, Returns

\* Types: requests and replies stay inside the flash, the error counter inside
\* its limit.
THEOREM TypeCorrect == Spec => []TypeOK
<1>1. Bounded => TypeOK
  BY DEF Bounded
<1>. QED
  BY <1>1, BoundedInit, BoundedStep, PTL DEF Spec

\* No more than UsedSize mod 2^16 bytes are ever copied: a flash that holds
\* 64 KiB or more is never copied whole (orchestrator.go:469, 508, 527, 545).
THEOREM CopyIsTruncated == Spec => []TruncationCap
<1>1. Bounded => TruncationCap
  BY DEF Bounded
<1>. QED
  BY <1>1, BoundedInit, BoundedStep, PTL DEF Spec

----------------------------------------------------------------------------
(* The copy is faithful *)

\* Two adjacent pieces of flash, one after the other, are a piece of flash.
LEMMA BytesConcat ==
    ASSUME NEW a \in Nat, NEW n \in Nat
    PROVE  FlashBytes(0, a) \o FlashBytes(a, n) = FlashBytes(0, a + n)
<1>. DEFINE l == FlashBytes(0, a)
            r == FlashBytes(a, n)
            t == FlashBytes(0, a + n)
<1>1. /\ l \in Seq(Nat) /\ Len(l) = a
      /\ r \in Seq(Nat) /\ Len(r) = n
      /\ t \in Seq(Nat) /\ Len(t) = a + n
  BY BytesType
<1>2. /\ \A i \in 1..a : l[i] = i - 1
      /\ \A i \in 1..n : r[i] = a + i - 1
      /\ \A i \in 1..(a + n) : t[i] = i - 1
  BY DEF FlashBytes
<1>. HIDE DEF l, r, t
<1>3. l \o r \in Seq(Nat) /\ Len(l \o r) = Len(t)
  BY <1>1, ConcatProperties
<1>4. ASSUME NEW i \in 1..Len(t) PROVE (l \o r)[i] = t[i]
  BY <1>1, <1>2
<1>5. l \o r = t
  BY <1>1, <1>3, <1>4, SeqEqual
<1>. QED
  BY <1>5 DEF l, r, t

\* Only an accepted reply changes what has been written, and how far the
\* reader is.
LEMMA OnlyAcceptWrites ==
    ASSUME [Next]_vars
    PROVE  \/ out' = out /\ address' = address
           \/ \E n \in 1..Len(fromFC) :
                 /\ Accept(n)
                 /\ out' = out \o FlashBytes(address, fromFC[n].len)
                 /\ address' = address + fromFC[n].len
                 /\ pc' = "loop"
<1>1. ASSUME NEW n \in 1..Len(fromFC), Accept(n)
      PROVE  \/ out' = out /\ address' = address
             \/ /\ out' = out \o FlashBytes(address, fromFC[n].len)
                /\ address' = address + fromFC[n].len
                /\ pc' = "loop"
  BY <1>1 DEF Accept
<1>. QED
  BY <1>1 DEF Next, Receive, SendFirst, LoopHead, Malformed, AddressMismatch,
              EndOfData, Timeout, ReadNoise, ReadError, Retry, Close, Panic,
              Answer, Unplug, Expire, Returns, host, line, env, vars

LEMMA FaithfulStep ==
    Bounded /\ CopyMatchesFlash /\ [Next]_vars => CopyMatchesFlash'
<1>. SUFFICES ASSUME Bounded, CopyMatchesFlash, [Next]_vars
              PROVE  CopyMatchesFlash'
  OBVIOUS
<1>1. CASE out' = out /\ address' = address
  BY <1>1 DEF CopyMatchesFlash, FlashBytes
<1>2. ASSUME NEW n \in 1..Len(fromFC),
             out' = out \o FlashBytes(address, fromFC[n].len),
             address' = address + fromFC[n].len
      PROVE  CopyMatchesFlash'
  <2>1. address \in Nat /\ fromFC[n].len \in Nat
    <3>1. address \in Nat /\ fromFC[n] \in ReplySet /\ Limit \in Nat
      BY RequestInRange, FlashReadAssumption
         DEF Bounded, TypeOK, TruncationCap, Limit
    <3>. QED
      BY <3>1 DEF ReplySet
  <2>2. out' = FlashBytes(0, address')
    BY <1>2, <2>1, BytesConcat DEF CopyMatchesFlash
  <2>. QED
    BY <2>2 DEF CopyMatchesFlash, FlashBytes
<1>. QED
  BY <1>1, <1>2, OnlyAcceptWrites

LEMMA FaithfulInit == Init => CopyMatchesFlash
BY DEF Init, CopyMatchesFlash, FlashBytes

\* Lost, late, repeated and overwritten replies never put a byte into the copy
\* that is not the flash byte of that place, and never leave one out.
THEOREM CopyIsFaithful == Spec => []CopyMatchesFlash
BY BoundedInit, BoundedStep, FaithfulInit, FaithfulStep, PTL DEF Spec

----------------------------------------------------------------------------
(* The traffic on the line *)

\* The pipeline is empty until the first request, and from then on it holds
\* one message plus what late answers added to it.
Pipelined == /\ InFlightBounded
             /\ pc = "start" => toFC = <<>> /\ fromFC = <<>>

LEMMA RetryPipelined ==
    ASSUME Bounded, Pipelined, NEW n \in 0..Len(fromFC), Retry(After(n)),
           late' \in Nat, late <= late', InFlight - n + 1 <= 1 + late'
    PROVE  Pipelined'
<1>1. /\ toFC \in Seq(RequestSet) /\ fromFC \in Seq(ReplySet)
      /\ plugged \in BOOLEAN /\ address \in 0..Limit /\ late \in Nat
  BY RequestInRange, FlashReadAssumption
     DEF Bounded, TypeOK, TruncationCap, Limit
<1>2. Len(After(n)) = Len(fromFC) - n /\ After(n) \in Seq(ReplySet)
  BY <1>1, RestOfReplies
<1>3. /\ SendTo(toFC, address) \in Seq(RequestSet)
      /\ Len(SendTo(toFC, address)) <= Len(toFC) + 1
  BY <1>1, SendInRange
<1>4. /\ fromFC' = After(n)
      /\ toFC' \in {toFC, SendTo(toFC, address)}
      /\ pc' \in {"loop", "failed"}
  BY DEF Retry, Abort
<1>5. Len(toFC') + Len(fromFC') <= InFlight - n + 1
  BY <1>1, <1>2, <1>3, <1>4 DEF InFlight
<1>6. InFlight' <= 1 + late'
  BY <1>1, <1>2, <1>3, <1>4, <1>5 DEF InFlight
<1>. QED
  BY <1>4, <1>6 DEF Pipelined, InFlightBounded

LEMMA PipelinedInit == Init => Pipelined
BY DEF Init, Pipelined, InFlightBounded, InFlight

LEMMA PipelinedStep ==
    Bounded /\ Pipelined /\ [Next]_vars => Pipelined'
<1>. SUFFICES ASSUME Bounded, Pipelined, [Next]_vars PROVE Pipelined'
  OBVIOUS
<1>1. /\ toFC \in Seq(RequestSet) /\ fromFC \in Seq(ReplySet)
      /\ plugged \in BOOLEAN /\ address \in 0..Limit /\ late \in 0..MaxLate
      /\ Limit \in Nat /\ MaxLate \in Nat
  BY RequestInRange, FlashReadAssumption
     DEF Bounded, TypeOK, TruncationCap, Limit
<1>2. InFlight \in Nat /\ InFlight = Len(toFC) + Len(fromFC) /\ InFlight <= 1 + late
  BY <1>1 DEF InFlight, Pipelined, InFlightBounded
<1>3. CASE SendFirst
  <2>1. InFlight = 0 /\ fromFC' = fromFC /\ late' = late /\ pc' # "start"
    BY <1>3, <1>2 DEF SendFirst, Pipelined, Abort
  <2>2. Request(0) \in RequestSet
    BY <1>1, RequestInRange
  <2>4. toFC' \in {toFC, Append(toFC, Request(0))}
    BY <1>3 DEF SendFirst
  <2>3. Len(toFC') <= Len(toFC) + 1 /\ toFC' \in Seq(RequestSet)
    BY <1>1, <2>2, <2>4
  <2>. QED
    BY <1>1, <1>2, <2>1, <2>3 DEF Pipelined, InFlightBounded, InFlight
<1>4. ASSUME NEW n \in 1..Len(fromFC), Malformed(n) \/ AddressMismatch(n)
      PROVE  Pipelined'
  BY <1>1, <1>2, <1>4, RetryPipelined DEF Malformed, AddressMismatch
<1>5. ASSUME NEW n \in 1..Len(fromFC), EndOfData(n) PROVE Pipelined'
  BY <1>1, <1>2, <1>5, RestOfReplies
     DEF EndOfData, Pipelined, InFlightBounded, InFlight, env
<1>6. ASSUME NEW n \in 1..Len(fromFC), Accept(n) PROVE Pipelined'
  <2>. DEFINE next == address + fromFC[n].len
  <2>1. /\ fromFC' = After(n) /\ pc' \in {"loop", "failed"} /\ late' = late
        /\ toFC' \in {toFC, SendTo(toFC, next)}
    BY <1>6 DEF Accept, Abort
  <2>2. next \in 0..Limit
    <3>1. /\ fromFC[n] \in ReplySet /\ fromFC[n].addr = address
      BY <1>1, <1>6 DEF Accept
    <3>. QED
      BY <1>1, <3>1 DEF ReplySet
  <2>3. SendTo(toFC, next) \in Seq(RequestSet) /\ Len(SendTo(toFC, next)) <= Len(toFC) + 1
    BY <1>1, <2>2, SendInRange
  <2>4. Len(After(n)) = Len(fromFC) - n /\ After(n) \in Seq(ReplySet)
    BY <1>1, RestOfReplies
  <2>. QED
    <3>. HIDE DEF next
    <3>. QED
      BY <1>1, <1>2, <2>1, <2>3, <2>4 DEF Pipelined, InFlightBounded, InFlight
<1>7. ASSUME NEW n \in 0..Len(fromFC), Timeout(n) PROVE Pipelined'
  <2>1. /\ late' \in Nat /\ late <= late'
        /\ InFlight - n + 1 <= 1 + late'
    BY <1>1, <1>2, <1>7 DEF Timeout
  <2>. QED
    BY <1>7, <2>1, RetryPipelined DEF Timeout
<1>8. CASE ReadNoise
  BY <1>1, <1>2, <1>8 DEF ReadNoise, Pipelined, InFlightBounded, InFlight, host, env
<1>9. CASE ReadError
  <2>1. fromFC = After(0)
    BY <1>1 DEF After
  <2>2. pc' \in {"loop", "failed"} /\ toFC' = toFC /\ fromFC' = fromFC /\ late' = late
    BY <1>9 DEF ReadError, Retry, Abort, SendTo
  <2>. QED
    BY <1>2, <2>2 DEF Pipelined, InFlightBounded, InFlight
<1>10. CASE Answer
  <2>1. /\ toFC # <<>> /\ toFC' = Tail(toFC) /\ late' = late /\ pc' = pc
        /\ pc # "start"
    BY <1>10 DEF Answer, host, env, Pipelined
  <2>3. \/ fromFC' = fromFC
        \/ \E r : fromFC' = Append(fromFC, r)
    BY <1>10 DEF Answer
  <2>4. Len(fromFC') <= Len(fromFC) + 1 /\ Len(fromFC') \in Nat
    BY <1>1, <2>3
  <2>2. Len(toFC') = Len(toFC) - 1
    BY <1>1, <2>1
  <2>. QED
    BY <1>1, <1>2, <2>1, <2>2, <2>4 DEF Pipelined, InFlightBounded, InFlight
<1>11. CASE Unplug
  BY <1>1, <1>11 DEF Unplug, Pipelined, InFlightBounded, InFlight, host
<1>12. CASE LoopHead \/ Close \/ Panic \/ Expire \/ UNCHANGED vars
  <2>1. /\ toFC' = toFC /\ fromFC' = fromFC /\ late' = late
        /\ pc' = "start" => pc = "start"
    BY <1>12 DEF LoopHead, Abort, Close, Panic, Expire, vars, line, host, env
  <2>. QED
    BY <2>1 DEF Pipelined, InFlightBounded, InFlight
<1>. QED
  BY <1>3, <1>4, <1>5, <1>6, <1>7, <1>8, <1>9, <1>10, <1>11, <1>12
     DEF Next, Receive, Returns

\* Asking again never multiplies traffic (orchestrator.go:511, 530).
THEOREM TrafficIsBounded == Spec => []InFlightBounded
<1>1. Pipelined => InFlightBounded
  BY DEF Pipelined
<1>. QED
  BY <1>1, BoundedInit, BoundedStep, PipelinedInit, PipelinedStep, PTL DEF Spec

----------------------------------------------------------------------------
(* What is handed over is complete *)

\* A request asks for what the reader computed for its address, and while the
\* controller sends no short "0 bytes" of its own accord, an empty reply answers
\* a request for nothing.
Asked == \A i \in 1..Len(toFC) : toFC[i].size = RequestSize(toFC[i].addr)

EmptyAsAsked ==
    "empty" \notin faults =>
        \A i \in 1..Len(fromFC) :
            fromFC[i].kind = "data" /\ fromFC[i].len = 0
                => RequestSize(fromFC[i].addr) = 0

\* The reader only waits while something is missing, and only stops when nothing
\* is, unless the controller cuts the data short or the reader panics.
Complete == /\ Asked
            /\ EmptyAsAsked
            /\ pc = "receive" => address < UsedSize
            /\ ChunkSize > 0 /\ faults \cap {"empty", "panic"} = {}
                  => (pc \in {"close", "handed"} => address = UsedSize)

\* On a flash below the word no request before its end is for nothing.
LEMMA SomethingIsAsked ==
    ASSUME UsedSize < Word, ChunkSize > 0, NEW a \in 0..(UsedSize - 1)
    PROVE  RequestSize(a) > 0
<1>1. UsedSize - a \in 1..(Word - 1)
  BY FlashReadAssumption
<1>2. (UsedSize - a) % Word = UsedSize - a
  BY <1>1, FlashReadAssumption
<1>. QED
  BY <1>1, <1>2, FlashReadAssumption DEF RequestSize

LEMMA SendAsked ==
    ASSUME toFC \in Seq(RequestSet), Asked, NEW a \in 0..Limit
    PROVE  \A i \in 1..Len(SendTo(toFC, a)) :
               SendTo(toFC, a)[i].size = RequestSize(SendTo(toFC, a)[i].addr)
<1>1. CASE plugged
  <2>1. SendTo(toFC, a) = Append(toFC, Request(a))
    BY <1>1 DEF SendTo
  <2>2. Request(a) \in RequestSet /\ Request(a).size = RequestSize(Request(a).addr)
    BY RequestInRange DEF Request
  <2>3. ASSUME NEW q, q \in RequestSet, q.size = RequestSize(q.addr)
        PROVE  \A i \in 1..Len(Append(toFC, q)) :
                   Append(toFC, q)[i].size = RequestSize(Append(toFC, q)[i].addr)
    BY <2>3 DEF Asked
  <2>. QED
    BY <2>1, <2>2, <2>3
<1>2. CASE ~plugged
  BY <1>2 DEF SendTo, Asked
<1>. QED
  BY <1>1, <1>2

\* Dropping replies, and sending a request, keep what is known of messages.
LEMMA MessagesKept ==
    ASSUME Bounded, Asked, EmptyAsAsked, NEW n \in 0..Len(fromFC), NEW a \in 0..Limit,
           fromFC' = After(n), toFC' \in {toFC, SendTo(toFC, a)}, faults' = faults
    PROVE  Asked' /\ EmptyAsAsked'
<1>1. toFC \in Seq(RequestSet) /\ fromFC \in Seq(ReplySet)
  BY DEF Bounded, TypeOK
<1>2. Asked'
  BY <1>1, SendAsked DEF Asked, RequestSize
<1>3. ASSUME "empty" \notin faults, NEW i \in 1..Len(After(n)),
             After(n)[i].kind = "data", After(n)[i].len = 0
      PROVE  RequestSize(After(n)[i].addr) = 0
  <2>1. Len(After(n)) = Len(fromFC) - n /\ n + i \in 1..Len(fromFC)
        /\ After(n)[i] = fromFC[n + i]
    BY <1>1, RestOfReplies
  <2>2. fromFC[n + i].kind = "data" /\ fromFC[n + i].len = 0
    BY <1>3, <2>1
  <2>3. RequestSize(fromFC[n + i].addr) = 0
    BY <1>3, <2>1, <2>2 DEF EmptyAsAsked
  <2>. QED
    BY <2>1, <2>3
<1>. QED
  BY <1>2, <1>3 DEF EmptyAsAsked, RequestSize

LEMMA CompleteInit == Init => Complete
BY FlashReadAssumption DEF Init, Complete, Asked, EmptyAsAsked

LEMMA CompleteStep ==
    ASSUME UsedSize < Word
    PROVE  Bounded /\ Complete /\ [Next]_vars => Complete'
<1>. SUFFICES ASSUME Bounded, Complete, [Next]_vars PROVE Complete'
  OBVIOUS
<1>1. /\ toFC \in Seq(RequestSet) /\ fromFC \in Seq(ReplySet)
      /\ address \in 0..Limit /\ address \in 0..UsedSize
      /\ Limit \in Nat /\ UsedSize \in Nat
  BY RequestInRange, FlashReadAssumption DEF Bounded, TypeOK, TruncationCap, Limit
<1>2. Asked /\ EmptyAsAsked
  BY DEF Complete
<1>3. fromFC = After(0)
  BY <1>1 DEF After
<1>4. ASSUME NEW n \in 0..Len(fromFC), Retry(After(n)) PROVE Complete'
  <2>1. /\ fromFC' = After(n) /\ toFC' \in {toFC, SendTo(toFC, address)}
        /\ faults' = faults /\ pc' \in {"loop", "failed"}
    BY <1>4 DEF Retry, Abort, env
  <2>. QED
    BY <1>1, <1>2, <2>1, MessagesKept DEF Complete
<1>5. CASE SendFirst
  <2>1. toFC' \in {toFC, SendTo(toFC, 0)} /\ fromFC' = After(0) /\ faults' = faults
    BY <1>3, <1>5 DEF SendFirst, SendTo, env
  <2>2. pc' \in {"loop", "failed"}
    BY <1>5 DEF SendFirst, Abort
  <2>. QED
    BY <1>1, <1>2, <2>1, <2>2, MessagesKept DEF Complete
<1>6. CASE LoopHead
  <2>1. UNCHANGED <<address, toFC, fromFC, faults>>
    BY <1>6 DEF LoopHead, line, env
  <2>2. \/ pc' = "close" /\ address = UsedSize
        \/ pc' = "failed"
        \/ pc' = "receive" /\ address < UsedSize
    BY <1>1, <1>6 DEF LoopHead, Abort
  <2>. QED
    BY <2>1, <2>2 DEF Complete, Asked, EmptyAsAsked
<1>7. ASSUME NEW n \in 1..Len(fromFC), EndOfData(n) PROVE Complete'
  <2>1. /\ fromFC' = After(n) /\ toFC' = toFC /\ faults' = faults
        /\ pc' = "close" /\ address' = address /\ pc = "receive"
        /\ fromFC[n].kind = "data" /\ fromFC[n].addr = address /\ fromFC[n].len = 0
    BY <1>7 DEF EndOfData, Returned, env
  <2>2. "empty" \notin faults => RequestSize(address) = 0
    BY <1>2, <2>1 DEF EmptyAsAsked
  <2>3. address < UsedSize
    BY <2>1 DEF Complete
  <2>4. ChunkSize > 0 => RequestSize(address) > 0
    BY <1>1, <2>3, SomethingIsAsked
  <2>5. ~(ChunkSize > 0 /\ faults \cap {"empty", "panic"} = {})
    BY <2>2, <2>4
  <2>6. Asked' /\ EmptyAsAsked'
    BY <1>1, <1>2, <2>1, MessagesKept
  <2>. QED
    BY <2>1, <2>5, <2>6 DEF Complete
<1>8. ASSUME NEW n \in 1..Len(fromFC), Accept(n) PROVE Complete'
  <2>. DEFINE next == address + fromFC[n].len
  <2>1. /\ fromFC' = After(n) /\ pc' \in {"loop", "failed"} /\ faults' = faults
        /\ toFC' \in {toFC, SendTo(toFC, next)}
    BY <1>8 DEF Accept, Abort, env
  <2>2. next \in 0..Limit
    <3>1. fromFC[n] \in ReplySet /\ fromFC[n].addr = address
      BY <1>1, <1>8 DEF Accept
    <3>. QED
      BY <1>1, <3>1 DEF ReplySet
  <2>3. Asked' /\ EmptyAsAsked'
    <3>. HIDE DEF next
    <3>. QED
      BY <1>2, <2>1, <2>2, MessagesKept
  <2>. QED
    BY <2>1, <2>3 DEF Complete
<1>9. CASE ReadNoise
  <2>1. fromFC # <<>> /\ After(1) = Tail(fromFC) /\ 1 \in 0..Len(fromFC)
    BY <1>1, <1>9 DEF ReadNoise, After
  <2>2. /\ fromFC' = After(1) /\ toFC' = toFC /\ faults' = faults
        /\ pc' = pc /\ address' = address
    BY <1>9, <2>1 DEF ReadNoise, host, env
  <2>3. Asked' /\ EmptyAsAsked'
    BY <1>1, <1>2, <2>1, <2>2, MessagesKept
  <2>. QED
    BY <2>2, <2>3 DEF Complete
<1>10. CASE Close
  <2>1. UNCHANGED <<address, toFC, fromFC, faults>> /\ pc = "close" /\ pc' \in {"handed", "failed"}
    BY <1>10 DEF Close, line, env
  <2>. QED
    BY <2>1 DEF Complete, Asked, EmptyAsAsked
<1>11. CASE Panic
  <2>1. UNCHANGED <<address, toFC, fromFC, faults>> /\ "panic" \in faults /\ pc' = "handed"
    BY <1>11 DEF Panic, line, env
  <2>. QED
    BY <2>1 DEF Complete, Asked, EmptyAsAsked
<1>12. CASE Answer
  <2>. DEFINE req == Head(toFC)
  <2>1. /\ toFC # <<>> /\ toFC' = Tail(toFC)
        /\ UNCHANGED <<pc, address, faults>>
    BY <1>12 DEF Answer, host, env
  <2>2. req \in RequestSet /\ req.size = RequestSize(req.addr)
    BY <1>1, <1>2, <2>1 DEF Asked
  <2>3. Asked'
    BY <1>1, <1>2, <2>1 DEF Asked, RequestSize
  <2>4. ASSUME NEW q, fromFC' = Append(fromFC, q),
               "empty" \notin faults /\ q.kind = "data" /\ q.len = 0
                  => RequestSize(q.addr) = 0
        PROVE  EmptyAsAsked'
    <3>1. \A i \in 1..Len(fromFC') : \/ i \in 1..Len(fromFC) /\ fromFC'[i] = fromFC[i]
                                     \/ fromFC'[i] = q
      BY <1>1, <2>4
    <3>. QED
      BY <1>2, <2>1, <2>4, <3>1 DEF EmptyAsAsked, RequestSize
  <2>5. \/ \E m \in 0..req.size :
              /\ m = 0 => req.size = 0 \/ "empty" \in faults
              /\ fromFC' = Append(fromFC, [addr |-> req.addr, len |-> m, kind |-> "data"])
        \/ \E kind \in {"noise", "malformed"} :
              fromFC' = Append(fromFC, [addr |-> req.addr, len |-> 0, kind |-> kind])
        \/ fromFC' = fromFC
    BY <1>12 DEF Answer
  <2>6. EmptyAsAsked'
    <3>1. CASE \E m \in 0..req.size :
                 /\ m = 0 => req.size = 0 \/ "empty" \in faults
                 /\ fromFC' = Append(fromFC, [addr |-> req.addr, len |-> m, kind |-> "data"])
      <4>1. PICK m \in 0..req.size :
                 /\ m = 0 => req.size = 0 \/ "empty" \in faults
                 /\ fromFC' = Append(fromFC, [addr |-> req.addr, len |-> m, kind |-> "data"])
        BY <3>1
      <4>. HIDE DEF req
      <4>. QED
        BY <2>2, <2>4, <4>1
    <3>2. CASE \E kind \in {"noise", "malformed"} :
                 fromFC' = Append(fromFC, [addr |-> req.addr, len |-> 0, kind |-> kind])
      BY <2>4, <3>2
    <3>3. CASE fromFC' = fromFC
      BY <1>2, <2>1, <3>3 DEF EmptyAsAsked, RequestSize
    <3>. QED
      BY <2>5, <3>1, <3>2, <3>3
  <2>. QED
    BY <2>1, <2>3, <2>6 DEF Complete
<1>13. CASE Unplug
  <2>1. toFC' = <<>> /\ fromFC' = <<>> /\ UNCHANGED <<pc, address, faults>>
    BY <1>13 DEF Unplug, host
  <2>. QED
    BY <2>1 DEF Complete, Asked, EmptyAsAsked
<1>14. CASE Expire \/ UNCHANGED vars
  <2>1. UNCHANGED <<pc, address, toFC, fromFC, faults>>
    BY <1>14 DEF Expire, vars, host, line, env
  <2>. QED
    BY <2>1 DEF Complete, Asked, EmptyAsAsked
<1>15. CASE Receive
  <2>1. CASE \E n \in 1..Len(fromFC) : Malformed(n) \/ AddressMismatch(n)
    BY <1>4, <2>1 DEF Malformed, AddressMismatch
  <2>2. CASE \E n \in 0..Len(fromFC) : Timeout(n)
    BY <1>4, <2>2 DEF Timeout
  <2>3. CASE ReadError
    BY <1>3, <1>4, <2>3 DEF ReadError
  <2>. QED
    BY <1>7, <1>8, <1>9, <1>15, <2>1, <2>2, <2>3 DEF Receive
<1>. QED
  BY <1>5, <1>6, <1>10, <1>11, <1>12, <1>13, <1>14, <1>15 DEF Next, Returns

\* On a flash below 64 KiB a copy that is handed over is complete, however many
\* replies are lost, late, damaged or swallowed on the way, unless the controller
\* itself cuts the data short or the reader panics.
THEOREM HealthyCopiesAreFull ==
    ASSUME UsedSize < Word
    PROVE  Spec => []HealthyCopyIsFull
<1>1. Complete => HealthyCopyIsFull
  BY DEF Complete, HealthyCopyIsFull
<1>2. Bounded /\ Complete /\ [Next]_vars => Complete'
  BY CompleteStep
<1>. QED
  BY <1>1, <1>2, BoundedInit, BoundedStep, CompleteInit, PTL DEF Spec

----------------------------------------------------------------------------
(* readFlash does what step 6 promises *)

LEMMA InitImplements == Init => Copy!CopyInit
BY DEF Init, Copy!CopyInit

LEMMA StepImplements ==
    Bounded /\ CopyMatchesFlash /\ CopyMatchesFlash' /\ Bounded' /\ [Next]_vars
        => [Copy!CopyNext]_(Copy!copyVars)
<1>. SUFFICES ASSUME Bounded, CopyMatchesFlash, CopyMatchesFlash', Bounded', [Next]_vars
              PROVE  Copy!CopyNext \/ UNCHANGED Copy!copyVars
  BY DEF Copy!copyVars
<1>1. CASE out' = out /\ pc' = pc
  BY <1>1 DEF Copy!copyVars
<1>2. CASE /\ out' = out
           /\ pc \notin {"handed", "failed"}
  BY <1>2 DEF Copy!CopyNext, Copy!HandOver, Copy!GiveUp, Copy!copyVars
<1>3. ASSUME NEW n \in 1..Len(fromFC), Accept(n),
             address' = address + fromFC[n].len, pc' = "loop"
      PROVE  Copy!Extend
  <2>1. /\ address \in Nat /\ address' \in 0..UsedSize /\ UsedSize \in Nat
        /\ fromFC[n].len > 0 /\ fromFC[n].len \in Nat
    <3>1. fromFC[n] \in ReplySet /\ fromFC[n].len > 0 /\ Limit \in Nat
      BY <1>3, RequestInRange, FlashReadAssumption DEF Bounded, TypeOK, Accept, TruncationCap, Limit
    <3>2. address \in 0..UsedSize /\ address' \in 0..UsedSize /\ UsedSize \in Nat
      BY FlashReadAssumption DEF Bounded, TypeOK
    <3>. QED
      BY <3>1, <3>2 DEF ReplySet
  <2>2. Len(out) = address
    BY <2>1, BytesType DEF CopyMatchesFlash
  <2>3. out' = Copy!FlashPrefix(address')
    BY DEF CopyMatchesFlash, FlashBytes, Copy!FlashPrefix
  <2>4. address' \in Len(out) + 1 .. UsedSize
    BY <1>3, <2>1, <2>2
  <2>. QED
    BY <1>3, <2>3, <2>4 DEF Copy!Extend, Accept, Returned
<1>4. CASE out' = out /\ address' = address
  BY <1>1, <1>2, <1>4
     DEF Next, Receive, SendFirst, LoopHead, Malformed, AddressMismatch,
         EndOfData, Accept, Returned, Timeout, ReadNoise, ReadError, Close,
         Panic, Answer, Unplug, Expire, Returns, host, vars
<1>5. CASE \E n \in 1..Len(fromFC) :
              /\ Accept(n)
              /\ out' = out \o FlashBytes(address, fromFC[n].len)
              /\ address' = address + fromFC[n].len
              /\ pc' = "loop"
  BY <1>3, <1>5 DEF Copy!CopyNext
<1>. QED
  BY <1>4, <1>5, OnlyAcceptWrites

\* readFlash, with its pipeline, timeouts and retries, is an implementation of
\* copying the flash from its beginning, piece by piece and in order.
THEOREM ReadImplementsCopy == Spec => ImplementsFlashCopy
<1>1. Spec => [](Bounded /\ CopyMatchesFlash)
  BY BoundedInit, BoundedStep, FaithfulInit, FaithfulStep, PTL DEF Spec
<1>. QED
  BY <1>1, InitImplements, StepImplements, PTL
     DEF Spec, ImplementsFlashCopy, Copy!CopySpec

----------------------------------------------------------------------------
(* Replies answer only what has been asked *)


NotBeyond(chan, a) == \A i \in 1..Len(chan) : chan[i].addr <= a

LEMMA AppendNotBeyond ==
    ASSUME NEW S, NEW chan \in Seq(S), NEW m, NEW a,
           NotBeyond(chan, a), m.addr <= a
    PROVE  NotBeyond(Append(chan, m), a)
<1>1. ASSUME NEW i \in 1..Len(Append(chan, m)) PROVE Append(chan, m)[i].addr <= a
  <2>1. CASE i \in 1..Len(chan)
    <3>1. Append(chan, m)[i] = chan[i]
      BY <2>1
    <3>. QED
      BY <2>1, <3>1 DEF NotBeyond
  <2>2. CASE i = Len(chan) + 1
    <3>1. Append(chan, m)[i] = m
      BY <2>2
    <3>. QED
      BY <3>1
  <2>. QED
    BY <2>1, <2>2
<1>. QED
  BY <1>1 DEF NotBeyond

LEMMA RestNotBeyond ==
    ASSUME NEW S, NEW chan \in Seq(S), NEW n \in 0..Len(chan), NEW a,
           NotBeyond(chan, a)
    PROVE  NotBeyond(SubSeq(chan, n + 1, Len(chan)), a)
<1>. DEFINE rest == SubSeq(chan, n + 1, Len(chan))
<1>1. /\ Len(rest) = Len(chan) - n
      /\ \A i \in 1..Len(rest) : rest[i] = chan[n + i]
  OBVIOUS
<1>. HIDE DEF rest
<1>2. ASSUME NEW i \in 1..Len(rest) PROVE rest[i].addr <= a
  <2>1. n + i \in 1..Len(chan) /\ rest[i] = chan[n + i]
    BY <1>1
  <2>. QED
    BY <2>1 DEF NotBeyond
<1>3. NotBeyond(rest, a)
  BY <1>2 DEF NotBeyond
<1>. QED
  BY <1>3 DEF rest

LEMMA LeqTransitive == \A x, a, b \in Nat : x <= a /\ a <= b => x <= b
OBVIOUS

\* What lies behind one address lies behind any later one.
LEMMA NotBeyondLater ==
    ASSUME NEW chan, NEW a \in Nat, NEW b \in Nat, a <= b, NotBeyond(chan, a),
           \A i \in 1..Len(chan) : chan[i].addr \in Nat
    PROVE  NotBeyond(chan, b)
BY LeqTransitive DEF NotBeyond

LEMMA Behind ==
    NoReplyFromTheFuture <=>
        (pc \in {"loop", "receive"} =>
            NotBeyond(toFC, address) /\ NotBeyond(fromFC, address))
BY DEF NoReplyFromTheFuture, NotBeyond

LEMMA AddressesAreNat ==
    ASSUME Bounded
    PROVE  /\ \A i \in 1..Len(toFC) : toFC[i].addr \in Nat
           /\ \A i \in 1..Len(fromFC) : fromFC[i].addr \in Nat
<1>1. /\ toFC \in Seq(RequestSet) /\ fromFC \in Seq(ReplySet) /\ Limit \in Nat
  BY FlashReadAssumption DEF Bounded, TypeOK, Limit
<1>2. \A m \in RequestSet \cup ReplySet : m.addr \in Nat
  BY <1>1 DEF RequestSet, ReplySet
<1>. HIDE DEF RequestSet, ReplySet
<1>3. /\ \A i \in 1..Len(toFC) : toFC[i] \in RequestSet
      /\ \A i \in 1..Len(fromFC) : fromFC[i] \in ReplySet
  BY <1>1
<1>. QED
  BY <1>2, <1>3

LEMMA RetryBehind ==
    ASSUME Bounded, NoReplyFromTheFuture, NEW n \in 0..Len(fromFC),
           Retry(After(n)), pc = "receive"
    PROVE  NoReplyFromTheFuture'
<1>1. /\ toFC \in Seq(RequestSet) /\ fromFC \in Seq(ReplySet) /\ address \in Nat
      /\ Request(address).addr = address
  BY DEF Bounded, TypeOK, Request
<1>2. /\ address' = address /\ fromFC' = After(n)
      /\ toFC' \in {toFC, Append(toFC, Request(address))}
  BY DEF Retry, SendTo
<1>3. NotBeyond(toFC, address) /\ NotBeyond(fromFC, address)
  BY Behind
<1>4. NotBeyond(fromFC', address')
  BY <1>1, <1>2, <1>3, RestNotBeyond DEF After
<1>5. NotBeyond(Append(toFC, Request(address)), address)
  BY <1>1, <1>3, AppendNotBeyond
<1>6. NotBeyond(toFC', address')
  BY <1>2, <1>3, <1>5
<1>. QED
  BY <1>4, <1>6, Behind DEF NoReplyFromTheFuture, NotBeyond

LEMMA BehindStep ==
    Bounded /\ Pipelined /\ NoReplyFromTheFuture /\ [Next]_vars => NoReplyFromTheFuture'
<1>. SUFFICES ASSUME Bounded, Pipelined, NoReplyFromTheFuture, [Next]_vars
              PROVE  NoReplyFromTheFuture'
  OBVIOUS
<1>1. /\ toFC \in Seq(RequestSet) /\ fromFC \in Seq(ReplySet) /\ address \in Nat
  BY DEF Bounded, TypeOK
<1>2. \A a : Request(a).addr = a
  BY DEF Request
<1>3. CASE SendFirst
  <2>1. /\ toFC = <<>> /\ fromFC' = <<>> /\ address' = address
        /\ toFC' \in {<<>>, <<Request(0)>>}
    BY <1>3 DEF SendFirst, Pipelined
  <2>. QED
    BY <1>1, <1>2, <2>1 DEF NoReplyFromTheFuture
<1>4. CASE LoopHead \/ Close \/ Panic \/ Expire \/ UNCHANGED vars
  BY <1>4 DEF LoopHead, Close, Panic, Expire, vars, line, host,
              NoReplyFromTheFuture, Abort
<1>5. ASSUME NEW n \in 1..Len(fromFC), Malformed(n) \/ AddressMismatch(n)
      PROVE  NoReplyFromTheFuture'
  BY <1>5, RetryBehind DEF Malformed, AddressMismatch, Returned
<1>6. ASSUME NEW n \in 1..Len(fromFC), EndOfData(n) PROVE NoReplyFromTheFuture'
  BY <1>6 DEF EndOfData, NoReplyFromTheFuture
<1>7. ASSUME NEW n \in 1..Len(fromFC), Accept(n) PROVE NoReplyFromTheFuture'
  <2>. DEFINE next == address + fromFC[n].len
  <2>1. fromFC[n].len \in Nat /\ next > address /\ next \in Nat
    <3>1. fromFC[n] \in ReplySet /\ fromFC[n].len > 0 /\ Limit \in Nat
      BY <1>1, <1>7, RequestInRange, FlashReadAssumption
         DEF Accept, Bounded, TypeOK, TruncationCap, Limit
    <3>. QED
      BY <1>1, <3>1 DEF ReplySet
  <2>2. \/ pc' = "failed"
        \/ /\ address' = next /\ fromFC' = After(n)
           /\ toFC' \in {toFC, Append(toFC, Request(next))}
    BY <1>7 DEF Accept, SendTo, Abort
  <2>. HIDE DEF next
  <2>3. NotBeyond(toFC, next) /\ NotBeyond(fromFC, next)
    BY <1>1, <1>7, <2>1, Behind, AddressesAreNat, NotBeyondLater DEF Accept, Returned
  <2>4. NotBeyond(After(n), next)
    BY <1>1, <2>3, RestNotBeyond DEF After
  <2>5. NotBeyond(Append(toFC, Request(next)), next)
    BY <1>1, <1>2, <2>1, <2>3, AppendNotBeyond
  <2>6. pc' = "failed" \/ (NotBeyond(toFC', address') /\ NotBeyond(fromFC', address'))
    BY <2>2, <2>3, <2>4, <2>5
  <2>. QED
    BY <2>6 DEF NoReplyFromTheFuture, NotBeyond
<1>8. ASSUME NEW n \in 0..Len(fromFC), Timeout(n) PROVE NoReplyFromTheFuture'
  BY <1>8, RetryBehind DEF Timeout
<1>9. CASE ReadNoise
  BY <1>1, <1>9 DEF ReadNoise, host, NoReplyFromTheFuture
<1>10. CASE ReadError
  <2>1. fromFC = After(0)
    BY <1>1 DEF After
  <2>. QED
    BY <1>10, <2>1, RetryBehind DEF ReadError
<1>11. CASE Answer
  <2>1. /\ toFC # <<>> /\ toFC' = Tail(toFC) /\ address' = address /\ pc' = pc
    BY <1>11 DEF Answer, host
  <2>3. Head(toFC) = toFC[1] /\ 1 \in 1..Len(toFC) /\ toFC' = SubSeq(toFC, 2, Len(toFC))
    BY <1>1, <2>1, TailIsSubSeq
  <2>4. CASE pc \in {"loop", "receive"}
    <3>1. NotBeyond(toFC, address) /\ NotBeyond(fromFC, address)
      BY <2>4, Behind
    <3>2. NotBeyond(toFC', address)
      BY <1>1, <2>3, <3>1, RestNotBeyond
    <3>3. Head(toFC).addr <= address
      BY <2>3, <3>1 DEF NotBeyond
    <3>4. ASSUME NEW n, NEW kind,
                 fromFC' = Append(fromFC, [addr |-> Head(toFC).addr, len |-> n, kind |-> kind])
          PROVE  NotBeyond(fromFC', address)
      BY <1>1, <3>1, <3>3, <3>4, AppendNotBeyond
    <3>5. NotBeyond(fromFC', address)
      BY <1>11, <3>1, <3>4 DEF Answer
    <3>. QED
      BY <2>1, <3>2, <3>5 DEF NoReplyFromTheFuture, NotBeyond
  <2>. QED
    BY <2>1, <2>4 DEF NoReplyFromTheFuture
<1>12. CASE Unplug
  BY <1>12 DEF Unplug, NoReplyFromTheFuture
<1>. QED
  BY <1>3, <1>4, <1>5, <1>6, <1>7, <1>8, <1>9, <1>10, <1>11, <1>12
     DEF Next, Receive, Returns

\* A reply is never ahead of the reader, so the first reply that carries the
\* expected address answers a request for exactly that piece.
THEOREM RepliesStayBehind == Spec => []NoReplyFromTheFuture
<1>1. Init => NoReplyFromTheFuture
  BY DEF Init, NoReplyFromTheFuture
<1>. QED
  BY <1>1, BoundedInit, BoundedStep, PipelinedInit, PipelinedStep, BehindStep,
     PTL DEF Spec

----------------------------------------------------------------------------
(* What a late answer costs *)

\* No request is lost, and every answer is one the client looks at.
Clear == faults \cap {"lost", "noise", "malformed", "unplug"} = {}

\* Of the messages under way, answers before requests, those after the first k
\* are of the address the reader is at.
Matching(k) ==
    /\ \A i \in 1..Len(fromFC) : i > k => fromFC[i].addr = address
    /\ \A i \in 1..Len(toFC) : Len(fromFC) + i > k => toFC[i].addr = address

\* Each error counted since the last good piece, and each of the k messages
\* that may still cause one, is paid for by a late answer of its own.
Forgiven ==
    Clear =>
        /\ plugged
        /\ errors <= late
        /\ pc = "start" => address = 0
        /\ \A i \in 1..Len(fromFC) : fromFC[i].kind = "data"
        /\ pc \in {"start", "loop", "receive"} =>
              \E k \in Nat : errors + k <= late /\ Matching(k)
        /\ pc = "receive" \/ (pc = "loop" /\ address < UsedSize) => InFlight >= 1

\* Asking again on a line that works.
LEMMA SendWorks ==
    ASSUME plugged, toFC \in Seq(RequestSet), NEW a \in 0..Limit
    PROVE  /\ Len(SendTo(toFC, a)) = Len(toFC) + 1
           /\ \A i \in 1..Len(toFC) : SendTo(toFC, a)[i] = toFC[i]
           /\ SendTo(toFC, a)[Len(toFC) + 1].addr = a
<1>1. SendTo(toFC, a) = Append(toFC, Request(a))
  BY Zenon DEF SendTo
<1>2. Request(a) \in RequestSet /\ Request(a).addr = a
  BY RequestInRange DEF Request
<1>. QED
  BY <1>1, <1>2, AppendProperties

\* A retry takes n messages away, all of them among the k that may be wrong,
\* adds a right one, and costs one error.
LEMMA RetryForgiven ==
    ASSUME Bounded, Forgiven, Clear, NEW n \in 0..Len(fromFC), NEW k \in Nat,
           Matching(k), n <= k, Retry(After(n)),
           late' \in Nat, errors + 1 <= late', errors + 1 + (k - n) <= late'
    PROVE  Forgiven'
<1>1. /\ toFC \in Seq(RequestSet) /\ fromFC \in Seq(ReplySet) /\ address \in 0..Limit
      /\ errors \in Nat
  BY RequestInRange, FlashReadAssumption DEF Bounded, TypeOK, TruncationCap, Limit
<1>2. /\ Len(After(n)) = Len(fromFC) - n /\ After(n) \in Seq(ReplySet)
      /\ \A i \in 1..Len(After(n)) : After(n)[i] = fromFC[n + i]
  BY <1>1, RestOfReplies
<1>3. /\ fromFC' = After(n) /\ errors' = errors + 1 /\ address' = address
      /\ \/ pc' = "failed"
         \/ pc' = "loop" /\ toFC' = SendTo(toFC, address)
  BY DEF Retry, Abort
<1>4. plugged
  BY DEF Forgiven
<1>5. plugged'
  BY <1>4, Zenon DEF Retry, env
<1>6. \A i \in 1..Len(fromFC') : fromFC'[i].kind = "data"
  <2>1. \A i \in 1..Len(After(n)) : n + i \in 1..Len(fromFC)
    BY <1>1, <1>2
  <2>. QED
    BY <1>2, <1>3, <2>1 DEF Forgiven
<1>7. CASE pc' = "failed"
  <2>1. errors' <= late'
    BY <1>3
  <2>. QED
    BY <1>5, <1>6, <1>7, <2>1, Zenon DEF Forgiven
<1>8. CASE pc' = "loop" /\ toFC' = SendTo(toFC, address)
  <2>1. /\ Len(toFC') = Len(toFC) + 1
        /\ \A i \in 1..Len(toFC) : toFC'[i] = toFC[i]
        /\ toFC'[Len(toFC) + 1].addr = address
    BY <1>1, <1>4, <1>8, SendWorks
  <2>2. ASSUME NEW i \in 1..Len(fromFC'), i > k - n PROVE fromFC'[i].addr = address'
    <3>1. n + i \in 1..Len(fromFC) /\ n + i > k
      BY <1>1, <1>2, <1>3, <2>2
    <3>. QED
      BY <1>2, <1>3, <2>2, <3>1 DEF Matching
  <2>3. ASSUME NEW i \in 1..Len(toFC'), Len(fromFC') + i > k - n
        PROVE  toFC'[i].addr = address'
    <3>1. CASE i \in 1..Len(toFC)
      <4>1. Len(fromFC) + i > k
        BY <1>1, <1>2, <1>3, <2>3, <3>1
      <4>. QED
        BY <1>3, <2>1, <3>1, <4>1 DEF Matching
    <3>2. CASE i = Len(toFC) + 1
      BY <1>3, <2>1, <3>2
    <3>. QED
      BY <1>1, <2>1, <3>1, <3>2
  <2>4. k - n \in Nat /\ errors' + (k - n) <= late' /\ errors' <= late'
    BY <1>1, <1>3
  <2>5. \E j \in Nat : errors' + j <= late' /\ Matching(j)'
    BY <2>2, <2>3, <2>4 DEF Matching
  <2>6. InFlight' >= 1
    BY <1>1, <1>2, <1>3, <2>1 DEF InFlight
  <2>. QED
    BY <1>5, <1>6, <1>8, <2>4, <2>5, <2>6, Zenon DEF Forgiven
<1>. QED
  BY <1>3, <1>7, <1>8

\* Accepted data clears the counter; what is left on the line is at most one
\* message more than late answers there were, and the newest is the right one.
LEMMA AcceptForgiven ==
    ASSUME Bounded, Pipelined, Forgiven, Clear, Pipelined', Bounded',
           NEW n \in 1..Len(fromFC), Accept(n)
    PROVE  Forgiven'
<1>. DEFINE next == address + fromFC[n].len
<1>1. /\ toFC \in Seq(RequestSet) /\ fromFC \in Seq(ReplySet) /\ UsedSize \in Nat
      /\ toFC' \in Seq(RequestSet) /\ fromFC' \in Seq(ReplySet) /\ late' \in Nat
  BY FlashReadAssumption DEF Bounded, TypeOK
<1>2. /\ fromFC' = After(n) /\ errors' = 0
      /\ \/ pc' = "failed"
         \/ pc' = "loop" /\ address' = next
      /\ toFC' = IF next < UsedSize THEN SendTo(toFC, next) ELSE toFC
  BY DEF Accept, Abort
<1>3. plugged
  BY DEF Forgiven
<1>4. plugged'
  BY <1>3, Zenon DEF Accept, env
<1>5. /\ Len(After(n)) = Len(fromFC) - n
      /\ \A i \in 1..Len(After(n)) : After(n)[i] = fromFC[n + i]
  BY <1>1, RestOfReplies
<1>6. \A i \in 1..Len(fromFC') : fromFC'[i].kind = "data"
  <2>1. \A i \in 1..Len(After(n)) : n + i \in 1..Len(fromFC)
    BY <1>1, <1>5
  <2>. QED
    BY <1>2, <1>5, <2>1 DEF Forgiven
<1>7. errors' <= late'
  BY <1>1, <1>2
<1>8. CASE pc' = "failed"
  BY <1>4, <1>6, <1>7, <1>8, Zenon DEF Forgiven
<1>9. CASE pc' = "loop" /\ address' = next
  <2>1. InFlight' = Len(toFC') + Len(fromFC') /\ InFlight' <= 1 + late'
    BY DEF InFlight, Pipelined, InFlightBounded
  <2>2. CASE next < UsedSize
    <3>1. next \in 0..Limit
      BY <1>9 DEF Bounded, TypeOK, TruncationCap, Limit
    <3>2. Len(toFC') = Len(toFC) + 1 /\ toFC'[Len(toFC) + 1].addr = address'
      <4>. HIDE DEF next
      <4>. QED
        BY <1>1, <1>2, <1>3, <1>9, <2>2, <3>1, SendWorks
    <3>3. PICK k \in Nat : k = Len(toFC) + Len(fromFC')
      BY <1>1
    <3>4. Matching(k)'
      <4>1. ASSUME NEW i \in 1..Len(fromFC'), i > k PROVE FALSE
        BY <1>1, <3>3, <4>1
      <4>2. ASSUME NEW i \in 1..Len(toFC'), Len(fromFC') + i > k
            PROVE  toFC'[i].addr = address'
        <5>1. i = Len(toFC) + 1
          BY <1>1, <3>2, <3>3, <4>2
        <5>. QED
          BY <3>2, <5>1
      <4>. QED
        BY <4>1, <4>2 DEF Matching
    <3>5. errors' + k <= late' /\ InFlight' >= 1
      BY <1>1, <1>2, <2>1, <3>2, <3>3
    <3>. QED
      BY <1>4, <1>6, <1>7, <1>9, <3>4, <3>5, Zenon DEF Forgiven
  <2>3. CASE ~(next < UsedSize)
    <3>1. toFC' = toFC /\ ~(address' < UsedSize)
      BY <1>2, <1>9, <2>3
    <3>2. PICK k \in Nat : k = Len(toFC) + Len(fromFC')
      BY <1>1
    <3>3. Matching(k)'
      BY <1>1, <3>1, <3>2 DEF Matching
    <3>4. errors' + k <= late'
      <4>1. InFlight <= 1 + late /\ late' = late
        BY DEF Pipelined, InFlightBounded, Accept
      <4>2. k <= late'
        BY <1>1, <1>2, <1>5, <3>2, <4>1 DEF InFlight
      <4>. QED
        BY <1>1, <1>2, <4>2
    <3>. QED
      BY <1>4, <1>6, <1>7, <1>9, <3>1, <3>3, <3>4, Zenon DEF Forgiven
  <2>. QED
    BY <2>2, <2>3
<1>. QED
  BY <1>2, <1>8, <1>9

\* The answer to the first request under way takes its place in the queue.
LEMMA AnswerForgiven ==
    ASSUME Bounded, Forgiven, Clear, Answer
    PROVE  Forgiven'
<1>1. /\ toFC \in Seq(RequestSet) /\ fromFC \in Seq(ReplySet) /\ toFC # <<>>
  BY DEF Bounded, TypeOK, Answer
<1>2. /\ UNCHANGED <<pc, address, errors, late>> /\ toFC' = Tail(toFC)
  BY DEF Answer, host
<1>3. plugged
  BY DEF Forgiven
<1>4. plugged'
  BY <1>3, Zenon DEF Answer, env
<1>5. PICK r : fromFC' = Append(fromFC, r) /\ r.addr = toFC[1].addr /\ r.kind = "data"
  <2>1. Head(toFC) = toFC[1]
    BY <1>1
  <2>2. PICK m \in 0..Head(toFC).size :
           fromFC' = Append(fromFC, [addr |-> Head(toFC).addr, len |-> m, kind |-> "data"])
    BY DEF Answer, Clear
  <2>. QED
    BY <2>1, <2>2
<1>6. /\ Len(fromFC') = Len(fromFC) + 1
      /\ \A i \in 1..Len(fromFC) : fromFC'[i] = fromFC[i]
      /\ fromFC'[Len(fromFC) + 1] = r
  BY <1>1, <1>5
<1>7. /\ Len(toFC') = Len(toFC) - 1 /\ Len(toFC) >= 1
      /\ \A i \in 1..Len(toFC') : toFC'[i] = toFC[i + 1]
  BY <1>1, <1>2
<1>8. \A i \in 1..Len(fromFC') : fromFC'[i].kind = "data"
  BY <1>1, <1>5, <1>6 DEF Forgiven
<1>9. ASSUME NEW k \in Nat, Matching(k) PROVE Matching(k)'
  <2>1. ASSUME NEW i \in 1..Len(fromFC'), i > k PROVE fromFC'[i].addr = address'
    <3>1. CASE i \in 1..Len(fromFC)
      BY <1>2, <1>6, <1>9, <2>1, <3>1 DEF Matching
    <3>2. CASE i = Len(fromFC) + 1
      BY <1>2, <1>5, <1>6, <1>7, <1>9, <2>1, <3>2 DEF Matching
    <3>. QED
      BY <1>1, <1>6, <2>1, <3>1, <3>2
  <2>2. ASSUME NEW i \in 1..Len(toFC'), Len(fromFC') + i > k PROVE toFC'[i].addr = address'
    <3>1. i + 1 \in 1..Len(toFC) /\ Len(fromFC) + (i + 1) > k
      BY <1>1, <1>6, <1>7, <2>2
    <3>. QED
      BY <1>2, <1>7, <1>9, <2>2, <3>1 DEF Matching
  <2>. QED
    BY <2>1, <2>2 DEF Matching
<1>10. /\ errors' <= late'
       /\ pc' = "start" => address' = 0
       /\ pc' \in {"start", "loop", "receive"} =>
             \E k \in Nat : errors' + k <= late' /\ Matching(k)'
  BY <1>2, <1>9 DEF Forgiven
<1>11. InFlight' >= 1
  BY <1>1, <1>6, <1>7 DEF InFlight
<1>. QED
  BY <1>4, <1>8, <1>10, <1>11, Zenon DEF Forgiven

\* No step lets an error be counted that no late answer pays for.
LEMMA ForgivenStep ==
    ASSUME Bounded, Pipelined, Forgiven, Bounded', Pipelined', [Next]_vars
    PROVE  Forgiven'
<1>. SUFFICES ASSUME Clear PROVE Forgiven'
  <2>1. UNCHANGED faults
    BY DEF Next, Receive, SendFirst, LoopHead, Malformed, AddressMismatch,
       EndOfData, Accept, Timeout, ReadNoise, ReadError, Retry, Close, Panic,
       Answer, Unplug, Expire, Returns, env, vars
  <2>. QED
    BY <2>1 DEF Forgiven, Clear
<1>1. /\ toFC \in Seq(RequestSet) /\ fromFC \in Seq(ReplySet) /\ UsedSize \in Nat
      /\ errors \in Nat /\ late \in Nat /\ late' \in Nat
  BY FlashReadAssumption DEF Bounded, TypeOK
<1>2. /\ plugged /\ errors <= late
      /\ \A i \in 1..Len(fromFC) : fromFC[i].kind = "data"
  BY DEF Forgiven
<1>3. CASE SendFirst
  <2>1. /\ fromFC = <<>> /\ toFC = <<>> /\ UNCHANGED <<address, errors, fromFC, late>>
        /\ toFC' = Append(toFC, Request(0)) /\ pc' = "loop"
    BY <1>2, <1>3, Zenon DEF SendFirst, Pipelined
  <2>2. plugged'
    BY <1>2, <1>3, Zenon DEF SendFirst, env
  <2>3. PICK k \in Nat : errors + k <= late /\ Matching(k)
    BY <1>3 DEF SendFirst, Forgiven
  <2>4. address = 0
    BY <1>3 DEF SendFirst, Forgiven
  <2>5. Matching(k)'
    BY <2>1, <2>4 DEF Matching, Request
  <2>6. InFlight' >= 1
    BY <2>1 DEF InFlight
  <2>7. errors' <= late' /\ errors' + k <= late' /\ \A i \in 1..Len(fromFC') : fromFC'[i].kind = "data"
    BY <1>2, <2>1, <2>3
  <2>. QED
    BY <2>1, <2>2, <2>5, <2>6, <2>7, Zenon DEF Forgiven
<1>4. ASSUME NEW n \in 1..Len(fromFC), Malformed(n) PROVE FALSE
  BY <1>2, <1>4 DEF Malformed
<1>5. ASSUME NEW n \in 1..Len(fromFC), AddressMismatch(n) PROVE Forgiven'
  <2>1. PICK k \in Nat : errors + k <= late /\ Matching(k)
    BY <1>5 DEF AddressMismatch, Returned, Forgiven
  <2>2. ~(n > k)
    BY <1>5, <2>1 DEF AddressMismatch, Matching
  <2>3. n \in 0..Len(fromFC) /\ n <= k /\ late' = late /\ Retry(After(n))
    BY <1>1, <1>5, <2>1, <2>2 DEF AddressMismatch
  <2>4. errors + 1 <= late' /\ errors + 1 + (k - n) <= late'
    BY <1>1, <2>1, <2>3
  <2>. QED
    BY <1>1, <2>1, <2>3, <2>4, RetryForgiven
<1>6. ASSUME NEW n \in 1..Len(fromFC), EndOfData(n) PROVE Forgiven'
  <2>1. /\ fromFC' = After(n) /\ pc' = "close" /\ UNCHANGED <<errors, late>>
    BY <1>6 DEF EndOfData
  <2>2. plugged'
    BY <1>2, <1>6, Zenon DEF EndOfData, env
  <2>3. \A i \in 1..Len(fromFC') : fromFC'[i].kind = "data"
    <3>1. /\ Len(After(n)) = Len(fromFC) - n
          /\ \A i \in 1..Len(After(n)) : After(n)[i] = fromFC[n + i]
      BY <1>1, RestOfReplies
    <3>2. \A i \in 1..Len(After(n)) : n + i \in 1..Len(fromFC)
      BY <1>1, <3>1
    <3>. QED
      BY <1>2, <2>1, <3>1, <3>2
  <2>4. errors' <= late'
    BY <1>2, <2>1
  <2>. QED
    BY <2>1, <2>2, <2>3, <2>4, Zenon DEF Forgiven
<1>7. ASSUME NEW n \in 1..Len(fromFC), Accept(n) PROVE Forgiven'
  BY <1>7, AcceptForgiven
<1>8. ASSUME NEW n \in 0..Len(fromFC), Timeout(n) PROVE Forgiven'
  <2>1. n = 0
    <3>1. CASE n # 0
      <4>1. n \in 1..Len(fromFC) /\ 1 \in 1..Len(fromFC) /\ 1 \in 1..n
        BY <1>1, <3>1
      <4>. QED
        BY <1>2, <1>8, <4>1 DEF Timeout
    <3>. QED
      BY <3>1
  <2>2. InFlight >= 1
    BY <1>8 DEF Timeout, Forgiven
  <2>3. late' = late + 1 /\ Retry(After(n))
    BY <1>8, <2>1, <2>2 DEF Timeout
  <2>4. PICK k \in Nat : errors + k <= late /\ Matching(k)
    BY <1>8 DEF Timeout, Forgiven
  <2>5. errors + 1 <= late' /\ errors + 1 + (k - n) <= late' /\ n <= k
    BY <1>1, <2>1, <2>3, <2>4
  <2>. QED
    BY <1>1, <2>3, <2>4, <2>5, RetryForgiven
<1>9. CASE ReadNoise
  <2>1. 1 \in 1..Len(fromFC) /\ fromFC[1].kind = "noise"
    BY <1>1, <1>9 DEF ReadNoise
  <2>. QED
    BY <1>2, <2>1
<1>10. CASE ReadError
  BY <1>2, <1>10 DEF ReadError
<1>11. CASE Answer
  BY <1>11, AnswerForgiven
<1>12. CASE Unplug
  BY <1>12 DEF Unplug, Clear
<1>13. CASE LoopHead
  <2>1. /\ UNCHANGED <<address, errors, toFC, fromFC, late>>
        /\ pc = "loop"
        /\ pc' \in {"close", "failed"} \/ (pc' = "receive" /\ address < UsedSize)
    BY <1>13 DEF LoopHead, Abort, line
  <2>2. plugged'
    BY <1>2, <1>13, Zenon DEF LoopHead, env
  <2>3. InFlight' = InFlight /\ (pc' = "receive" => InFlight >= 1) /\ pc' # "loop"
    BY <2>1 DEF InFlight, Forgiven
  <2>4. \E k \in Nat : errors' + k <= late' /\ Matching(k)'
    BY <2>1 DEF Forgiven, Matching
  <2>5. errors' <= late' /\ \A i \in 1..Len(fromFC') : fromFC'[i].kind = "data"
    BY <1>2, <2>1
  <2>6. /\ pc' = "receive" \/ (pc' = "loop" /\ address' < UsedSize) => InFlight' >= 1
        /\ pc' # "start"
    BY <2>1, <2>3
  <2>. QED
    BY <2>2, <2>4, <2>5, <2>6, Zenon DEF Forgiven
<1>14. CASE Close \/ Panic \/ Expire \/ UNCHANGED vars
  <2>1. /\ UNCHANGED <<address, errors, toFC, fromFC, late>>
        /\ pc' \in {"handed", "failed"} \/ pc' = pc
    BY <1>14 DEF Close, Panic, Expire, line, host, vars
  <2>2. plugged'
    <3>1. UNCHANGED plugged
      BY <1>14 DEF Close, Panic, Expire, env, vars
    <3>. QED
      BY <1>2, <3>1, Zenon
  <2>3. InFlight' = InFlight /\ \A k \in Nat : Matching(k) => Matching(k)'
    BY <2>1 DEF InFlight, Matching
  <2>4. /\ errors' <= late' /\ \A i \in 1..Len(fromFC') : fromFC'[i].kind = "data"
        /\ pc' = "start" => address' = 0
        /\ pc' \in {"start", "loop", "receive"} =>
              \E k \in Nat : errors' + k <= late' /\ Matching(k)'
        /\ pc' = "receive" \/ (pc' = "loop" /\ address' < UsedSize) => InFlight' >= 1
    BY <2>1, <2>3 DEF Forgiven
  <2>. QED
    BY <2>2, <2>4, Zenon DEF Forgiven
<1>. QED
  BY <1>3, <1>4, <1>5, <1>6, <1>7, <1>8, <1>9, <1>10, <1>11, <1>12, <1>13, <1>14
     DEF Next, Receive, Returns

\* For every flash and error limit: a late answer costs at most one of the
\* consecutive errors, however many pieces later its echo is met.
THEOREM SlownessIsAlwaysForgiven == Spec => []SlownessIsForgiven
<1>1. Init => Forgiven
  BY FlashReadAssumption DEF Init, Forgiven, Matching
<1>2. Forgiven => SlownessIsForgiven
  BY DEF Forgiven, Clear, SlownessIsForgiven
<1>. QED
  BY <1>1, <1>2, BoundedInit, BoundedStep, PipelinedInit, PipelinedStep, ForgivenStep,
     PTL DEF Spec
=============================================================================
