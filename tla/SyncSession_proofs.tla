------------------------- MODULE SyncSession_proofs -------------------------
(***************************************************************************)
(* Theorems about SyncSession, for any number of units, sessions and       *)
(* unread summaries, any capacity, any set of modes, with or without       *)
(* panics and cleanup.                                                     *)
(*                                                                         *)
(* The invariant is built in layers, each inductive given those before it: *)
(* what the run knows of the flash (FlashKnown), what its session holds at *)
(* each step (CopyKept), what becomes of earlier sessions                  *)
(* (ManifestMeansComplete), where every unit is (EveryUnitKept), what the  *)
(* summaries say (SummariesTrue), and on which units a power loss decides  *)
(* (LogsKnown, for the refinement of SafeTransfer).                        *)
(***************************************************************************)
EXTENDS SyncSession, SequenceTheorems, TLAPS

Below(log, n) == \A i \in 1..Len(log) : log[i] <= n

\* Types, and every unit seen anywhere is a recorded one.
Typed == /\ TypeOK
         /\ Len(flash) <= recorded
         /\ Below(flash, recorded)
         /\ Below(hashed, recorded)
         /\ \A s \in Sessions : Below(sess[s].sum, recorded)
         /\ pc \in {"read", "verify", "manifest", "decide", "erase", "poll", "record"}
               => cur \in Sessions

\* The flash grows only while it is not linked, and then at its end: what was
\* asked and read in this run is still a beginning of it, and all of it while
\* the FC is linked.
Using == {"storage", "cleanup", "prepare", "read", "verify", "manifest", "decide", "erase"}

Reading == {"read", "verify", "manifest", "decide", "erase"}

FlashKnown ==
    /\ pc \in Using => used <= Len(flash) /\ (linked => used = Len(flash))
    /\ pc \in Reading => /\ Len(hashed) <= used
                         /\ hashed = Upto(flash, Len(hashed))

\* What this run's session holds, step by step.
Saved == /\ sess[cur].file
         /\ sess[cur].cache = hashed
         /\ sess[cur].disk = hashed

CopyKept ==
    /\ pc \in {"read", "verify", "manifest"} =>
          sess[cur].man = "none" /\ sess[cur].manDisk = "none"
    /\ pc = "read" => sess[cur].disk = Upto(flash, Len(sess[cur].disk))
                   /\ Len(sess[cur].disk) <= Len(flash)
    /\ pc \in {"read", "verify"} =>
          (sess[cur].cache = hashed => sess[cur].disk = hashed)
    /\ pc \in {"manifest", "decide", "erase", "poll", "record"} =>
          Saved /\ Len(hashed) = used
    /\ pc \in {"decide", "erase", "poll", "record"} =>
          sess[cur].man = "copied" /\ sess[cur].sum = hashed
    /\ pc \in {"erase", "poll", "record"} => mode = "erase"

\* Sessions not yet made are blank; a durable manifest is also a visible one.
Blank(s) == /\ ~sess[s].dir
            /\ sess[s].cache = <<>> /\ sess[s].disk = <<>>
            /\ sess[s].man = "none" /\ sess[s].manDisk = "none"

Tidy == \A s \in Sessions :
            /\ s > made => Blank(s)
            /\ sess[s].manDisk # "none" => sess[s].man # "none"

\* Units in files whose contents are durable as they are: no power loss can
\* change these, and neither does a later run.
Kept == UNION {Content(sess[s].disk) : s \in {t \in Sessions : sess[t].cache = sess[t].disk}}

EveryUnitKept == 1..recorded \subseteq OnFC \cup Kept \cup reclaimed

\* A summary that says "empty and ready" was true when it was sent, and since
\* then the flash can only have been flown full again, after an unplug.
SummariesTrue ==
    /\ pc \in {"open", "identify", "query", "storage", "cleanup", "prepare", "read",
               "verify", "manifest", "decide", "erase"} => mail = <<>>
    /\ (pc = "poll" /\ \E i \in 1..Len(mail) : mail[i]) \/ (pc = "record" /\ eraseOK) =>
          /\ Content(hashed) \cap OnFC = {}
          /\ linked => flash = <<>> /\ ~busy
    /\ pc = "poll" => ~eraseOK
    /\ pc # "off" => result # "success"
    /\ \A s \in Sessions : sess[s].manDisk = "erased" => sess[s].man = "erased"

----------------------------------------------------------------------------
(* Logs *)

\* A beginning of a log.
LEMMA UptoFacts ==
    ASSUME NEW S, NEW log \in Seq(S), NEW n \in 0..Len(log)
    PROVE  /\ Upto(log, n) \in Seq(S)
           /\ Len(Upto(log, n)) = n
           /\ \A i \in 1..n : Upto(log, n)[i] = log[i]
BY DEF Upto

\* Recording more does not change a beginning.
LEMMA UptoAppend ==
    ASSUME NEW log \in Seq(Units), NEW x, NEW n \in 0..Len(log)
    PROVE  Upto(Append(log, x), n) = Upto(log, n)
BY DEF Upto

\* What storage makes of a log is a log of the same length.
LEMMA StoredFacts ==
    ASSUME NEW log \in Seq(Units), NEW x \in Stored(log)
    PROVE  x \in AnyLog
<1>1. log \in AnyLog
  BY DEF AnyLog
<1>2. ASSUME NEW i \in 1..Len(log) PROVE [log EXCEPT ![i] = Bad] \in AnyLog
  BY <1>1, <1>2, ExceptSeq DEF AnyLog
<1>. QED
  BY <1>1, <1>2 DEF Stored

\* Flying keeps a log a log of recorded units.
LEMMA BelowFacts ==
    ASSUME NEW log \in Seq(Units), NEW n \in Nat, Below(log, n), n + 1 \in Units
    PROVE  /\ Below(log, n + 1)
           /\ Append(log, n + 1) \in Seq(Units)
           /\ Len(Append(log, n + 1)) = Len(log) + 1
           /\ Below(Append(log, n + 1), n + 1)
<1>0. \A i \in 1..Len(log) : log[i] \in Units
  OBVIOUS
<1>1. \A i \in 1..Len(log) : log[i] \in Nat /\ log[i] <= n + 1
  BY <1>0 DEF Below, Units
<1>2. /\ Append(log, n + 1) \in Seq(Units)
      /\ Len(Append(log, n + 1)) = Len(log) + 1
      /\ \A i \in 1..Len(log) : Append(log, n + 1)[i] = log[i]
      /\ Append(log, n + 1)[Len(log) + 1] = n + 1
  BY AppendProperties
<1>. QED
  BY <1>1, <1>2 DEF Below

\* A prefix of a log of sound units may be stored.
LEMMA SoundIsStorable == Seq(Units) \subseteq AnyLog
BY DEF AnyLog

----------------------------------------------------------------------------
(* Types *)

\* A session not yet made has the type of one.
LEMMA BlankSession == NoSession \in SessionSet /\ NoSession.sum = <<>>
BY DEF NoSession, SessionSet, AnyLog, ManifestStates

\* The initial states are well typed.
LEMMA TypedInit == Init => Typed
<1>. SUFFICES ASSUME Init PROVE Typed
  OBVIOUS
<1>1. sess \in [Sessions -> SessionSet] /\ \A s \in Sessions : sess[s].sum = <<>>
  BY BlankSession DEF Init
<1>2. /\ 0 \in 0..0 /\ 0 \in 0..MaxUnits /\ 0 \in 0..MaxSessions /\ Len(<<>>) <= MaxMail
      /\ <<>> \in Seq(Units) /\ <<>> \in Seq(BOOLEAN)
  BY SyncAssumption
<1>3. TypeOK
  BY <1>1, <1>2, Zenon DEF Init, TypeOK
<1>. QED
  BY <1>1, <1>3 DEF Init, Typed, Below

\* An empty queue of summaries is one.
LEMMA MailEmpty == <<>> \in Seq(BOOLEAN) /\ Len(<<>>) <= MaxMail
BY SyncAssumption

\* The actions that change no session, no log and no history.
LEMMA TypedQuiet ==
    ASSUME Typed,
           \/ Open \/ Identify \/ Query \/ CheckStorage \/ EndCleanup \/ Verify
           \/ Decide \/ EraseDeadline \/ Panic \/ Unplug \/ FinishErase \/ Kill \/ Start
    PROVE  Typed'
<1>1. /\ UNCHANGED <<hashed, cur, sess, made, recorded, reclaimed, flash>>
      /\ mode' \in Modes /\ used' \in 0..MaxUnits /\ eraseOK' \in BOOLEAN
      /\ busy' \in BOOLEAN /\ linked' \in BOOLEAN
      /\ mail' \in Seq(BOOLEAN) /\ Len(mail') <= MaxMail
  <2>1. <<>> \in Seq(BOOLEAN) /\ Len(<<>>) <= MaxMail /\ Len(flash) \in 0..MaxUnits
    BY SyncAssumption DEF Typed, TypeOK
  <2>2. CASE Query
    BY <2>1, <2>2 DEF Typed, TypeOK, Query, fc, disk
  <2>3. CASE Start
    BY <2>1, <2>3 DEF Typed, TypeOK, Start, disk
  <2>4. CASE Unplug
    BY <2>1, <2>4 DEF Typed, TypeOK, Unplug, proc, disk
  <2>5. CASE FinishErase
    BY <2>5 DEF Typed, TypeOK, FinishErase, proc, disk
  <2>6. CASE \/ Open \/ Identify \/ CheckStorage \/ EndCleanup \/ Verify
             \/ Decide \/ EraseDeadline \/ Panic \/ Kill
    BY <2>6 DEF Typed, TypeOK, Open, Identify, CheckStorage, EndCleanup, Verify,
         Decide, EraseDeadline, Panic, Kill, proc, fc, disk
  <2>. QED
    BY <2>2, <2>3, <2>4, <2>5, <2>6
<1>2. /\ pc' \in {"off", "open", "identify", "query", "storage", "cleanup", "prepare",
                  "read", "verify", "manifest", "decide", "erase", "poll", "record"}
      /\ result' \in {"none", "killed", "success", "empty", "error", "dryrun"}
      /\ status' \in {"idle", "identifying", "querying", "syncing", "verifying",
                      "erasing", "error"}
      /\ led' \in {"off", "busy", "done", "error"}
      /\ pc' \in {"read", "verify", "manifest", "decide", "erase", "poll", "record"}
           => pc \in {"read", "verify", "manifest", "decide", "erase", "poll", "record"}
  BY DEF Typed, TypeOK, Open, Identify, Query, CheckStorage, EndCleanup, Verify,
         Decide, EraseDeadline, Panic, Unplug, FinishErase, Kill, Start,
         proc, shown, fc, disk, Show, Fail, EndWith, Goto
<1>. QED
  BY <1>1, <1>2 DEF Typed, TypeOK, Below

\* The values the actions give to the fields of a session.
LEMMA FieldTypes ==
    /\ <<>> \in AnyLog /\ <<>> \in Seq(Units)
    /\ "none" \in ManifestStates /\ "copied" \in ManifestStates
    /\ "attempted" \in ManifestStates /\ "erased" \in ManifestStates
BY DEF AnyLog, ManifestStates

\* Unlinking a log file.
LEMMA UnlinkedFacts ==
    ASSUME sess \in [Sessions -> SessionSet], NEW s \in Sessions
    PROVE  /\ Unlinked(s) \in [Sessions -> SessionSet]
           /\ \A t \in Sessions : Unlinked(s)[t].sum = sess[t].sum
BY FieldTypes DEF Unlinked, SessionSet

\* The invariant in the form the next lemma needs it: sums are old or blank or
\* what this run hashed.
LEMMA SumsBelow ==
    ASSUME Typed, UNCHANGED <<recorded, hashed>>,
           \A t \in Sessions : sess'[t].sum \in {sess[t].sum, <<>>, hashed}
    PROVE  Below(hashed, recorded)' /\ \A t \in Sessions : Below(sess'[t].sum, recorded')
BY DEF Typed, Below

\* The actions on the session directories.
LEMMA TypedSessions ==
    ASSUME Typed, FlashKnown,
           \/ RemoveOldest \/ Prepare \/ WriteChunk \/ ReadFail \/ ReadPanic
           \/ CloseFile \/ WriteManifest \/ RecordErase \/ PowerLoss
    PROVE  Typed'
<1>0. sess \in [Sessions -> SessionSet] /\ hashed \in Seq(Units) /\ flash \in Seq(Units)
  BY DEF Typed, TypeOK
<1>1. CASE RemoveOldest
  <2>1. PICK s \in Sessions :
           \/ /\ sess' \in {[sess EXCEPT ![s] = NoSession], Unlinked(s)}
              /\ reclaimed' = reclaimed \cup (Content(sess[s].disk) \ {Bad})
           \/ /\ sess' = [sess EXCEPT ![s].man = "none", ![s].manDisk = "none",
                                      ![s].sum = <<>>]
              /\ UNCHANGED reclaimed
    BY <1>1 DEF RemoveOldest, Oldest, Present
  <2>2. /\ sess' \in [Sessions -> SessionSet]
        /\ \A t \in Sessions : sess'[t].sum \in {sess[t].sum, <<>>, hashed}
    <3>1. CASE sess' = [sess EXCEPT ![s] = NoSession]
      BY <1>0, <3>1, BlankSession
    <3>2. CASE sess' = Unlinked(s)
      BY <1>0, <3>2, UnlinkedFacts
    <3>3. CASE sess' = [sess EXCEPT ![s].man = "none", ![s].manDisk = "none",
                                    ![s].sum = <<>>]
      BY <1>0, <3>3, FieldTypes DEF SessionSet
    <3>. QED
      BY <2>1, <3>1, <3>2, <3>3
  <2>3. reclaimed' \in SUBSET Units
    <3>1. sess[s].disk \in Seq(Units \cup {Bad})
      BY <1>0 DEF SessionSet, AnyLog
    <3>2. Content(sess[s].disk) \ {Bad} \subseteq Units
      BY <3>1 DEF Content
    <3>. QED
      BY <2>1, <3>2 DEF Typed, TypeOK
  <2>4. UNCHANGED <<pc, proc, shown, fc, made, recorded>>
    BY <1>1 DEF RemoveOldest
  <2>. QED
    BY <2>2, <2>3, <2>4, SumsBelow DEF proc, shown, fc, Typed, TypeOK, Below
<1>2. CASE Prepare
  <2>. DEFINE fresh == [NoSession EXCEPT !.dir = TRUE]
              ready == [NoSession EXCEPT !.dir = TRUE, !.file = TRUE]
  <2>1. fresh \in SessionSet /\ ready \in SessionSet /\ fresh.sum = <<>> /\ ready.sum = <<>>
    BY BlankSession DEF SessionSet
  <2>. HIDE DEF fresh, ready
  <2>2. CASE /\ made < MaxSessions /\ made' = made + 1 /\ cur' = made + 1 /\ hashed' = <<>>
             /\ sess' \in {[sess EXCEPT ![made + 1] = ready], [sess EXCEPT ![made + 1] = fresh]}
    <3>1. made' \in 0..MaxSessions /\ cur' \in Sessions /\ cur' \in 0..made'
      BY <2>2, SyncAssumption DEF Typed, TypeOK, Sessions
    <3>2. sess' \in [Sessions -> SessionSet]
          /\ \A t \in Sessions : sess'[t].sum \in {sess[t].sum, <<>>}
      BY <1>0, <2>1, <2>2, <3>1
    <3>3. /\ Below(hashed, recorded)'
          /\ \A t \in Sessions : Below(sess'[t].sum, recorded')
      BY <1>2, <2>2, <3>2 DEF Prepare, Typed, Below
    <3>4. hashed' \in Seq(Units)
      BY <2>2
    <3>. QED
      BY <1>2, <3>1, <3>2, <3>3, <3>4 DEF Prepare, Show, Fail, fc, Typed, TypeOK, Below
  <2>3. CASE Fail /\ UNCHANGED <<sess, made, cur, hashed>>
    BY <1>2, <2>3 DEF Prepare, Show, Fail, fc, Typed, TypeOK, Below
  <2>. QED
    BY <1>2, <2>2, <2>3 DEF Prepare, fresh, ready
<1>3. CASE WriteChunk
  <2>1. PICK n \in Len(hashed) + 1 .. used :
          /\ hashed' = Upto(flash, n)
          /\ \/ \E k \in Len(sess[cur].cache) .. n - 1 :
                   sess' = [sess EXCEPT ![cur].cache = Upto(flash, k)]
             \/ sess' = [sess EXCEPT ![cur].cache = Upto(flash, n),
                                     ![cur].disk = Upto(flash, n)]
    BY <1>3 DEF WriteChunk
  <2>2. /\ cur \in Sessions /\ Len(sess[cur].cache) \in Nat /\ Len(hashed) \in Nat
        /\ used \in 0..Len(flash) /\ n \in 0..Len(flash)
    BY <1>0, <1>3, <2>1 DEF WriteChunk, Typed, TypeOK, FlashKnown, Using, SessionSet, AnyLog
  <2>3. /\ Upto(flash, n) \in Seq(Units) /\ Below(Upto(flash, n), recorded)
    <3>1. /\ Upto(flash, n) \in Seq(Units) /\ Len(Upto(flash, n)) = n
          /\ \A i \in 1..n : Upto(flash, n)[i] = flash[i]
      BY <1>0, <2>2, UptoFacts
    <3>. QED
      BY <2>2, <3>1 DEF Typed, Below
  <2>4. /\ sess' \in [Sessions -> SessionSet]
        /\ \A t \in Sessions : sess'[t].sum = sess[t].sum
    <3>1. CASE sess' = [sess EXCEPT ![cur].cache = Upto(flash, n),
                                    ![cur].disk = Upto(flash, n)]
      <4>1. Upto(flash, n) \in AnyLog
        BY <2>3, SoundIsStorable
      <4>. QED
        BY <1>0, <2>2, <3>1, <4>1 DEF SessionSet
    <3>2. ASSUME NEW k \in Len(sess[cur].cache) .. n - 1,
                 sess' = [sess EXCEPT ![cur].cache = Upto(flash, k)]
          PROVE  /\ sess' \in [Sessions -> SessionSet]
                 /\ \A t \in Sessions : sess'[t].sum = sess[t].sum
      <4>1. Upto(flash, k) \in AnyLog
        <5>1. k \in 0..Len(flash)
          BY <2>2
        <5>2. Upto(flash, k) \in Seq(Units)
          BY <1>0, <5>1, UptoFacts
        <5>. QED
          BY <5>2, SoundIsStorable
      <4>. QED
        BY <1>0, <2>2, <3>2, <4>1 DEF SessionSet
    <3>. QED
      BY <2>1, <3>1, <3>2
  <2>. QED
    BY <1>3, <2>1, <2>2, <2>3, <2>4 DEF WriteChunk, shown, fc, Typed, TypeOK, Below
<1>4. CASE ReadFail \/ ReadPanic
  <2>1. cur \in Sessions
    BY <1>4 DEF ReadFail, ReadPanic, Typed
  <2>2. /\ sess' \in [Sessions -> SessionSet]
        /\ \A t \in Sessions : sess'[t].sum \in {sess[t].sum, <<>>, hashed}
    BY <1>0, <1>4, <2>1, UnlinkedFacts DEF ReadFail, ReadPanic
  <2>. QED
    BY <1>4, <2>1, <2>2, SumsBelow
       DEF ReadFail, ReadPanic, Fail, Show, proc, fc, Typed, TypeOK, Below
<1>5. CASE CloseFile
  <2>1. cur \in Sessions /\ sess[cur].cache \in AnyLog /\ hashed \in Seq(Units)
    BY <1>0, <1>5 DEF CloseFile, Typed, SessionSet
  <2>2. /\ sess' \in [Sessions -> SessionSet]
        /\ \A t \in Sessions : sess'[t].sum \in {sess[t].sum, <<>>, hashed}
    <3>1. ASSUME NEW log \in Stored(hashed) \cup {sess[cur].cache},
                 \/ sess' = [sess EXCEPT ![cur].cache = log, ![cur].disk = log]
                 \/ sess' = [sess EXCEPT ![cur].cache = log]
          PROVE  /\ sess' \in [Sessions -> SessionSet]
                 /\ \A t \in Sessions : sess'[t].sum = sess[t].sum
      <4>1. log \in AnyLog
        BY <1>0, <2>1, StoredFacts
      <4>2. CASE sess' = [sess EXCEPT ![cur].cache = log, ![cur].disk = log]
        BY <1>0, <2>1, <4>1, <4>2 DEF SessionSet
      <4>3. CASE sess' = [sess EXCEPT ![cur].cache = log]
        BY <1>0, <2>1, <4>1, <4>3 DEF SessionSet
      <4>. QED
        BY <3>1, <4>2, <4>3
    <3>. QED
      BY <1>5, <3>1 DEF CloseFile
  <2>. QED
    BY <1>5, <2>1, <2>2, SumsBelow DEF CloseFile, Fail, Show, proc, fc, Typed, TypeOK, Below
<1>6. CASE WriteManifest \/ RecordErase
  <2>1. cur \in Sessions /\ sess[cur].manDisk \in ManifestStates
    BY <1>0, <1>6 DEF WriteManifest, RecordErase, Typed, SessionSet
  <2>2. /\ sess' \in [Sessions -> SessionSet]
        /\ \A t \in Sessions : sess'[t].sum \in {sess[t].sum, <<>>, hashed}
    <3>1. CASE UNCHANGED sess
      BY <1>0, <3>1
    <3>2. ASSUME NEW m \in ManifestStates, PutManifest(m)
          PROVE  /\ sess' \in [Sessions -> SessionSet]
                 /\ \A t \in Sessions : sess'[t].sum \in {sess[t].sum, <<>>, hashed}
      <4>1. PICK onDisk \in {m, sess[cur].manDisk} :
               sess' = [sess EXCEPT ![cur].man = m, ![cur].manDisk = onDisk,
                                    ![cur].sum = hashed]
        BY <3>2 DEF PutManifest
      <4>2. onDisk \in ManifestStates
        BY <2>1
      <4>. QED
        BY <1>0, <2>1, <3>2, <4>1, <4>2 DEF SessionSet
    <3>. QED
      BY <1>6, <3>1, <3>2, FieldTypes DEF WriteManifest, RecordErase
  <2>3. /\ pc' \in {"off", "decide"}
        /\ \/ UNCHANGED shown
           \/ result' = "error" /\ led' = "error" /\ status' = "error"
           \/ result' = "success" /\ led' = "done" /\ status' = "idle"
        /\ UNCHANGED <<proc, fc, made, reclaimed, recorded>>
    BY <1>6 DEF WriteManifest, RecordErase, Fail, EndWith, Show
  <2>4. Below(hashed, recorded)' /\ \A t \in Sessions : Below(sess'[t].sum, recorded')
    BY <2>2, <2>3, SumsBelow DEF proc
  <2>. QED
    BY <2>1, <2>2, <2>3, <2>4 DEF shown, proc, fc, Typed, TypeOK, Below
<1>7. CASE PowerLoss
  <2>1. /\ sess' \in [Sessions -> SessionSet]
        /\ \A t \in Sessions : sess'[t].sum \in {sess[t].sum, <<>>, hashed}
    <3>1. PICK lost \in SUBSET Present :
             sess' = [s \in Sessions |->
                     IF s \in lost
                     THEN [sess[s] EXCEPT !.cache = sess[s].disk, !.man = sess[s].manDisk]
                     ELSE [sess[s] EXCEPT !.disk = sess[s].cache, !.manDisk = sess[s].man]]
      BY <1>7 DEF PowerLoss
    <3>. QED
      BY <1>0, <3>1 DEF SessionSet
  <2>2. mail' \in Seq(BOOLEAN) /\ Len(mail') <= MaxMail
    BY <1>7, MailEmpty DEF PowerLoss
  <2>. QED
    BY <1>7, <2>1, <2>2, SumsBelow DEF PowerLoss, Show, proc, Typed, TypeOK, Below
<1>. QED
  BY <1>1, <1>2, <1>3, <1>4, <1>5, <1>6, <1>7

\* A poll takes the last of the summaries it finds, all of them older ones but
\* the one the FC sends now.
LEMMA PollFacts ==
    ASSUME TypeOK, Poll
    PROVE  /\ pc = "poll" /\ linked
           /\ mail' \in Seq(BOOLEAN) /\ Len(mail') <= MaxMail
           /\ \A i \in 1..Len(mail') :
                 mail'[i] => EmptyAndReady \/ \E j \in 1..Len(mail) : mail[j]
           /\ \/ pc' = "poll" /\ (eraseOK' = FALSE \/ eraseOK' = eraseOK)
              \/ /\ pc' = "record" /\ eraseOK' = TRUE
                 /\ EmptyAndReady \/ \E j \in 1..Len(mail) : mail[j]
<1>. DEFINE answers == Append(mail, EmptyAndReady)
<1>1. /\ EmptyAndReady \in BOOLEAN /\ answers \in Seq(BOOLEAN)
      /\ Len(answers) = Len(mail) + 1 /\ Len(answers) <= MaxMail
      /\ \A i \in 1..Len(answers) :
            answers[i] => EmptyAndReady \/ \E j \in 1..Len(mail) : mail[j]
  <2>1. EmptyAndReady \in BOOLEAN
    BY DEF EmptyAndReady
  <2>2. mail \in Seq(BOOLEAN) /\ Len(mail) < MaxMail /\ Len(mail) \in Nat /\ MaxMail \in Nat
    BY SyncAssumption DEF TypeOK, Poll
  <2>3. /\ answers \in Seq(BOOLEAN) /\ Len(answers) = Len(mail) + 1
        /\ \A i \in 1..Len(mail) : answers[i] = mail[i]
        /\ answers[Len(mail) + 1] = EmptyAndReady
    BY <2>1, <2>2, AppendProperties
  <2>. HIDE DEF answers
  <2>4. ASSUME NEW i \in 1..Len(answers), answers[i]
        PROVE  EmptyAndReady \/ \E j \in 1..Len(mail) : mail[j]
    <3>1. CASE i \in 1..Len(mail)
      BY <2>3, <2>4, <3>1
    <3>2. CASE i = Len(mail) + 1
      BY <2>3, <2>4, <3>2
    <3>. QED
      BY <2>2, <2>3, <3>1, <3>2
  <2>. QED
    BY <2>1, <2>2, <2>3, <2>4
<1>2. CASE mail' = answers /\ UNCHANGED <<pc, eraseOK>>
  BY <1>1, <1>2 DEF Poll
<1>3. ASSUME NEW n \in 1..Len(answers),
             mail' = SubSeq(answers, n + 1, Len(answers)),
             eraseOK' = answers[n],
             pc' = IF answers[n] THEN "record" ELSE "poll"
      PROVE  /\ mail' \in Seq(BOOLEAN) /\ Len(mail') <= MaxMail
             /\ \A i \in 1..Len(mail') :
                   mail'[i] => EmptyAndReady \/ \E j \in 1..Len(mail) : mail[j]
             /\ \/ pc' = "poll" /\ eraseOK' = FALSE
                \/ /\ pc' = "record" /\ eraseOK' = TRUE
                   /\ EmptyAndReady \/ \E j \in 1..Len(mail) : mail[j]
  <2>. HIDE DEF answers
  <2>1. /\ mail' \in Seq(BOOLEAN) /\ Len(mail') = Len(answers) - n
        /\ \A i \in 1..Len(mail') : mail'[i] = answers[n + i] /\ n + i \in 1..Len(answers)
    BY <1>1, <1>3
  <2>2. Len(mail') <= MaxMail
    BY <1>1, <2>1, SyncAssumption
  <2>3. \A i \in 1..Len(mail') :
           mail'[i] => EmptyAndReady \/ \E j \in 1..Len(mail) : mail[j]
    BY <1>1, <2>1
  <2>4. answers[n] = TRUE => /\ pc' = "record" /\ eraseOK' = TRUE
                             /\ EmptyAndReady \/ \E j \in 1..Len(mail) : mail[j]
    BY <1>1, <1>3
  <2>5. answers[n] = FALSE => pc' = "poll" /\ eraseOK' = FALSE
    BY <1>3
  <2>6. answers[n] \in BOOLEAN
    BY <1>1
  <2>. QED
    BY <2>1, <2>2, <2>3, <2>4, <2>5, <2>6
<1>. QED
  BY <1>2, <1>3 DEF Poll

\* The actions on the flash, and the polls.
LEMMA TypedFlash ==
    ASSUME Typed, SendErase \/ Poll \/ Fly
    PROVE  Typed'
<1>1. CASE SendErase
  <2>1. /\ flash' \in Seq(Units) /\ Len(flash') <= recorded /\ Below(flash', recorded)
        /\ busy' \in BOOLEAN /\ eraseOK' \in BOOLEAN
    <3>1. <<>> \in Seq(Units) /\ Len(<<>>) <= recorded /\ Below(<<>>, recorded)
      BY DEF Typed, TypeOK, Below
    <3>2. flash' \in {<<>>, flash} /\ busy' \in {TRUE, busy} /\ eraseOK' = FALSE
          /\ UNCHANGED recorded
      BY <1>1 DEF SendErase
    <3>. QED
      BY <3>1, <3>2 DEF Typed, TypeOK, Below
  <2>2. pc' \in {"poll", "record"} /\ pc = "erase"
    BY <1>1 DEF SendErase
  <2>. QED
    BY <1>1, <2>1, <2>2 DEF SendErase, shown, disk, Typed, TypeOK, Below
<1>2. CASE Poll
  <2>1. /\ mail' \in Seq(BOOLEAN) /\ Len(mail') <= MaxMail
        /\ eraseOK' \in BOOLEAN /\ pc' \in {"poll", "record"} /\ pc = "poll"
    BY <1>2, PollFacts DEF Typed, TypeOK
  <2>. QED
    BY <1>2, <2>1 DEF Poll, shown, disk, Typed, TypeOK, Below
<1>3. CASE Fly
  <2>1. /\ recorded' = recorded + 1 /\ recorded' \in 0..MaxUnits /\ recorded' \in Units
        /\ flash' = Append(flash, recorded')
    BY <1>3, SyncAssumption DEF Fly, Typed, TypeOK, Units
  <2>2. flash' \in Seq(Units) /\ Len(flash') <= recorded' /\ Below(flash', recorded')
    BY <2>1, BelowFacts DEF Typed, TypeOK
  <2>3. /\ Below(hashed, recorded')
        /\ \A s \in Sessions : Below(sess[s].sum, recorded')
    BY <2>1, BelowFacts DEF Typed, TypeOK, SessionSet
  <2>. QED
    BY <1>3, <2>1, <2>2, <2>3 DEF Fly, proc, shown, disk, Typed, TypeOK, Below
<1>. QED
  BY <1>1, <1>2, <1>3

\* Every step keeps the types.
LEMMA TypedStep == Typed /\ FlashKnown /\ [Next]_vars => Typed'
<1>1. CASE UNCHANGED vars
  BY <1>1 DEF vars, proc, shown, fc, disk, Typed, TypeOK, Below
<1>. QED
  BY <1>1, TypedQuiet, TypedSessions, TypedFlash DEF Next, ProcessStep, World

----------------------------------------------------------------------------
(* What the run knows of the flash *)

\* Only three kinds of step matter: Query, which reads the size of the flash;
\* WriteChunk, which reads a beginning of it; Fly, which adds to its end.
LEMMA FlashKnownStep ==
    Typed /\ FlashKnown /\ [Next]_vars => FlashKnown'
<1>. SUFFICES ASSUME Typed, FlashKnown, [Next]_vars PROVE FlashKnown'
  OBVIOUS
<1>. USE DEF Using, Reading
<1>0. /\ flash \in Seq(Units) /\ hashed \in Seq(Units) /\ used \in Nat /\ linked \in BOOLEAN
      /\ Len(flash) \in Nat /\ Len(hashed) \in Nat
  BY DEF Typed, TypeOK
<1>1. CASE Query
  BY <1>0, <1>1 DEF Query, fc, FlashKnown, Fail, EndWith
<1>2. CASE WriteChunk
  <2>1. PICK n \in Len(hashed) + 1 .. used : hashed' = Upto(flash, n)
    BY <1>2 DEF WriteChunk
  <2>2. /\ n \in 0..Len(flash) /\ linked /\ pc = "read" /\ used = Len(flash)
        /\ UNCHANGED <<pc, used, flash, linked>>
    BY <1>0, <1>2, <2>1 DEF WriteChunk, FlashKnown, fc
  <2>3. Len(hashed') = n
    BY <1>0, <2>1, <2>2, UptoFacts
  <2>. QED
    BY <1>0, <2>1, <2>2, <2>3 DEF FlashKnown
<1>3. CASE Fly
  <2>1. /\ flash' = Append(flash, recorded + 1) /\ ~linked
        /\ UNCHANGED <<pc, used, hashed, linked>>
    BY <1>3 DEF Fly, proc
  <2>2. Len(flash') = Len(flash) + 1 /\ \A i \in 1..Len(flash) : flash'[i] = flash[i]
    BY <1>0, <2>1
  <2>3. ASSUME pc \in Reading
        PROVE  hashed = Upto(flash', Len(hashed))
    BY <1>0, <2>1, <2>2, <2>3, UptoAppend DEF FlashKnown
  <2>. QED
    BY <1>0, <2>1, <2>2, <2>3 DEF FlashKnown
<1>4. CASE SendErase \/ Poll \/ EraseDeadline \/ RecordErase \/ Panic \/ Kill \/ PowerLoss \/ Start
           \/ Open \/ Identify \/ ReadFail
  <2>1. pc' \notin Using
    BY <1>4, PollFacts DEF SendErase, EraseDeadline, RecordErase, Panic, Kill, PowerLoss,
       Start, Open, Identify, ReadFail, Fail, EndWith, Goto, Typed
  <2>. QED
    BY <2>1 DEF FlashKnown
<1>5. CASE CheckStorage \/ RemoveOldest \/ EndCleanup \/ ReadPanic \/ CloseFile \/ Verify
           \/ WriteManifest \/ Decide \/ Unplug \/ FinishErase \/ UNCHANGED vars
  <2>1. /\ UNCHANGED <<used, hashed, flash>> /\ (linked' = linked \/ linked' = FALSE)
        /\ pc' \in Using => pc \in Using
        /\ pc' \in Reading => pc \in Reading
    BY <1>5 DEF CheckStorage, RemoveOldest, EndCleanup, ReadPanic, CloseFile, Verify,
       WriteManifest, Decide, Unplug, FinishErase, vars, proc, fc, Fail, EndWith, Goto
  <2>. QED
    BY <2>1 DEF FlashKnown
<1>6. CASE Prepare
  <2>1. /\ UNCHANGED <<used, flash, linked>> /\ pc = "prepare"
        /\ pc' = "off" \/ (pc' = "read" /\ hashed' = <<>>)
    BY <1>6 DEF Prepare, fc, Fail
  <2>2. Upto(flash, 0) = <<>>
    BY <1>0 DEF Upto
  <2>. QED
    BY <1>0, <2>1, <2>2 DEF FlashKnown
<1>. QED
  BY <1>1, <1>2, <1>3, <1>4, <1>5, <1>6 DEF Next, ProcessStep, World

\* What holds at the start of each step of a run is known to be so.
LEMMA KnownHolds == Spec => [](Typed /\ FlashKnown)
<1>1. Init => Typed /\ FlashKnown
  BY TypedInit DEF Init, FlashKnown, Using, Reading
<1>2. Typed /\ FlashKnown /\ [Next]_vars => (Typed /\ FlashKnown)'
  BY TypedStep, FlashKnownStep
<1>. QED
  BY <1>1, <1>2, PTL DEF Spec

\* Types, for any number of units, sessions and unread summaries, in every mode.
THEOREM TypeCorrect == Spec => []TypeOK
BY KnownHolds, PTL DEF Typed

----------------------------------------------------------------------------
(* What the session of this run holds *)

\* Every step keeps what the session of this run holds.
LEMMA CopyKeptStep ==
    Typed /\ FlashKnown /\ CopyKept /\ [Next]_vars => CopyKept'
<1>. SUFFICES ASSUME Typed, FlashKnown, CopyKept, [Next]_vars PROVE CopyKept'
  OBVIOUS
<1>0. /\ flash \in Seq(Units) /\ hashed \in Seq(Units) /\ used \in Nat /\ linked \in BOOLEAN
      /\ sess \in [Sessions -> SessionSet] /\ made \in 0..MaxSessions
      /\ Len(flash) \in Nat /\ Len(hashed) \in Nat
  BY DEF Typed, TypeOK
<1>1. CASE Open \/ Identify \/ Query \/ CheckStorage \/ RemoveOldest \/ EndCleanup
           \/ ReadFail \/ RecordErase \/ Panic \/ Kill \/ PowerLoss \/ Start
  <2>1. pc' \notin {"read", "verify", "manifest", "decide", "erase", "poll", "record"}
    BY <1>1 DEF Open, Identify, Query, CheckStorage, RemoveOldest, EndCleanup, ReadFail,
       RecordErase, Panic, Kill, PowerLoss, Start, Fail, EndWith, Goto
  <2>. QED
    BY <2>1 DEF CopyKept
<1>2. CASE Unplug \/ FinishErase \/ UNCHANGED vars
  <2>1. UNCHANGED <<pc, mode, used, hashed, cur, sess, flash>>
    BY <1>2 DEF Unplug, FinishErase, vars, proc, fc, disk
  <2>. QED
    BY <2>1 DEF CopyKept, Saved
<1>3. CASE Prepare
  <2>1. CASE pc' = "off"
    BY <2>1 DEF CopyKept
  <2>2. CASE pc' # "off"
    <3>1. /\ pc' = "read" /\ hashed' = <<>> /\ UNCHANGED flash
          /\ cur' = made + 1 /\ made + 1 \in Sessions
          /\ sess' = [sess EXCEPT ![made + 1] = [NoSession EXCEPT !.dir = TRUE, !.file = TRUE]]
      BY <1>0, <1>3, <2>2, SyncAssumption DEF Prepare, Fail, Sessions, fc
    <3>2. /\ sess'[cur'].man = "none" /\ sess'[cur'].manDisk = "none"
          /\ sess'[cur'].cache = <<>> /\ sess'[cur'].disk = <<>>
      BY <1>0, <3>1 DEF NoSession
    <3>3. Upto(flash, 0) = <<>>
      BY <1>0 DEF Upto
    <3>. QED
      BY <1>0, <3>1, <3>2, <3>3 DEF CopyKept
  <2>. QED
    BY <2>1, <2>2
<1>4. CASE WriteChunk
  <2>1. PICK n \in Len(hashed) + 1 .. used :
          /\ hashed' = Upto(flash, n)
          /\ \/ \E k \in Len(sess[cur].cache) .. n - 1 :
                   sess' = [sess EXCEPT ![cur].cache = Upto(flash, k)]
             \/ sess' = [sess EXCEPT ![cur].cache = Upto(flash, n),
                                     ![cur].disk = Upto(flash, n)]
    BY <1>4 DEF WriteChunk
  <2>2. /\ cur \in Sessions /\ sess[cur] \in SessionSet /\ Len(sess[cur].cache) \in Nat
        /\ n \in 0..Len(flash) /\ pc = "read"
        /\ UNCHANGED <<pc, cur, flash>>
    BY <1>0, <1>4, <2>1
       DEF WriteChunk, Typed, FlashKnown, Using, fc, SessionSet, AnyLog
  <2>3. Len(Upto(flash, n)) = n
    BY <1>0, <2>2, UptoFacts
  <2>4. CASE sess' = [sess EXCEPT ![cur].cache = Upto(flash, n),
                                  ![cur].disk = Upto(flash, n)]
    <3>1. /\ sess'[cur].cache = Upto(flash, n) /\ sess'[cur].disk = Upto(flash, n)
          /\ sess'[cur].man = sess[cur].man /\ sess'[cur].manDisk = sess[cur].manDisk
      BY <1>0, <2>2, <2>4 DEF SessionSet
    <3>. QED
      BY <1>0, <2>1, <2>2, <2>3, <3>1 DEF CopyKept
  <2>5. ASSUME NEW k \in Len(sess[cur].cache) .. n - 1,
               sess' = [sess EXCEPT ![cur].cache = Upto(flash, k)]
        PROVE  CopyKept'
    <3>1. /\ sess'[cur].cache = Upto(flash, k) /\ sess'[cur].disk = sess[cur].disk
          /\ sess'[cur].man = sess[cur].man /\ sess'[cur].manDisk = sess[cur].manDisk
      BY <1>0, <2>2, <2>5 DEF SessionSet
    <3>2. k \in 0..Len(flash) /\ k # n
      BY <2>2
    <3>3. Len(Upto(flash, k)) = k
      BY <1>0, <3>2, UptoFacts
    <3>4. sess'[cur].cache # hashed'
      BY <2>1, <2>3, <3>1, <3>2, <3>3
    <3>. QED
      BY <1>0, <2>2, <3>1, <3>4 DEF CopyKept
  <2>. QED
    BY <2>1, <2>4, <2>5
<1>5. CASE ReadPanic
  <2>1. /\ cur \in Sessions /\ pc' = "verify" /\ pc = "read" /\ UNCHANGED <<cur, hashed>>
        /\ sess' \in {sess, Unlinked(cur)}
    BY <1>5 DEF ReadPanic, Typed, proc
  <2>2. CASE UNCHANGED sess
    BY <2>1, <2>2 DEF CopyKept
  <2>3. CASE sess' = Unlinked(cur)
    <3>1. /\ sess'[cur].cache = <<>> /\ sess'[cur].disk = <<>>
          /\ sess'[cur].man = sess[cur].man /\ sess'[cur].manDisk = sess[cur].manDisk
      BY <1>0, <2>1, <2>3 DEF Unlinked, SessionSet
    <3>. QED
      BY <2>1, <3>1 DEF CopyKept
  <2>. QED
    BY <2>1, <2>2, <2>3
<1>6. CASE CloseFile
  <2>1. CASE pc' = "off"
    BY <2>1 DEF CopyKept
  <2>2. CASE pc' # "off"
    <3>1. PICK log \in Stored(hashed) :
             sess' = [sess EXCEPT ![cur].cache = log, ![cur].disk = log]
      BY <1>6, <2>2 DEF CloseFile, Fail
    <3>2. cur \in Sessions /\ pc' = "verify" /\ pc = "read" /\ UNCHANGED <<cur, hashed>>
      BY <1>6, <2>2 DEF CloseFile, Fail, Typed, proc
    <3>3. /\ sess'[cur].cache = log /\ sess'[cur].disk = log
          /\ sess'[cur].man = sess[cur].man /\ sess'[cur].manDisk = sess[cur].manDisk
      BY <1>0, <3>1, <3>2 DEF SessionSet
    <3>. QED
      BY <3>2, <3>3 DEF CopyKept
  <2>. QED
    BY <2>1, <2>2
<1>7. CASE Verify
  BY <1>7 DEF Verify, Verified, Fail, proc, disk, CopyKept, Saved
<1>8. CASE WriteManifest
  <2>1. CASE pc' = "off"
    BY <2>1 DEF CopyKept
  <2>2. CASE pc' # "off"
    <3>1. PICK onDisk \in {"copied", sess[cur].manDisk} :
             sess' = [sess EXCEPT ![cur].man = "copied", ![cur].manDisk = onDisk,
                                  ![cur].sum = hashed]
      BY <1>8, <2>2 DEF WriteManifest, PutManifest, Fail
    <3>2. /\ cur \in Sessions /\ pc' = "decide" /\ pc = "manifest"
          /\ UNCHANGED <<cur, hashed, used>>
      BY <1>8, <2>2 DEF WriteManifest, Fail, Typed, proc
    <3>3. /\ sess'[cur].cache = sess[cur].cache /\ sess'[cur].disk = sess[cur].disk
          /\ sess'[cur].file = sess[cur].file
          /\ sess'[cur].man = "copied" /\ sess'[cur].sum = hashed
      BY <1>0, <3>1, <3>2 DEF SessionSet
    <3>. QED
      BY <3>2, <3>3 DEF CopyKept, Saved
  <2>. QED
    BY <2>1, <2>2
<1>9. CASE Decide
  BY <1>9 DEF Decide, EndWith, proc, disk, CopyKept, Saved
<1>10. CASE SendErase \/ Poll \/ EraseDeadline
  <2>1. /\ pc \in {"erase", "poll"} /\ pc' \in {"poll", "record"}
        /\ UNCHANGED <<mode, used, hashed, cur, sess>>
    BY <1>10, PollFacts DEF SendErase, Poll, EraseDeadline, proc, disk, Typed
  <2>. QED
    BY <2>1 DEF CopyKept, Saved
<1>11. CASE Fly
  <2>1. /\ flash' = Append(flash, recorded + 1)
        /\ UNCHANGED <<pc, mode, used, hashed, cur, sess>>
    BY <1>11 DEF Fly, proc, disk
  <2>2. ASSUME pc = "read"
        PROVE  /\ sess[cur].disk = Upto(flash', Len(sess[cur].disk))
               /\ Len(sess[cur].disk) <= Len(flash')
    <3>1. cur \in Sessions /\ Len(sess[cur].disk) \in 0..Len(flash)
      BY <1>0, <2>2 DEF Typed, CopyKept, SessionSet, AnyLog
    <3>2. Len(flash') = Len(flash) + 1
      BY <1>0, <2>1
    <3>. QED
      BY <1>0, <2>1, <2>2, <3>1, <3>2, UptoAppend DEF CopyKept
  <2>. QED
    BY <2>1, <2>2 DEF CopyKept, Saved
<1>. QED
  BY <1>1, <1>2, <1>3, <1>4, <1>5, <1>6, <1>7, <1>8, <1>9, <1>10, <1>11
     DEF Next, ProcessStep, World

\* What the run knows and holds, at each of its steps.
LEMMA CopyIsKept == Spec => [](Typed /\ FlashKnown /\ CopyKept)
<1>1. Init => Typed /\ FlashKnown /\ CopyKept
  BY TypedInit DEF Init, FlashKnown, Using, Reading, CopyKept
<1>2. Typed /\ FlashKnown /\ CopyKept /\ [Next]_vars => (Typed /\ FlashKnown /\ CopyKept)'
  BY TypedStep, FlashKnownStep, CopyKeptStep
<1>. QED
  BY <1>1, <1>2, PTL DEF Spec

\* The whole of a log is a beginning of it.
LEMMA UptoAll == ASSUME NEW log \in Seq(Units) PROVE Upto(log, Len(log)) = log
BY DEF Upto

\* Only SendErase empties a flash.
LEMMA EmptiedBySendErase ==
    ASSUME Typed, [Next]_vars, flash # <<>>, flash' = <<>>
    PROVE  SendErase
<1>1. CASE Fly
  <2>1. flash' = Append(flash, recorded + 1) /\ flash \in Seq(Units)
    BY <1>1 DEF Fly, Typed, TypeOK
  <2>2. Len(flash') = Len(flash) + 1
    BY <2>1
  <2>. QED
    BY <2>1, <2>2
<1>2. CASE \/ UNCHANGED vars \/ (ProcessStep /\ ~SendErase) \/ (World /\ ~Fly)
  BY <1>2 DEF vars, fc, ProcessStep, World, Open, Identify, Query, CheckStorage,
     RemoveOldest, EndCleanup, Prepare, WriteChunk, ReadFail, ReadPanic, CloseFile, Verify,
     WriteManifest, Decide, Poll, EraseDeadline, RecordErase, Panic, Start, Unplug,
     FinishErase, Kill, PowerLoss
<1>. QED
  BY <1>1, <1>2 DEF Next

\* RELEASE_PLAN.md:20, for every instance: the FC is told to erase only by a run
\* that was asked to, once its session holds all of the flash, durably and under
\* its hash.
THEOREM ErasesAreSafe == Spec => EraseOnlyArchived
<1>1. Typed /\ FlashKnown /\ CopyKept /\ [Next]_vars =>
         [(flash # <<>> /\ flash' = <<>>) =>
              /\ mode = "erase"
              /\ sess[cur].disk = flash
              /\ sess[cur].man = "copied" /\ sess[cur].sum = flash]_vars
  <2>. SUFFICES ASSUME Typed, FlashKnown, CopyKept, [Next]_vars, flash # <<>>, flash' = <<>>
                PROVE  /\ mode = "erase"
                       /\ sess[cur].disk = flash
                       /\ sess[cur].man = "copied" /\ sess[cur].sum = flash
    OBVIOUS
  <2>1. SendErase
    BY EmptiedBySendErase
  <2>2. pc = "erase" /\ linked
    BY <2>1 DEF SendErase
  <2>3. hashed = flash
    BY <2>2, UptoAll DEF Typed, TypeOK, FlashKnown, Using, Reading, CopyKept
  <2>. QED
    BY <2>2, <2>3 DEF CopyKept, Saved
<1>. QED
  BY <1>1, CopyIsKept, PTL DEF Spec, EraseOnlyArchived

----------------------------------------------------------------------------
(* What becomes of the sessions *)

Listed(s) == sess[s].man # "none" =>
                \/ sess[s].file /\ sess[s].disk = sess[s].sum /\ sess[s].cache = sess[s].sum
                \/ ~sess[s].file /\ Content(sess[s].sum) \subseteq reclaimed

TidyAt(s) == /\ s > made => Blank(s)
             /\ sess[s].manDisk # "none" => sess[s].man # "none"

Fine(s) == Listed(s) /\ TidyAt(s)

\* Tidy and ManifestMeansComplete, session by session.
LEMMA FineMeans == (Tidy /\ ManifestMeansComplete) <=> \A s \in Sessions : Fine(s)
BY DEF Tidy, ManifestMeansComplete, Fine, Listed, TidyAt

\* Every step leaves every session fine: RemoveOldest and PowerLoss touch sessions
\* of earlier runs, all other steps only this run's.
LEMMA SessionsStep ==
    ASSUME Typed, FlashKnown, CopyKept, \A s \in Sessions : Fine(s), [Next]_vars,
           NEW t \in Sessions
    PROVE  Fine(t)'
<1>. USE DEF Fine, Listed, TidyAt, Blank
<1>0. /\ sess \in [Sessions -> SessionSet] /\ made \in 0..MaxSessions /\ cur \in 0..made
      /\ sess[t] \in SessionSet
  BY DEF Typed, TypeOK
<1>1. CASE \/ Open \/ Identify \/ Query \/ CheckStorage \/ EndCleanup \/ Verify \/ Decide
           \/ SendErase \/ Poll \/ EraseDeadline \/ Panic \/ Kill \/ Start \/ Unplug
           \/ Fly \/ FinishErase \/ UNCHANGED vars
  <2>1. UNCHANGED <<sess, made, reclaimed>>
    BY <1>1 DEF Open, Identify, Query, CheckStorage, EndCleanup, Verify, Decide, SendErase,
       Poll, EraseDeadline, Panic, Kill, Start, Unplug, Fly, FinishErase, vars, disk
  <2>. QED
    BY <2>1
<1>2. CASE RemoveOldest
  <2>1. PICK s \in Present :
           \/ /\ sess' \in {[sess EXCEPT ![s] = NoSession], Unlinked(s)}
              /\ reclaimed' = reclaimed \cup (Content(sess[s].disk) \ {Bad})
           \/ /\ sess' = [sess EXCEPT ![s].man = "none", ![s].manDisk = "none",
                                      ![s].sum = <<>>]
              /\ UNCHANGED reclaimed
    BY <1>2 DEF RemoveOldest, Oldest
  <2>2. s \in Sessions /\ s <= made /\ UNCHANGED made /\ reclaimed \subseteq reclaimed'
    <3>1. s \in Sessions /\ sess[s].dir
      BY <2>1 DEF Present
    <3>2. ~(s > made)
      BY <3>1
    <3>3. s \in Int /\ made \in Int /\ UNCHANGED made
      BY <1>0, <1>2, <3>1 DEF RemoveOldest, Sessions
    <3>. QED
      BY <2>1, <3>1, <3>2, <3>3
  <2>3. CASE t # s
    <3>1. sess'[t] = sess[t]
      BY <1>0, <2>1, <2>2, <2>3 DEF Unlinked
    <3>. QED
      BY <2>2, <3>1
  <2>4. CASE t = s /\ sess' = [sess EXCEPT ![s] = NoSession]
    BY <1>0, <2>2, <2>4 DEF NoSession
  <2>5. CASE /\ t = s /\ sess' = Unlinked(s)
             /\ reclaimed' = reclaimed \cup (Content(sess[s].disk) \ {Bad})
    <3>1. /\ ~sess'[s].file /\ sess'[s].sum = sess[s].sum
          /\ sess'[s].man = sess[s].man /\ sess'[s].manDisk = sess[s].manDisk
      BY <1>0, <2>2, <2>5 DEF Unlinked, SessionSet
    <3>2. Bad \notin Content(sess[s].sum)
      <4>1. sess[s].sum \in Seq(Units) /\ Bad \notin Units
        BY <1>0, <2>5 DEF SessionSet, Bad, Units
      <4>. QED
        BY <4>1 DEF Content
    <3>3. sess[s].man # "none" => Content(sess[s].sum) \subseteq reclaimed'
      BY <2>5, <3>2
    <3>4. sess'[s].man # "none" => Content(sess'[s].sum) \subseteq reclaimed'
      BY <3>1, <3>3
    <3>5. ~(s > made') /\ (sess'[s].manDisk # "none" => sess'[s].man # "none")
      BY <1>0, <2>2, <2>5, <3>1 DEF Sessions
    <3>. QED
      BY <2>5, <3>1, <3>4, <3>5
  <2>6. CASE /\ t = s
             /\ sess' = [sess EXCEPT ![s].man = "none", ![s].manDisk = "none",
                                     ![s].sum = <<>>]
    <3>1. sess'[s].man = "none" /\ sess'[s].manDisk = "none"
      BY <1>0, <2>2, <2>6 DEF SessionSet
    <3>2. ~(s > made')
      BY <1>0, <2>2 DEF Sessions
    <3>. QED
      BY <2>6, <3>1, <3>2
  <2>. QED
    BY <2>1, <2>3, <2>4, <2>5, <2>6
<1>3. CASE Prepare
  <2>1. CASE UNCHANGED <<sess, made>>
    BY <1>3, <2>1 DEF Prepare
  <2>2. ASSUME NEW x, x.man = "none", x.manDisk = "none",
               sess' = [sess EXCEPT ![made + 1] = x], made' = made + 1,
               UNCHANGED reclaimed
        PROVE  Fine(t)'
    <3>1. CASE t = made + 1
      BY <1>0, <2>2, <3>1
    <3>2. CASE t # made + 1
      BY <1>0, <2>2, <3>2 DEF Sessions
    <3>. QED
      BY <3>1, <3>2
  <2>. DEFINE fresh == [NoSession EXCEPT !.dir = TRUE]
              ready == [NoSession EXCEPT !.dir = TRUE, !.file = TRUE]
  <2>3. /\ fresh.man = "none" /\ fresh.manDisk = "none"
        /\ ready.man = "none" /\ ready.manDisk = "none"
    BY DEF NoSession
  <2>4. CASE made' = made + 1 /\ UNCHANGED reclaimed /\
             (\/ sess' = [sess EXCEPT ![made + 1] = ready]
              \/ sess' = [sess EXCEPT ![made + 1] = fresh])
    BY <2>2, <2>3, <2>4
  <2>. QED
    BY <1>3, <2>1, <2>4 DEF Prepare, Fail
<1>4. CASE WriteChunk \/ ReadFail \/ ReadPanic \/ CloseFile
  <2>1. /\ cur \in Sessions /\ cur <= made /\ UNCHANGED <<made, reclaimed>>
        /\ sess[cur].man = "none" /\ sess[cur].manDisk = "none" /\ sess[cur] \in SessionSet
    BY <1>0, <1>4 DEF WriteChunk, ReadFail, ReadPanic, CloseFile, Typed, CopyKept
  <2>2. CASE UNCHANGED sess
    BY <2>1, <2>2
  <2>3. CASE sess' = Unlinked(cur)
    BY <1>0, <2>1, <2>3 DEF Unlinked, SessionSet
  <2>4. ASSUME NEW c, NEW d,
               sess' = [sess EXCEPT ![cur].cache = c, ![cur].disk = d]
        PROVE  Fine(t)'
    BY <1>0, <2>1, <2>4 DEF SessionSet
  <2>5. ASSUME NEW c, sess' = [sess EXCEPT ![cur].cache = c] PROVE Fine(t)'
    BY <1>0, <2>1, <2>5 DEF SessionSet
  <2>. QED
    <3>1. CASE ReadFail \/ ReadPanic
      BY <2>2, <2>3, <3>1 DEF ReadFail, ReadPanic
    <3>2. CASE WriteChunk
      BY <2>4, <2>5, <3>2 DEF WriteChunk
    <3>3. CASE CloseFile
      <4>1. PICK log : \/ sess' = [sess EXCEPT ![cur].cache = log, ![cur].disk = log]
                       \/ sess' = [sess EXCEPT ![cur].cache = log]
        BY <3>3 DEF CloseFile
      <4>. QED
        BY <2>4, <2>5, <4>1
    <3>. QED
      BY <1>4, <3>1, <3>2, <3>3
<1>5. CASE WriteManifest \/ RecordErase
  <2>1. /\ cur \in Sessions /\ cur <= made /\ UNCHANGED <<made, reclaimed>>
        /\ sess[cur].file /\ sess[cur].cache = hashed /\ sess[cur].disk = hashed
        /\ sess[cur] \in SessionSet
    BY <1>0, <1>5 DEF WriteManifest, RecordErase, Typed, CopyKept, Saved
  <2>2. CASE UNCHANGED sess
    BY <2>1, <2>2
  <2>3. ASSUME NEW m \in {"copied", "erased", "attempted"}, PutManifest(m)
        PROVE  Fine(t)'
    <3>1. PICK onDisk : sess' = [sess EXCEPT ![cur].man = m, ![cur].manDisk = onDisk,
                                             ![cur].sum = hashed]
      BY <2>3 DEF PutManifest
    <3>2. CASE t = cur
      BY <1>0, <2>1, <3>1, <3>2 DEF SessionSet
    <3>3. CASE t # cur
      BY <1>0, <2>1, <3>1, <3>3
    <3>. QED
      BY <3>2, <3>3
  <2>. QED
    BY <1>5, <2>2, <2>3 DEF WriteManifest, RecordErase
<1>6. CASE PowerLoss
  <2>1. PICK lost \in SUBSET Present :
             sess' = [s \in Sessions |->
                     IF s \in lost
                     THEN [sess[s] EXCEPT !.cache = sess[s].disk, !.man = sess[s].manDisk]
                     ELSE [sess[s] EXCEPT !.disk = sess[s].cache, !.manDisk = sess[s].man]]
    BY <1>6 DEF PowerLoss
  <2>2. UNCHANGED <<made, reclaimed>>
    BY <1>6 DEF PowerLoss
  <2>3. CASE t \in lost
    <3>1. sess[t].dir
      BY <2>3 DEF Present
    <3>2. ~(t > made)
      BY <3>1
    <3>3. sess'[t] = [sess[t] EXCEPT !.cache = sess[t].disk, !.man = sess[t].manDisk]
      BY <2>1, <2>3
    <3>4. /\ sess'[t].man = sess[t].manDisk /\ sess'[t].manDisk = sess[t].manDisk
          /\ sess'[t].cache = sess[t].disk /\ sess'[t].disk = sess[t].disk
          /\ sess'[t].sum = sess[t].sum /\ sess'[t].file = sess[t].file
      BY <1>0, <3>3 DEF SessionSet
    <3>. QED
      BY <2>2, <3>2, <3>4
  <2>4. CASE t \notin lost
    <3>1. sess'[t] = [sess[t] EXCEPT !.disk = sess[t].cache, !.manDisk = sess[t].man]
      BY <2>1, <2>4
    <3>3. sess'[t].dir = sess[t].dir
      BY <1>0, <3>1 DEF SessionSet
    <3>4. /\ sess'[t].man = sess[t].man /\ sess'[t].manDisk = sess[t].man
          /\ sess'[t].cache = sess[t].cache /\ sess'[t].disk = sess[t].cache
          /\ sess'[t].sum = sess[t].sum /\ sess'[t].file = sess[t].file
      BY <1>0, <3>1 DEF SessionSet
    <3>. QED
      BY <2>2, <3>3, <3>4
  <2>. QED
    BY <2>3, <2>4
<1>. QED
  BY <1>1, <1>2, <1>3, <1>4, <1>5, <1>6 DEF Next, ProcessStep, World

\* ... hence they always are.
LEMMA SessionsAreTidy ==
    Spec => [](Typed /\ FlashKnown /\ CopyKept /\ Tidy /\ ManifestMeansComplete)
<1>1. Init => Tidy /\ ManifestMeansComplete
  BY DEF Init, Tidy, Blank, ManifestMeansComplete, NoSession
<1>2. Typed /\ FlashKnown /\ CopyKept /\ Tidy /\ ManifestMeansComplete /\ [Next]_vars
         => (Tidy /\ ManifestMeansComplete)'
  <2>. SUFFICES ASSUME Typed, FlashKnown, CopyKept, Tidy, ManifestMeansComplete, [Next]_vars
                PROVE  (Tidy /\ ManifestMeansComplete)'
    OBVIOUS
  <2>1. \A s \in Sessions : Fine(s)
    BY FineMeans
  <2>2. \A s \in Sessions : Fine(s)'
    BY <2>1, SessionsStep
  <2>. QED
    BY <2>2 DEF Tidy, ManifestMeansComplete, Fine, Listed, TidyAt
<1>. QED
  BY <1>1, <1>2, CopyIsKept, PTL DEF Spec

\* Also after a power loss or a killed deletion, for every instance: a listed
\* session holds on disk what its manifest gives the hash of, or its units are
\* among those given up to make room.
THEOREM ManifestsAreTrue == Spec => []ManifestMeansComplete
BY SessionsAreTidy, PTL

----------------------------------------------------------------------------
(* Where every unit is *)

\* The units of a beginning of a log are units of the log.
LEMMA ContentOfUpto ==
    ASSUME NEW log \in Seq(Units), NEW n \in 0..Len(log)
    PROVE  Content(Upto(log, n)) \subseteq Content(log)
<1>1. /\ Len(Upto(log, n)) = n
      /\ \A i \in 1..n : Upto(log, n)[i] = log[i] /\ i \in 1..Len(log)
  BY UptoFacts
<1>. QED
  BY <1>1 DEF Content

\* Flying adds one unit to a log.
LEMMA ContentOfAppend ==
    ASSUME NEW log \in Seq(Units), NEW x \in Units
    PROVE  x \in Content(Append(log, x)) /\ Content(log) \subseteq Content(Append(log, x))
<1>1. /\ Len(Append(log, x)) = Len(log) + 1 /\ Len(log) \in Nat
      /\ \A i \in 1..Len(log) : Append(log, x)[i] = log[i] /\ i \in 1..Len(log) + 1
      /\ Append(log, x)[Len(log) + 1] = x /\ Len(log) + 1 \in 1..Len(log) + 1
  BY AppendProperties
<1>. QED
  BY <1>1 DEF Content

Settled(u, s) == sess[s].cache = sess[s].disk /\ u \in Content(sess[s].disk)

Somewhere(u) == u \in OnFC \/ (\E s \in Sessions : Settled(u, s)) \/ u \in reclaimed

\* EveryUnitKept, unit by unit.
LEMMA SomewhereMeans == EveryUnitKept <=> \A u \in 1..recorded : Somewhere(u)
BY DEF EveryUnitKept, Kept, Somewhere, Settled

\* A unit stays where it is when the logs of the sessions do, and the flash.
LEMMA StaysPut ==
    ASSUME NEW u, Somewhere(u), UNCHANGED <<flash, reclaimed>>,
           \A s \in Sessions : /\ sess'[s].cache = sess[s].cache
                               /\ sess'[s].disk = sess[s].disk
    PROVE  Somewhere(u)'
BY DEF Somewhere, Settled, OnFC

\* ... and when only a session changes whose units are all on the flash.
LEMMA StaysOnFlash ==
    ASSUME NEW u, Somewhere(u), UNCHANGED <<flash, reclaimed>>, NEW c \in Sessions,
           Content(sess[c].disk) \subseteq OnFC,
           \A s \in Sessions \ {c} : sess'[s] = sess[s]
    PROVE  Somewhere(u)'
BY DEF Somewhere, Settled, OnFC

\* No step loses a unit: SendErase deletes units that the session keeps, and
\* RemoveOldest those it counts as reclaimed.
LEMMA UnitsStep ==
    ASSUME Typed, FlashKnown, CopyKept, Tidy, EveryUnitKept, [Next]_vars,
           NEW u \in 1..recorded'
    PROVE  Somewhere(u)'
<1>0. /\ sess \in [Sessions -> SessionSet] /\ made \in 0..MaxSessions /\ cur \in 0..made
      /\ flash \in Seq(Units) /\ hashed \in Seq(Units) /\ recorded \in 0..MaxUnits
  BY DEF Typed, TypeOK
<1>1. CASE Fly
  <2>1. /\ recorded' = recorded + 1 /\ recorded' \in Units /\ UNCHANGED <<sess, reclaimed>>
        /\ flash' = Append(flash, recorded')
    BY <1>0, <1>1, SyncAssumption DEF Fly, disk, Units
  <2>2. recorded' \in OnFC' /\ OnFC \subseteq OnFC'
    BY <1>0, <2>1, ContentOfAppend DEF OnFC
  <2>3. u = recorded' \/ u \in 1..recorded
    BY <1>0, <2>1
  <2>. QED
    BY <2>1, <2>2, <2>3, SomewhereMeans DEF Somewhere, Settled
<1>2. CASE ~Fly
  <2>1. recorded' = recorded
    BY <1>2 DEF Next, ProcessStep, World, Open, Identify, Query, CheckStorage, RemoveOldest,
       EndCleanup, Prepare, WriteChunk, ReadFail, ReadPanic, CloseFile, Verify,
       WriteManifest, Decide, SendErase, Poll, EraseDeadline, RecordErase, Panic, Start,
       Unplug, FinishErase, Kill, PowerLoss, vars
  <2>2. Somewhere(u) /\ u # Bad
    BY <1>0, <2>1, SomewhereMeans DEF Bad
  <2>3. CASE SendErase
    <3>1. UNCHANGED <<sess, reclaimed>>
      BY <2>3 DEF SendErase, disk
    <3>2. CASE UNCHANGED flash
      BY <2>2, <3>1, <3>2, StaysPut
    <3>3. CASE flash' # flash
      <4>1. pc = "erase" /\ linked
        BY <2>3, <3>3 DEF SendErase
      <4>2. hashed = flash
        BY <4>1, UptoAll DEF Typed, TypeOK, FlashKnown, Using, Reading, CopyKept
      <4>3. cur \in Sessions /\ sess[cur].cache = flash /\ sess[cur].disk = flash
        BY <4>1, <4>2 DEF Typed, CopyKept, Saved
      <4>. QED
        BY <2>2, <3>1, <4>3 DEF Somewhere, Settled, OnFC
    <3>. QED
      BY <3>2, <3>3
  <2>4. CASE RemoveOldest
    <3>1. PICK s \in Sessions :
             \/ /\ sess' \in {[sess EXCEPT ![s] = NoSession], Unlinked(s)}
                /\ reclaimed' = reclaimed \cup (Content(sess[s].disk) \ {Bad})
             \/ /\ sess' = [sess EXCEPT ![s].man = "none", ![s].manDisk = "none",
                                        ![s].sum = <<>>]
                /\ UNCHANGED reclaimed
      BY <2>4 DEF RemoveOldest, Oldest, Present
    <3>2. UNCHANGED flash
      BY <2>4 DEF RemoveOldest, fc
    <3>3. CASE /\ \A r \in Sessions \ {s} : sess'[r] = sess[r]
               /\ reclaimed' = reclaimed \cup (Content(sess[s].disk) \ {Bad})
      BY <2>2, <3>2, <3>3 DEF Somewhere, Settled, OnFC
    <3>4. CASE /\ sess' = [sess EXCEPT ![s].man = "none", ![s].manDisk = "none",
                                       ![s].sum = <<>>]
               /\ UNCHANGED reclaimed
      <4>1. \A r \in Sessions : /\ sess'[r].cache = sess[r].cache
                                /\ sess'[r].disk = sess[r].disk
        BY <1>0, <3>4 DEF SessionSet
      <4>. QED
        BY <2>2, <3>2, <3>4, <4>1, StaysPut
    <3>. QED
      BY <1>0, <3>1, <3>3, <3>4 DEF Unlinked
  <2>5. CASE Prepare
    <3>1. UNCHANGED <<flash, reclaimed>>
      BY <2>5 DEF Prepare, fc
    <3>2. CASE UNCHANGED sess
      BY <2>2, <3>1, <3>2, StaysPut
    <3>3. CASE made < MaxSessions /\ \E x : sess' = [sess EXCEPT ![made + 1] = x]
      <4>1. made + 1 \in Sessions /\ made + 1 > made
        BY <1>0, <3>3, SyncAssumption DEF Sessions
      <4>2. sess[made + 1].disk = <<>>
        BY <4>1 DEF Tidy, Blank
      <4>3. Content(<<>>) = {}
        BY DEF Content
      <4>4. \A r \in Sessions \ {made + 1} : sess'[r] = sess[r]
        BY <1>0, <3>3, <4>1
      <4>. QED
        BY <2>2, <3>1, <4>1, <4>2, <4>3, <4>4, StaysOnFlash
    <3>. QED
      BY <2>5, <3>2, <3>3 DEF Prepare
  <2>6. CASE WriteChunk \/ ReadFail \/ ReadPanic \/ CloseFile
    <3>1. /\ pc = "read" /\ cur \in Sessions /\ UNCHANGED <<flash, reclaimed>>
      BY <2>6 DEF WriteChunk, ReadFail, ReadPanic, CloseFile, Typed, fc
    <3>2. Content(sess[cur].disk) \subseteq OnFC
      <4>1. /\ sess[cur].disk = Upto(flash, Len(sess[cur].disk))
            /\ Len(sess[cur].disk) \in 0..Len(flash)
        BY <1>0, <3>1 DEF CopyKept, SessionSet, AnyLog
      <4>. QED
        BY <1>0, <4>1, ContentOfUpto DEF OnFC
    <3>3. \A r \in Sessions \ {cur} : sess'[r] = sess[r]
      <4>1. CASE WriteChunk
        BY <1>0, <4>1 DEF WriteChunk
      <4>2. CASE ReadFail \/ ReadPanic
        BY <1>0, <4>2 DEF ReadFail, ReadPanic, Unlinked
      <4>3. CASE CloseFile
        BY <1>0, <4>3 DEF CloseFile
      <4>. QED
        BY <2>6, <4>1, <4>2, <4>3
    <3>. QED
      BY <2>2, <3>1, <3>2, <3>3, StaysOnFlash
  <2>7. CASE WriteManifest \/ RecordErase
    <3>1. UNCHANGED <<flash, reclaimed>>
      BY <2>7 DEF WriteManifest, RecordErase, fc
    <3>2. \A r \in Sessions : /\ sess'[r].cache = sess[r].cache
                              /\ sess'[r].disk = sess[r].disk
      <4>1. CASE UNCHANGED sess
        BY <4>1
      <4>2. ASSUME NEW m, PutManifest(m)
            PROVE  \A r \in Sessions : /\ sess'[r].cache = sess[r].cache
                                       /\ sess'[r].disk = sess[r].disk
        BY <1>0, <4>2 DEF PutManifest, SessionSet
      <4>. QED
        BY <2>7, <4>1, <4>2 DEF WriteManifest, RecordErase
    <3>. QED
      BY <2>2, <3>1, <3>2, StaysPut
  <2>8. CASE PowerLoss
    <3>1. PICK lost \in SUBSET Present :
             sess' = [s \in Sessions |->
                     IF s \in lost
                     THEN [sess[s] EXCEPT !.cache = sess[s].disk, !.man = sess[s].manDisk]
                     ELSE [sess[s] EXCEPT !.disk = sess[s].cache, !.manDisk = sess[s].man]]
      BY <2>8 DEF PowerLoss
    <3>2. UNCHANGED <<flash, reclaimed>>
      BY <2>8 DEF PowerLoss
    <3>3. ASSUME NEW s \in Sessions, sess[s].cache = sess[s].disk
          PROVE  sess'[s].cache = sess[s].disk /\ sess'[s].disk = sess[s].disk
      BY <1>0, <3>1, <3>3 DEF SessionSet
    <3>. QED
      BY <2>2, <3>2, <3>3 DEF Somewhere, Settled, OnFC
  <2>9. CASE \/ Open \/ Identify \/ Query \/ CheckStorage \/ EndCleanup \/ Verify \/ Decide
             \/ Poll \/ EraseDeadline \/ Panic \/ Kill \/ Start \/ Unplug
             \/ FinishErase \/ UNCHANGED vars
    <3>1. UNCHANGED <<sess, reclaimed, flash>>
      BY <2>9 DEF Open, Identify, Query, CheckStorage, EndCleanup, Verify, Decide, fc,
         Poll, EraseDeadline, Panic, Kill, Start, Unplug, FinishErase, vars, disk
    <3>. QED
      BY <2>2, <3>1, StaysPut
  <2>. QED
    BY <1>2, <2>3, <2>4, <2>5, <2>6, <2>7, <2>8, <2>9 DEF Next, ProcessStep, World
<1>. QED
  BY <1>1, <1>2

\* For every instance: every unit ever recorded is on the FC, or durably on the
\* SD card, or was deleted to make room, whatever fails and however often.
THEOREM NothingIsLost == Spec => []NothingLost
<1>1. Init => EveryUnitKept
  BY DEF Init, EveryUnitKept
<1>2. Typed /\ FlashKnown /\ CopyKept /\ Tidy /\ EveryUnitKept /\ [Next]_vars
         => EveryUnitKept'
  <2>. SUFFICES ASSUME Typed, FlashKnown, CopyKept, Tidy, EveryUnitKept, [Next]_vars
                PROVE  EveryUnitKept'
    OBVIOUS
  <2>1. \A u \in 1..recorded' : Somewhere(u)'
    BY UnitsStep
  <2>. QED
    BY <2>1 DEF EveryUnitKept, Kept, Somewhere, Settled
<1>3. Typed /\ EveryUnitKept => NothingLost
  <2>. SUFFICES ASSUME Typed, EveryUnitKept, NEW u \in 1..recorded
                PROVE  u \in OnFC \cup Archived \cup reclaimed
    BY DEF NothingLost
  <2>1. u # Bad
    BY DEF Typed, TypeOK, Bad
  <2>2. Somewhere(u)
    BY SomewhereMeans
  <2>3. ASSUME NEW s \in Sessions, Settled(u, s) PROVE u \in Archived
    <3>1. u \in Content(sess[s].disk)
      BY <2>3 DEF Settled
    <3>2. u \in UNION {Content(sess[t].disk) : t \in Sessions}
      BY <3>1
    <3>. QED
      BY <2>1, <3>2 DEF Archived
  <2>. QED
    BY <2>2, <2>3 DEF Somewhere
<1>. QED
  BY <1>1, <1>2, <1>3, SessionsAreTidy, PTL DEF Spec

----------------------------------------------------------------------------
(* What is said of the erase *)

\* The content of a log of this run is never among what is flown later.
LEMMA FlownLater ==
    ASSUME Typed, Fly, NEW log \in Seq(Units), Below(log, recorded),
           Content(log) \cap OnFC = {}
    PROVE  Content(log) \cap OnFC' = {}
<1>1. recorded \in Nat /\ flash \in Seq(Units) /\ flash' = Append(flash, recorded + 1)
  BY DEF Fly, Typed, TypeOK
<1>2. \A x \in Content(log) : x <= recorded
  BY DEF Content, Below
<1>3. OnFC' \subseteq OnFC \cup {recorded + 1}
  <2>1. /\ Len(flash') = Len(flash) + 1 /\ Len(flash) \in Nat
        /\ \A i \in 1..Len(flash) : flash'[i] = flash[i]
        /\ flash'[Len(flash) + 1] = recorded + 1
    BY <1>1, AppendProperties
  <2>. QED
    BY <2>1 DEF OnFC, Content
<1>. QED
  BY <1>1, <1>2, <1>3

\* Nothing is on an empty flash.
LEMMA EmptyFlash == flash = <<>> => OnFC = {}
BY DEF OnFC, Content

\* Gone: what a true summary says of the log of this run.
Gone == /\ Content(hashed) \cap OnFC = {}
        /\ linked => flash = <<>> /\ ~busy

Told == (pc = "poll" /\ \E i \in 1..Len(mail) : mail[i]) \/ (pc = "record" /\ eraseOK)

\* A summary that said "empty and ready" stays true of what was hashed.
LEMMA ToldStep ==
    ASSUME Typed, SummariesTrue, [Next]_vars, Told'
    PROVE  Gone'
<1>0. (Told => Gone) /\ mail \in Seq(BOOLEAN) /\ hashed \in Seq(Units)
      /\ linked \in BOOLEAN /\ busy \in BOOLEAN
  BY DEF SummariesTrue, Told, Gone, Typed, TypeOK
<1>1. CASE Poll
  <2>1. /\ \/ EmptyAndReady
           \/ \E j \in 1..Len(mail) : mail[j]
        /\ pc = "poll"
    BY <1>1, PollFacts DEF Told, Typed
  <2>2. UNCHANGED <<hashed, flash, busy, linked>>
    BY <1>1 DEF Poll
  <2>3. Gone
    BY <1>0, <2>1, EmptyFlash DEF Told, Gone, EmptyAndReady
  <2>. QED
    BY <2>2, <2>3 DEF Gone, OnFC
<1>2. CASE SendErase
  <2>1. /\ eraseOK' = FALSE /\ UNCHANGED mail /\ mail = <<>>
    BY <1>2 DEF SendErase, SummariesTrue
  <2>. QED
    BY <2>1 DEF Told
<1>3. CASE EraseDeadline
  BY <1>3 DEF EraseDeadline, SummariesTrue, Told, proc
<1>4. CASE Fly
  <2>1. Told /\ UNCHANGED <<hashed, linked>> /\ ~linked
    BY <1>4 DEF Fly, Told, proc
  <2>2. Content(hashed) \cap OnFC' = {}
    BY <1>0, <1>4, <2>1, FlownLater DEF Typed, Gone
  <2>. QED
    BY <2>1, <2>2 DEF Gone
<1>5. CASE Unplug
  <2>1. UNCHANGED <<pc, eraseOK, hashed, flash>> /\ linked' = FALSE /\ mail' = <<>>
    BY <1>5 DEF Unplug, proc
  <2>. QED
    BY <1>0, <2>1 DEF Told, Gone, OnFC
<1>6. CASE FinishErase
  <2>1. UNCHANGED <<pc, eraseOK, hashed, flash, linked, mail>> /\ busy' = FALSE
    BY <1>6 DEF FinishErase, proc
  <2>. QED
    BY <1>0, <2>1 DEF Told, Gone, OnFC
<1>7. CASE UNCHANGED vars
  BY <1>0, <1>7 DEF Told, Gone, OnFC, vars, proc, fc
<1>8. CASE \/ Open \/ Identify \/ Query \/ CheckStorage \/ RemoveOldest \/ EndCleanup
           \/ Prepare \/ WriteChunk \/ ReadFail \/ ReadPanic \/ CloseFile \/ Verify
           \/ WriteManifest \/ Decide \/ RecordErase \/ Panic \/ Start \/ Kill \/ PowerLoss
  <2>1. pc' \notin {"poll", "record"}
    BY <1>8 DEF Open, Identify, Query, CheckStorage, RemoveOldest, EndCleanup, Prepare,
       WriteChunk, ReadFail, ReadPanic, CloseFile, Verify, WriteManifest, Decide,
       RecordErase, Panic, Start, Kill, PowerLoss, Fail, EndWith, Goto
  <2>. QED
    BY <2>1 DEF Told
<1>. QED
  BY <1>1, <1>2, <1>3, <1>4, <1>5, <1>6, <1>7, <1>8 DEF Next, ProcessStep, World

Early == {"open", "identify", "query", "storage", "cleanup", "prepare", "read",
          "verify", "manifest", "decide", "erase"}

\* The other parts of SummariesTrue.
LEMMA EarlyStep ==
    ASSUME Typed, SummariesTrue, [Next]_vars
    PROVE  /\ pc' \in Early => mail' = <<>>
           /\ pc' = "poll" => ~eraseOK'
           /\ pc' # "off" => result' # "success"
<1>0. /\ pc \in Early => mail = <<>>
      /\ pc = "poll" => ~eraseOK
      /\ pc # "off" => result # "success"
      /\ eraseOK \in BOOLEAN
  BY DEF SummariesTrue, Early, Typed, TypeOK
<1>1. CASE Poll
  <2>1. /\ pc = "poll" /\ UNCHANGED result /\ pc' \in {"poll", "record"}
        /\ pc' = "poll" => eraseOK' = FALSE \/ eraseOK' = eraseOK
    BY <1>1, PollFacts DEF Poll, shown, Typed
  <2>. QED
    BY <1>0, <2>1 DEF Early
<1>2. CASE SendErase \/ EraseDeadline
  BY <1>0, <1>2 DEF SendErase, EraseDeadline, shown, Early
<1>3. CASE Start \/ Unplug \/ Kill \/ PowerLoss \/ RecordErase \/ Panic
  <2>1. CASE Start
    BY <2>1 DEF Start
  <2>2. CASE Unplug
    <3>1. UNCHANGED <<pc, eraseOK, result>> /\ mail' = <<>>
      BY <2>2 DEF Unplug, proc, shown
    <3>. QED
      BY <1>0, <3>1
  <2>3. CASE Kill \/ PowerLoss \/ RecordErase \/ Panic
    <3>1. pc' = "off"
      BY <2>3 DEF Kill, PowerLoss, RecordErase, Panic, Fail, EndWith
    <3>. QED
      BY <3>1 DEF Early
  <2>. QED
    BY <1>3, <2>1, <2>2, <2>3
<1>4. CASE Fly \/ FinishErase \/ UNCHANGED vars
  <2>1. UNCHANGED <<pc, mail, eraseOK, result>>
    BY <1>4 DEF Fly, FinishErase, vars, proc, shown, fc
  <2>. QED
    BY <1>0, <2>1
<1>5. CASE \/ Open \/ Identify \/ Query \/ CheckStorage \/ RemoveOldest \/ EndCleanup
           \/ Prepare \/ WriteChunk \/ ReadFail \/ ReadPanic \/ CloseFile \/ Verify
           \/ WriteManifest \/ Decide
  <2>1. /\ pc \in Early /\ UNCHANGED mail /\ pc' \in Early \cup {"off"}
        /\ pc' = "off" \/ UNCHANGED result
    BY <1>5 DEF Open, Identify, Query, CheckStorage, RemoveOldest, EndCleanup, Prepare,
       WriteChunk, ReadFail, ReadPanic, CloseFile, Verify, WriteManifest, Decide,
       Fail, EndWith, Goto, shown, fc, Early
  <2>. QED
    BY <1>0, <2>1 DEF Early
<1>. QED
  BY <1>1, <1>2, <1>3, <1>4, <1>5 DEF Next, ProcessStep, World

\* The sessions, as far as the erase is concerned.
ErasedAt(s) == /\ sess[s].manDisk = "erased" => sess[s].man = "erased"
               /\ sess[s].man = "erased" => Content(sess[s].sum) \cap OnFC = {}

\* No step makes a recorded erase untrue: new units are none of the old ones.
LEMMA ErasedStep ==
    ASSUME Typed, CopyKept, SummariesTrue, ErasedMeansGone, [Next]_vars,
           NEW t \in Sessions
    PROVE  ErasedAt(t)'
<1>. USE DEF ErasedAt
<1>0. /\ sess \in [Sessions -> SessionSet] /\ sess[t] \in SessionSet
      /\ hashed \in Seq(Units) /\ ErasedAt(t) /\ Below(sess[t].sum, recorded)
  BY DEF Typed, TypeOK, SummariesTrue, ErasedMeansGone
<1>1. CASE Fly
  <2>1. UNCHANGED sess
    BY <1>1 DEF Fly, disk
  <2>2. Content(sess[t].sum) \cap OnFC = {} => Content(sess[t].sum) \cap OnFC' = {}
    BY <1>0, <1>1, FlownLater DEF SessionSet
  <2>. QED
    BY <1>0, <2>1, <2>2
<1>2. CASE SendErase
  <2>1. UNCHANGED sess /\ (flash' = <<>> \/ UNCHANGED flash)
    BY <1>2 DEF SendErase, disk
  <2>2. OnFC' = {} \/ UNCHANGED OnFC
    BY <2>1 DEF OnFC, Content
  <2>. QED
    BY <1>0, <2>1, <2>2
<1>3. CASE RemoveOldest
  <2>1. PICK s \in Sessions :
           sess' \in {[sess EXCEPT ![s] = NoSession], Unlinked(s),
                      [sess EXCEPT ![s].man = "none", ![s].manDisk = "none",
                                   ![s].sum = <<>>]}
    BY <1>3 DEF RemoveOldest, Oldest, Present
  <2>2. UNCHANGED OnFC
    BY <1>3 DEF RemoveOldest, fc, OnFC
  <2>3. CASE sess' = [sess EXCEPT ![s] = NoSession]
    BY <1>0, <2>2, <2>3 DEF NoSession
  <2>4. CASE sess' = Unlinked(s)
    BY <1>0, <2>2, <2>4 DEF Unlinked, SessionSet
  <2>5. CASE sess' = [sess EXCEPT ![s].man = "none", ![s].manDisk = "none",
                                  ![s].sum = <<>>]
    BY <1>0, <2>2, <2>5 DEF SessionSet
  <2>. QED
    BY <2>1, <2>3, <2>4, <2>5
<1>4. CASE Prepare
  <2>1. UNCHANGED OnFC
    BY <1>4 DEF Prepare, fc, OnFC
  <2>2. CASE UNCHANGED sess
    BY <1>0, <2>1, <2>2
  <2>3. ASSUME NEW x, x.man = "none", x.manDisk = "none",
               sess' = [sess EXCEPT ![made + 1] = x]
        PROVE  ErasedAt(t)'
    BY <1>0, <2>1, <2>3
  <2>. DEFINE fresh == [NoSession EXCEPT !.dir = TRUE]
              ready == [NoSession EXCEPT !.dir = TRUE, !.file = TRUE]
  <2>4. /\ fresh.man = "none" /\ fresh.manDisk = "none"
        /\ ready.man = "none" /\ ready.manDisk = "none"
    BY DEF NoSession
  <2>5. CASE \/ sess' = [sess EXCEPT ![made + 1] = ready]
             \/ sess' = [sess EXCEPT ![made + 1] = fresh]
    BY <2>3, <2>4, <2>5
  <2>. QED
    BY <1>4, <2>2, <2>5 DEF Prepare
<1>5. CASE WriteChunk \/ ReadFail \/ ReadPanic \/ CloseFile
  <2>1. UNCHANGED OnFC /\ cur \in Sessions
    BY <1>5 DEF WriteChunk, ReadFail, ReadPanic, CloseFile, fc, OnFC, Typed
  <2>2. /\ sess'[t].man = sess[t].man /\ sess'[t].manDisk = sess[t].manDisk
        /\ sess'[t].sum = sess[t].sum
    <3>1. CASE WriteChunk
      BY <1>0, <2>1, <3>1 DEF WriteChunk, SessionSet
    <3>2. CASE ReadFail \/ ReadPanic
      <4>1. \/ sess' = sess
            \/ sess' = Unlinked(cur)
        BY <3>2 DEF ReadFail, ReadPanic
      <4>2. CASE sess' = sess
        BY <4>2
      <4>3. CASE sess' = Unlinked(cur)
        BY <1>0, <2>1, <4>3 DEF Unlinked, SessionSet
      <4>. QED
        BY <4>1, <4>2, <4>3
    <3>3. CASE CloseFile
      <4>1. PICK log : \/ sess' = [sess EXCEPT ![cur].cache = log, ![cur].disk = log]
                       \/ sess' = [sess EXCEPT ![cur].cache = log]
        BY <3>3 DEF CloseFile
      <4>2. CASE sess' = [sess EXCEPT ![cur].cache = log, ![cur].disk = log]
        BY <1>0, <2>1, <4>2 DEF SessionSet
      <4>3. CASE sess' = [sess EXCEPT ![cur].cache = log]
        BY <1>0, <2>1, <4>3 DEF SessionSet
      <4>. QED
        BY <4>1, <4>2, <4>3
    <3>. QED
      BY <1>5, <3>1, <3>2, <3>3
  <2>. QED
    BY <1>0, <2>1, <2>2
<1>6. CASE WriteManifest \/ RecordErase
  <2>1. /\ UNCHANGED OnFC /\ cur \in Sessions /\ sess[cur].manDisk # "erased"
        /\ sess[cur] \in SessionSet
    BY <1>0, <1>6
       DEF WriteManifest, RecordErase, fc, OnFC, Typed, CopyKept, SummariesTrue
  <2>2. CASE UNCHANGED sess
    BY <1>0, <2>1, <2>2
  <2>3. ASSUME NEW m \in {"copied", "attempted", "erased"}, PutManifest(m),
               m = "erased" => Content(hashed) \cap OnFC = {}
        PROVE  ErasedAt(t)'
    <3>1. PICK onDisk \in {m, sess[cur].manDisk} :
             sess' = [sess EXCEPT ![cur].man = m, ![cur].manDisk = onDisk,
                                  ![cur].sum = hashed]
      BY <2>3 DEF PutManifest
    <3>2. CASE t = cur
      <4>1. sess'[t].man = m /\ sess'[t].manDisk = onDisk /\ sess'[t].sum = hashed
        BY <1>0, <2>1, <3>1, <3>2 DEF SessionSet
      <4>. QED
        BY <2>1, <2>3, <3>1, <4>1
    <3>3. CASE t # cur
      BY <1>0, <2>1, <3>1, <3>3
    <3>. QED
      BY <3>2, <3>3
  <2>4. CASE WriteManifest
    BY <2>2, <2>3, <2>4 DEF WriteManifest
  <2>5. CASE RecordErase
    <3>1. eraseOK => Content(hashed) \cap OnFC = {}
      BY <2>5 DEF RecordErase, SummariesTrue
    <3>. QED
      BY <2>2, <2>3, <2>5, <3>1 DEF RecordErase
  <2>. QED
    BY <1>6, <2>4, <2>5
<1>7. CASE PowerLoss
  <2>1. PICK lost \in SUBSET Present :
             sess' = [s \in Sessions |->
                     IF s \in lost
                     THEN [sess[s] EXCEPT !.cache = sess[s].disk, !.man = sess[s].manDisk]
                     ELSE [sess[s] EXCEPT !.disk = sess[s].cache, !.manDisk = sess[s].man]]
    BY <1>7 DEF PowerLoss
  <2>2. UNCHANGED OnFC
    BY <1>7 DEF PowerLoss, OnFC
  <2>3. /\ sess'[t].man \in {sess[t].man, sess[t].manDisk}
        /\ sess'[t].manDisk = sess'[t].man /\ sess'[t].sum = sess[t].sum
    BY <1>0, <2>1 DEF SessionSet
  <2>. QED
    BY <1>0, <2>2, <2>3
<1>8. CASE \/ Open \/ Identify \/ Query \/ CheckStorage \/ EndCleanup \/ Verify \/ Decide
           \/ Poll \/ EraseDeadline \/ Panic \/ Kill \/ Start \/ Unplug
           \/ FinishErase \/ UNCHANGED vars
  <2>1. UNCHANGED <<sess, OnFC>>
    BY <1>8 DEF Open, Identify, Query, CheckStorage, EndCleanup, Verify, Decide, fc, OnFC,
       Poll, EraseDeadline, Panic, Kill, Start, Unplug, FinishErase, vars, disk
  <2>. QED
    BY <1>0, <2>1
<1>. QED
  BY <1>1, <1>2, <1>3, <1>4, <1>5, <1>6, <1>7, <1>8 DEF Next, ProcessStep, World

\* No step makes a shown success untrue while the FC stays connected.
LEMMA SuccessStep ==
    ASSUME Typed, CopyKept, SummariesTrue, SuccessMeansErased, [Next]_vars
    PROVE  SuccessMeansErased'
<1>0. /\ SuccessMeansErased /\ (pc # "off" => result # "success")
      /\ linked \in BOOLEAN /\ busy \in BOOLEAN
  BY DEF SummariesTrue, Typed, TypeOK
<1>1. CASE RecordErase
  <2>1. CASE eraseOK
    <3>1. linked => flash = <<>> /\ ~busy
      BY <1>1, <2>1 DEF RecordErase, SummariesTrue
    <3>2. UNCHANGED <<linked, flash, busy>>
      BY <1>1 DEF RecordErase, fc
    <3>. QED
      BY <3>1, <3>2 DEF SuccessMeansErased
  <2>2. CASE ~eraseOK
    BY <1>1, <2>2 DEF RecordErase, Fail, SuccessMeansErased
  <2>. QED
    BY <2>1, <2>2
<1>2. CASE Decide
  <2>1. (pc' = "off" => mode' # "erase") /\ (pc' # "off" => UNCHANGED result) /\ pc # "off"
    BY <1>2 DEF Decide, EndWith, proc
  <2>. QED
    BY <1>0, <2>1 DEF SuccessMeansErased
<1>3. CASE Panic
  BY <1>3 DEF Panic, Show, SuccessMeansErased
<1>4. CASE Kill \/ PowerLoss \/ Start
  BY <1>4 DEF Kill, PowerLoss, Start, SuccessMeansErased
<1>5. CASE Fly \/ Unplug
  <2>1. linked' = FALSE
    BY <1>0, <1>5 DEF Fly, Unplug
  <2>. QED
    BY <2>1 DEF SuccessMeansErased
<1>6. CASE FinishErase
  <2>1. UNCHANGED <<result, status, mode, linked, flash>> /\ busy' = FALSE
    BY <1>6 DEF FinishErase, proc, shown
  <2>. QED
    BY <1>0, <2>1 DEF SuccessMeansErased
<1>7. CASE UNCHANGED vars
  BY <1>0, <1>7 DEF SuccessMeansErased, vars, proc, shown, fc
<1>8. CASE \/ Open \/ Identify \/ Query \/ CheckStorage \/ RemoveOldest \/ EndCleanup
           \/ Prepare \/ WriteChunk \/ ReadFail \/ ReadPanic \/ CloseFile \/ Verify
           \/ WriteManifest \/ SendErase \/ Poll \/ EraseDeadline
  <2>1. pc # "off" /\ result' \in {result, "error", "empty"}
    BY <1>8 DEF Open, Identify, Query, CheckStorage, RemoveOldest, EndCleanup, Prepare,
       WriteChunk, ReadFail, ReadPanic, CloseFile, Verify, WriteManifest, SendErase, Poll,
       EraseDeadline, Fail, EndWith, Goto, shown
  <2>. QED
    BY <1>0, <2>1 DEF SuccessMeansErased
<1>. QED
  BY <1>1, <1>2, <1>3, <1>4, <1>5, <1>6, <1>7, <1>8 DEF Next, ProcessStep, World

\* What is said of the erase is always true.
LEMMA ErasesAreToldTruly ==
    Spec => [](SummariesTrue /\ ErasedMeansGone /\ SuccessMeansErased)
<1>1. Init => SummariesTrue /\ ErasedMeansGone /\ SuccessMeansErased
  BY DEF Init, SummariesTrue, ErasedMeansGone, SuccessMeansErased, NoSession
<1>2. Typed /\ CopyKept /\ SummariesTrue /\ ErasedMeansGone /\ SuccessMeansErased
         /\ [Next]_vars => (SummariesTrue /\ ErasedMeansGone /\ SuccessMeansErased)'
  <2>. SUFFICES ASSUME Typed, CopyKept, SummariesTrue, ErasedMeansGone, SuccessMeansErased,
                       [Next]_vars
                PROVE  (SummariesTrue /\ ErasedMeansGone /\ SuccessMeansErased)'
    OBVIOUS
  <2>1. \A s \in Sessions : ErasedAt(s)'
    BY ErasedStep
  <2>2. ErasedMeansGone'
    BY <2>1 DEF ErasedAt, ErasedMeansGone
  <2>3. SummariesTrue'
    BY <2>1, ToldStep, EarlyStep DEF SummariesTrue, Told, Gone, Early, ErasedAt
  <2>. QED
    BY <2>2, <2>3, SuccessStep
<1>. QED
  BY <1>1, <1>2, CopyIsKept, PTL DEF Spec

\* "FC erased" in a manifest, for every instance: none of that session's log is
\* on the FC, also after lost commands, late summaries and power losses.
THEOREM ErasedIsGone == Spec => []ErasedMeansGone
BY ErasesAreToldTruly, PTL

\* "Safe to unplug and fly again", for every instance.
THEOREM SuccessIsTrue == Spec => []SuccessMeansErased
BY ErasesAreToldTruly, PTL

----------------------------------------------------------------------------
(* What the LED shows, and which sessions go first *)

\* While a run goes on there is no result yet, and the LED does not say done.
Shown == /\ pc # "off" => result = "none" /\ led # "done"
         /\ OutcomeIsShown

\* The three regular ends of a run: nothing found, not asked to erase, erased.
LEMMA EmptyShown ==
    ASSUME Query, EndWith("empty")
    PROVE  Shown'
<1>1. /\ pc' = "off" /\ result' = "empty" /\ led' = "done" /\ status' = "idle"
  BY DEF EndWith, Show
<1>2. flash = <<>> /\ ~busy /\ UNCHANGED <<flash, busy>>
  BY <1>1 DEF Query, Fail, Show, fc, shown
<1>. QED
  BY <1>1, <1>2 DEF Shown, OutcomeIsShown, FlashIsLeft, ShowsSuccess

LEMMA KeptShown ==
    ASSUME Typed, FlashKnown, CopyKept, Decide, pc' = "off"
    PROVE  Shown'
<1>1. /\ pc = "decide" /\ mode # "erase"
      /\ result' \in {"dryrun", "success"} /\ led' = "done" /\ status' = "idle"
      /\ UNCHANGED <<proc, fc, disk>>
  BY DEF Decide, EndWith, Show
<1>2. CopyStands
  BY <1>1 DEF CopyKept, Saved, CopyStands
<1>3. linked => flash = hashed
  <2>1. SUFFICES ASSUME linked PROVE flash = hashed
    OBVIOUS
  <2>2. hashed = Upto(flash, Len(hashed)) /\ Len(hashed) = used /\ used = Len(flash)
    BY <1>1, <2>1 DEF FlashKnown, CopyKept, Using, Reading
  <2>3. flash \in Seq(Units)
    BY DEF Typed, TypeOK
  <2>. QED
    BY <2>2, <2>3, UptoAll
<1>4. FlashIsLeft' /\ CopyStands'
  BY <1>1, <1>2, <1>3 DEF FlashIsLeft, CopyStands, proc, fc, disk
<1>. QED
  BY <1>1, <1>4 DEF Shown, OutcomeIsShown, ShowsSuccess

LEMMA ErasedShown ==
    ASSUME Typed, CopyKept, SummariesTrue, RecordErase, eraseOK
    PROVE  Shown'
<1>1. /\ pc = "record" /\ pc' = "off" /\ result' = "success"
      /\ led' = "done" /\ status' = "idle"
      /\ UNCHANGED <<proc, fc>>
  BY DEF RecordErase, EndWith, Show
<1>2. linked => flash = <<>> /\ ~busy
  BY <1>1 DEF SummariesTrue
<1>3. CopyStands
  BY <1>1 DEF CopyKept, Saved, CopyStands
<1>4. CopyStands'
  <2>1. UNCHANGED <<used, hashed, cur>>
    BY <1>1 DEF proc
  <2>2. CASE UNCHANGED sess
    BY <1>3, <2>1, <2>2 DEF CopyStands
  <2>3. CASE PutManifest("erased")
    <3>1. cur \in Sessions /\ sess \in [Sessions -> SessionSet]
      BY <1>1 DEF Typed, TypeOK, Sessions
    <3>2. PICK onDisk : sess' = [sess EXCEPT ![cur].man = "erased",
                                             ![cur].manDisk = onDisk,
                                             ![cur].sum = hashed]
      BY <2>3 DEF PutManifest
    <3>3. sess'[cur] = [sess[cur] EXCEPT !.man = "erased", !.manDisk = onDisk,
                                         !.sum = hashed]
      BY <3>1, <3>2
    <3>4. sess[cur] \in SessionSet
      BY <3>1
    <3>5. /\ sess'[cur].file = sess[cur].file
          /\ sess'[cur].cache = sess[cur].cache
          /\ sess'[cur].disk = sess[cur].disk
          /\ sess'[cur].sum = hashed /\ sess'[cur].man = "erased"
      BY <3>3, <3>4 DEF SessionSet
    <3>. QED
      BY <1>3, <2>1, <3>5 DEF CopyStands
  <2>. QED
    BY <2>2, <2>3 DEF RecordErase
<1>5. FlashIsLeft'
  BY <1>1, <1>2 DEF CopyKept, FlashIsLeft, proc, fc
<1>. QED
  BY <1>1, <1>4, <1>5 DEF Shown, OutcomeIsShown, ShowsSuccess

\* Between two runs the controller may go, be flown, or finish its erase.
LEMMA ShownStays ==
    ASSUME Shown, pc = "off", Unplug \/ Fly \/ FinishErase \/ UNCHANGED vars
    PROVE  Shown'
<1>1. UNCHANGED <<pc, proc, shown, disk>>
  BY DEF Unplug, Fly, FinishErase, vars
<1>2. FlashIsLeft => FlashIsLeft'
  <2>1. CASE Unplug \/ Fly
    BY <2>1 DEF Unplug, Fly, FlashIsLeft
  <2>2. CASE FinishErase \/ UNCHANGED vars
    <3>1. /\ UNCHANGED <<result, mode, hashed, linked, flash>>
          /\ busy' = FALSE \/ UNCHANGED busy
      BY <2>2 DEF FinishErase, vars, proc, shown, fc
    <3>. QED
      BY <3>1 DEF FlashIsLeft
  <2>. QED
    BY <2>1, <2>2
<1>3. CopyStands => CopyStands'
  BY <1>1 DEF CopyStands, proc, disk
<1>. QED
  BY <1>1, <1>2, <1>3 DEF Shown, OutcomeIsShown, ShowsSuccess, ShowsError, shown

\* No step lets the LED and the status drift from what was done.
LEMMA ShownStep ==
    ASSUME Typed, FlashKnown, CopyKept, SummariesTrue, Shown, [Next]_vars
    PROVE  Shown'
<1>1. CASE Query /\ EndWith("empty")
  BY <1>1, EmptyShown
<1>2. CASE Decide /\ pc' = "off"
  BY <1>2, KeptShown
<1>3. CASE RecordErase /\ eraseOK
  BY <1>3, ErasedShown
<1>4. CASE pc = "off" /\ (Unplug \/ Fly \/ FinishErase \/ UNCHANGED vars)
  BY <1>4, ShownStays
<1>5. CASE Fail
  BY <1>5 DEF Fail, Show, Shown, OutcomeIsShown, ShowsError
<1>6. CASE Kill \/ PowerLoss \/ Panic
  BY <1>6 DEF Kill, PowerLoss, Panic, Show, Shown, OutcomeIsShown
<1>7. CASE /\ ~Fail /\ ~Kill /\ ~PowerLoss /\ ~Panic
           /\ ~(Query /\ EndWith("empty")) /\ ~(Decide /\ pc' = "off")
           /\ ~(RecordErase /\ eraseOK)
           /\ ~(pc = "off" /\ (Unplug \/ Fly \/ FinishErase \/ UNCHANGED vars))
  <2>1. result' = "none" /\ led' # "done"
    <3>1. CASE Start
      BY <3>1 DEF Start, Show
    <3>2. CASE ~Start
      <4>1. pc # "off"
        BY <1>7, <3>2 DEF Next, ProcessStep, World, Open, Identify, Query, CheckStorage,
           RemoveOldest, EndCleanup, Prepare, WriteChunk, ReadFail, ReadPanic, CloseFile,
           Verify, WriteManifest, Decide, SendErase, Poll, EraseDeadline, RecordErase
      <4>2. UNCHANGED result /\ led' \in {led, "busy"}
        BY <1>7, <3>2 DEF Next, ProcessStep, World, Open, Identify, Query, CheckStorage,
           RemoveOldest, EndCleanup, Prepare, WriteChunk, ReadFail, ReadPanic, CloseFile,
           Verify, WriteManifest, Decide, EndWith, SendErase, Poll, EraseDeadline,
           RecordErase, Unplug, Fly, FinishErase, vars, shown, Goto, Show
      <4>. QED
        BY <4>1, <4>2 DEF Shown
    <3>. QED
      BY <3>1, <3>2
  <2>. QED
    BY <2>1 DEF Shown, OutcomeIsShown
<1>. QED
  BY <1>1, <1>2, <1>3, <1>4, <1>5, <1>6, <1>7

\* For every instance: the LED says done only of a run that found nothing or
\* whose copy stands on disk, under its hash and listed, and, while the
\* controller is still plugged in, with its flash as that run was to leave it;
\* a run that returns an error shows one.  What the LED shows of a panic that
\* returns success is not in it (SuccessIsShown, which is violated).
THEOREM OutcomeAlwaysShown == Spec => []OutcomeIsShown
<1>1. Init => Shown
  BY DEF Init, Shown, OutcomeIsShown
<1>2. Shown => OutcomeIsShown
  BY DEF Shown
<1>3. Typed /\ FlashKnown /\ CopyKept /\ SummariesTrue /\ Shown /\ [Next]_vars => Shown'
  BY ShownStep
<1>. QED
  BY <1>1, <1>2, <1>3, CopyIsKept, ErasesAreToldTruly, PTL DEF Spec

\* A directory goes only when it is the oldest, and only while space is short.
LEMMA OldestStep ==
    ASSUME Typed, [Next]_vars, NEW s \in Present, s \notin Present'
    PROVE  /\ Free < Required
           /\ \A t \in Present' : s < t
<1>0. sess \in [Sessions -> SessionSet] /\ s \in Sessions /\ sess[s].dir
      /\ made \in 0..MaxSessions
  BY DEF Typed, TypeOK, Present
<1>1. CASE RemoveOldest
  <2>1. PICK o \in Oldest :
           sess' \in {[sess EXCEPT ![o] = NoSession], Unlinked(o),
                      [sess EXCEPT ![o].man = "none", ![o].manDisk = "none",
                                   ![o].sum = <<>>]}
    BY <1>1 DEF RemoveOldest
  <2>2. o \in Sessions /\ \A t \in Present : o <= t
    BY <2>1 DEF Oldest, Present
  <2>3. \A t \in Sessions \ {o} : sess'[t] = sess[t]
    BY <1>0, <2>1 DEF Unlinked
  <2>4. CASE sess' = [sess EXCEPT ![o] = NoSession]
    <3>1. o \notin Present' /\ Present' \subseteq Present
      BY <1>0, <2>2, <2>3, <2>4 DEF Present, NoSession
    <3>2. s = o
      BY <1>0, <2>3 DEF Present
    <3>3. \A t \in Present' : t \in Nat /\ t # o /\ o <= t
      BY <2>2, <3>1 DEF Present, Sessions
    <3>. QED
      BY <1>1, <2>2, <3>2, <3>3 DEF Sessions, RemoveOldest
  <2>5. CASE sess' # [sess EXCEPT ![o] = NoSession]
    <3>1. CASE sess' = Unlinked(o)
      <4>1. sess'[s].dir
        BY <1>0, <2>2, <3>1 DEF Unlinked, SessionSet
      <4>. QED
        BY <1>0, <4>1 DEF Present
    <3>2. CASE sess' = [sess EXCEPT ![o].man = "none", ![o].manDisk = "none",
                                    ![o].sum = <<>>]
      <4>1. sess'[s].dir
        BY <1>0, <2>2, <3>2 DEF SessionSet
      <4>. QED
        BY <1>0, <4>1 DEF Present
    <3>. QED
      BY <2>1, <2>5, <3>1, <3>2
  <2>. QED
    BY <2>4, <2>5
<1>2. CASE Prepare
  <2>1. CASE UNCHANGED sess
    BY <2>1 DEF Present
  <2>2. ASSUME NEW x, x.dir, sess' = [sess EXCEPT ![made + 1] = x] PROVE FALSE
    <3>1. sess'[s].dir
      BY <1>0, <2>2
    <3>. QED
      BY <1>0, <3>1 DEF Present
  <2>. DEFINE fresh == [NoSession EXCEPT !.dir = TRUE]
              ready == [NoSession EXCEPT !.dir = TRUE, !.file = TRUE]
  <2>3. fresh.dir /\ ready.dir
    BY DEF NoSession
  <2>4. CASE \/ sess' = [sess EXCEPT ![made + 1] = ready]
             \/ sess' = [sess EXCEPT ![made + 1] = fresh]
    BY <2>2, <2>3, <2>4
  <2>. QED
    BY <1>2, <2>1, <2>4 DEF Prepare
<1>3. CASE ~ RemoveOldest /\ ~ Prepare
  <2>1. sess'[s].dir
    <3>1. CASE WriteChunk \/ CloseFile
      BY <1>0, <3>1 DEF WriteChunk, CloseFile, SessionSet
    <3>2. CASE ReadFail \/ ReadPanic
      BY <1>0, <3>2 DEF ReadFail, ReadPanic, Unlinked, SessionSet
    <3>3. CASE WriteManifest \/ RecordErase
      <4>1. CASE UNCHANGED sess
        BY <1>0, <4>1
      <4>2. ASSUME NEW m, PutManifest(m) PROVE sess'[s].dir
        BY <1>0, <4>2 DEF PutManifest, SessionSet
      <4>. QED
        BY <3>3, <4>1, <4>2 DEF WriteManifest, RecordErase
    <3>4. CASE PowerLoss
      BY <1>0, <3>4 DEF PowerLoss, SessionSet
    <3>5. CASE \/ Open \/ Identify \/ Query \/ CheckStorage \/ EndCleanup \/ Verify \/ Decide
               \/ SendErase \/ Poll \/ EraseDeadline \/ Panic \/ Kill \/ Start \/ Unplug
               \/ Fly \/ FinishErase \/ UNCHANGED vars
      BY <1>0, <3>5 DEF Open, Identify, Query, CheckStorage, EndCleanup, Verify, Decide,
         SendErase, Poll, EraseDeadline, Panic, Kill, Start, Unplug, Fly, FinishErase,
         vars, disk
    <3>. QED
      BY <1>3, <3>1, <3>2, <3>3, <3>4, <3>5 DEF Next, ProcessStep, World
  <2>. QED
    BY <1>0, <2>1 DEF Present
<1>. QED
  BY <1>1, <1>2, <1>3

\* For every instance: whatever makes room, or fails half-way, takes away the
\* oldest directory and no other, and none once there is room.
THEOREM OldestGoFirst == Spec => OldestFirst
<1>1. Typed /\ [Next]_vars
         => [\A s \in Present : s \notin Present' =>
               /\ Free < Required
               /\ \A t \in Present' : s < t]_vars
  BY OldestStep
<1>. QED
  BY <1>1, KnownHolds, PTL DEF Spec, OldestFirst

----------------------------------------------------------------------------
(* Orchestrator.Run does what the appliance promises *)

\* Units of which a session's file shows one thing and would keep another.
Torn(s) == ((Content(sess[s].cache) \ Content(sess[s].disk))
              \cup (Content(sess[s].disk) \ Content(sess[s].cache))) \ {Bad}

\* A unit on which a power loss does not decide: it is still on the FC, or a
\* later session, which goes after this one, holds it for good.
Safe(u, s) == u \in OnFC \/ \E t \in Sessions : t > s /\ Settled(u, t)

LogKnown(s) == /\ Content(sess[s].cache) \subseteq 0..recorded
               /\ Content(sess[s].disk) \subseteq 0..recorded
               /\ ~sess[s].dir => sess[s].cache = <<>> /\ sess[s].disk = <<>>
               /\ \A u \in Torn(s) : Safe(u, s)

LogsKnown ==
    /\ pc \in Reading => cur = made
    /\ pc = "read" => sess[cur].dir /\ Content(sess[cur].cache) \subseteq OnFC
    /\ reclaimed \subseteq 1..recorded
    /\ \A s \in Sessions : LogKnown(s)

\* The logs of all sessions stay as they are, and no directory goes.
SameLogs == \A s \in Sessions : /\ sess'[s].cache = sess[s].cache
                                /\ sess'[s].disk = sess[s].disk
                                /\ sess[s].dir => sess'[s].dir

NothingIn == Content(<<>>) = {}

LEMMA EmptyContent == NothingIn
BY DEF NothingIn, Content

\* The actions that leave every log as it is: most, and Prepare, whose file is
\* empty as the log of a session not yet made is.
LEMMA SameLogsStep ==
    ASSUME Typed, Tidy, [Next]_vars, ~RemoveOldest, ~WriteChunk, ~ReadFail, ~ReadPanic,
           ~CloseFile, ~PowerLoss
    PROVE  SameLogs /\ UNCHANGED reclaimed
<1>0. sess \in [Sessions -> SessionSet] /\ made \in 0..MaxSessions
  BY DEF Typed, TypeOK
<1>1. CASE WriteManifest \/ RecordErase
  <2>1. UNCHANGED reclaimed
    BY <1>1 DEF WriteManifest, RecordErase
  <2>2. CASE UNCHANGED sess
    BY <2>1, <2>2 DEF SameLogs
  <2>3. ASSUME NEW m, PutManifest(m) PROVE SameLogs
    BY <1>0, <2>3 DEF PutManifest, SessionSet, SameLogs
  <2>. QED
    BY <1>1, <2>1, <2>2, <2>3 DEF WriteManifest, RecordErase
<1>2. CASE Prepare
  <2>1. UNCHANGED reclaimed
    BY <1>2 DEF Prepare
  <2>2. CASE UNCHANGED sess
    BY <2>1, <2>2 DEF SameLogs
  <2>3. ASSUME NEW x, x.cache = <<>>, x.disk = <<>>, x.dir, made < MaxSessions,
               sess' = [sess EXCEPT ![made + 1] = x]
        PROVE  SameLogs
    <3>1. made + 1 \in Sessions /\ made + 1 > made
      BY <1>0, <2>3, SyncAssumption DEF Sessions
    <3>2. sess[made + 1].cache = <<>> /\ sess[made + 1].disk = <<>>
      BY <3>1 DEF Tidy, Blank
    <3>3. sess'[made + 1] = x /\ \A s \in Sessions \ {made + 1} : sess'[s] = sess[s]
      BY <1>0, <2>3, <3>1
    <3>. QED
      BY <2>3, <3>2, <3>3 DEF SameLogs
  <2>. DEFINE fresh == [NoSession EXCEPT !.dir = TRUE]
              ready == [NoSession EXCEPT !.dir = TRUE, !.file = TRUE]
  <2>4. /\ fresh.cache = <<>> /\ fresh.disk = <<>> /\ fresh.dir
        /\ ready.cache = <<>> /\ ready.disk = <<>> /\ ready.dir
    BY DEF NoSession
  <2>. HIDE DEF fresh, ready
  <2>5. CASE made < MaxSessions /\ sess' = [sess EXCEPT ![made + 1] = ready]
    BY <2>1, <2>3, <2>4, <2>5
  <2>6. CASE made < MaxSessions /\ sess' = [sess EXCEPT ![made + 1] = fresh]
    BY <2>1, <2>3, <2>4, <2>6
  <2>. QED
    BY <1>2, <2>1, <2>2, <2>5, <2>6 DEF Prepare, fresh, ready
<1>3. CASE \/ Open \/ Identify \/ Query \/ CheckStorage \/ EndCleanup \/ Verify \/ Decide
           \/ SendErase \/ Poll \/ EraseDeadline \/ Panic \/ Kill \/ Start \/ Unplug
           \/ Fly \/ FinishErase \/ UNCHANGED vars
  <2>1. UNCHANGED <<sess, reclaimed>>
    BY <1>3 DEF Open, Identify, Query, CheckStorage, EndCleanup, Verify, Decide,
       SendErase, Poll, EraseDeadline, Panic, Kill, Start, Unplug, Fly, FinishErase,
       vars, disk
  <2>. QED
    BY <2>1 DEF SameLogs
<1>. QED
  BY <1>1, <1>2, <1>3 DEF Next, ProcessStep, World

\* Step 6 touches the log of this run's session only, before and after it holds
\* nothing but what is on the FC, and units not stored as received.
LEMMA WritingStep ==
    ASSUME Typed, FlashKnown, CopyKept, LogsKnown,
           WriteChunk \/ ReadFail \/ ReadPanic \/ CloseFile
    PROVE  /\ pc = "read" /\ cur \in Sessions
           /\ UNCHANGED <<flash, reclaimed, recorded, made, cur>>
           /\ \A r \in Sessions \ {cur} : sess'[r] = sess[r]
           /\ Content(sess[cur].disk) \subseteq OnFC
           /\ sess[cur].dir /\ sess'[cur].dir
           /\ Content(sess'[cur].cache) \subseteq OnFC \cup {Bad}
           /\ Content(sess'[cur].disk) \subseteq OnFC \cup {Bad}
           /\ pc' = "read" => Content(sess'[cur].cache) \subseteq OnFC
<1>0. /\ sess \in [Sessions -> SessionSet] /\ flash \in Seq(Units) /\ hashed \in Seq(Units)
  BY DEF Typed, TypeOK
<1>1. /\ pc = "read" /\ cur \in Sessions
      /\ UNCHANGED <<flash, reclaimed, recorded, made, cur>>
  BY DEF WriteChunk, ReadFail, ReadPanic, CloseFile, Typed, fc, proc
<1>2. Content(sess[cur].disk) \subseteq OnFC
  <2>1. /\ sess[cur].disk = Upto(flash, Len(sess[cur].disk))
        /\ Len(sess[cur].disk) \in 0..Len(flash)
    BY <1>0, <1>1 DEF CopyKept, SessionSet, AnyLog
  <2>. QED
    BY <1>0, <2>1, ContentOfUpto DEF OnFC
<1>3. sess[cur].dir /\ Content(sess[cur].cache) \subseteq OnFC /\ sess[cur] \in SessionSet
  BY <1>0, <1>1 DEF LogsKnown
<1>4. \A n \in 0..Len(flash) : Content(Upto(flash, n)) \subseteq OnFC
  BY <1>0, ContentOfUpto DEF OnFC
<1>5. CASE WriteChunk
  <2>1. PICK n \in Len(hashed) + 1 .. used :
          \/ \E k \in Len(sess[cur].cache) .. n - 1 :
                   sess' = [sess EXCEPT ![cur].cache = Upto(flash, k)]
          \/ sess' = [sess EXCEPT ![cur].cache = Upto(flash, n),
                                  ![cur].disk = Upto(flash, n)]
    BY <1>5 DEF WriteChunk
  <2>2. /\ Len(sess[cur].cache) \in Nat /\ n \in 0..Len(flash)
    BY <1>0, <1>1, <2>1 DEF Typed, TypeOK, FlashKnown, Using, SessionSet, AnyLog
  <2>3. CASE sess' = [sess EXCEPT ![cur].cache = Upto(flash, n),
                                  ![cur].disk = Upto(flash, n)]
    <3>1. /\ sess'[cur].cache = Upto(flash, n) /\ sess'[cur].disk = Upto(flash, n)
          /\ sess'[cur].dir = sess[cur].dir
          /\ \A r \in Sessions \ {cur} : sess'[r] = sess[r]
      BY <1>0, <1>1, <2>3 DEF SessionSet
    <3>. QED
      BY <1>1, <1>2, <1>3, <1>4, <2>2, <3>1
  <2>4. ASSUME NEW k \in Len(sess[cur].cache) .. n - 1,
               sess' = [sess EXCEPT ![cur].cache = Upto(flash, k)]
        PROVE  /\ Content(sess'[cur].cache) \subseteq OnFC
               /\ sess'[cur].disk = sess[cur].disk
               /\ sess'[cur].dir = sess[cur].dir
               /\ \A r \in Sessions \ {cur} : sess'[r] = sess[r]
    <3>1. k \in 0..Len(flash)
      BY <2>2
    <3>2. /\ sess'[cur].cache = Upto(flash, k) /\ sess'[cur].disk = sess[cur].disk
          /\ sess'[cur].dir = sess[cur].dir
          /\ \A r \in Sessions \ {cur} : sess'[r] = sess[r]
      BY <1>0, <1>1, <2>4 DEF SessionSet
    <3>. QED
      BY <1>4, <3>1, <3>2
  <2>. QED
    BY <1>1, <1>2, <1>3, <2>1, <2>3, <2>4
<1>6. CASE ReadFail \/ ReadPanic
  <2>1. pc' # "read" /\ sess' \in {sess, Unlinked(cur)}
    BY <1>6 DEF ReadFail, ReadPanic, Fail
  <2>2. CASE sess' = Unlinked(cur)
    <3>1. /\ sess'[cur].cache = <<>> /\ sess'[cur].disk = <<>>
          /\ sess'[cur].dir = sess[cur].dir
          /\ \A r \in Sessions \ {cur} : sess'[r] = sess[r]
      BY <1>0, <1>1, <2>2 DEF Unlinked, SessionSet
    <3>. QED
      BY <1>1, <1>2, <1>3, <2>1, <3>1, EmptyContent DEF NothingIn
  <2>. QED
    BY <1>1, <1>2, <1>3, <2>1, <2>2
<1>7. CASE CloseFile
  <2>1. pc' # "read"
    BY <1>7 DEF CloseFile, Fail
  <2>2. Content(hashed) \subseteq OnFC
    <3>1. hashed = Upto(flash, Len(hashed)) /\ Len(hashed) \in 0..Len(flash)
      BY <1>0, <1>1 DEF FlashKnown, Using, Reading, Typed, TypeOK
    <3>. QED
      BY <1>4, <3>1
  <2>3. \A log \in Stored(hashed) : Content(log) \subseteq OnFC \cup {Bad}
    <3>1. ASSUME NEW i \in 1..Len(hashed)
          PROVE  Content([hashed EXCEPT ![i] = Bad]) \subseteq Content(hashed) \cup {Bad}
      <4>1. Len([hashed EXCEPT ![i] = Bad]) = Len(hashed)
        BY <1>0, <3>1
      <4>. QED
        BY <1>0, <4>1 DEF Content
    <3>. QED
      BY <2>2, <3>1 DEF Stored
  <2>4. CASE \E log \in Stored(hashed) :
                sess' = [sess EXCEPT ![cur].cache = log, ![cur].disk = log]
    <3>1. PICK log \in Stored(hashed) :
                sess' = [sess EXCEPT ![cur].cache = log, ![cur].disk = log]
      BY <2>4
    <3>2. /\ sess'[cur].cache = log /\ sess'[cur].disk = log
          /\ sess'[cur].dir = sess[cur].dir
          /\ \A r \in Sessions \ {cur} : sess'[r] = sess[r]
      BY <1>0, <1>1, <3>1 DEF SessionSet
    <3>. QED
      BY <1>1, <1>2, <1>3, <2>1, <2>3, <3>2
  <2>5. CASE \E log \in {sess[cur].cache} \cup Stored(hashed) :
                sess' = [sess EXCEPT ![cur].cache = log]
    <3>1. PICK log \in {sess[cur].cache} \cup Stored(hashed) :
                sess' = [sess EXCEPT ![cur].cache = log]
      BY <2>5
    <3>2. /\ sess'[cur].cache = log /\ sess'[cur].disk = sess[cur].disk
          /\ sess'[cur].dir = sess[cur].dir
          /\ \A r \in Sessions \ {cur} : sess'[r] = sess[r]
      BY <1>0, <1>1, <3>1 DEF SessionSet
    <3>3. Content(log) \subseteq OnFC \cup {Bad}
      BY <1>3, <2>3, <3>1
    <3>. QED
      BY <1>1, <1>2, <1>3, <2>1, <3>2, <3>3
  <2>. QED
    BY <1>7, <2>4, <2>5 DEF CloseFile
<1>. QED
  BY <1>5, <1>6, <1>7

\* RemoveOldest takes the log of the oldest session, or part of the rest of it.
LEMMA RemovingStep ==
    ASSUME Typed, RemoveOldest
    PROVE  /\ UNCHANGED <<flash, recorded, made, cur, pc>>
           /\ \/ SameLogs /\ UNCHANGED reclaimed
              \/ \E o \in Oldest :
                    /\ \A r \in Sessions \ {o} : sess'[r] = sess[r]
                    /\ sess'[o].cache = <<>> /\ sess'[o].disk = <<>>
                    /\ reclaimed' = reclaimed \cup (Content(sess[o].disk) \ {Bad})
<1>0. sess \in [Sessions -> SessionSet]
  BY DEF Typed, TypeOK
<1>1. UNCHANGED <<flash, recorded, made, cur, pc>>
  BY DEF RemoveOldest, fc, proc
<1>2. PICK o \in Oldest :
         \/ /\ sess' \in {[sess EXCEPT ![o] = NoSession], Unlinked(o)}
            /\ reclaimed' = reclaimed \cup (Content(sess[o].disk) \ {Bad})
         \/ /\ sess' = [sess EXCEPT ![o].man = "none", ![o].manDisk = "none",
                                    ![o].sum = <<>>]
            /\ UNCHANGED reclaimed
  BY DEF RemoveOldest
<1>3. o \in Sessions
  BY DEF Oldest, Present
<1>4. CASE sess' = [sess EXCEPT ![o] = NoSession]
  <2>1. /\ \A r \in Sessions \ {o} : sess'[r] = sess[r]
        /\ sess'[o].cache = <<>> /\ sess'[o].disk = <<>>
    BY <1>0, <1>3, <1>4 DEF NoSession
  <2>2. CASE reclaimed' = reclaimed \cup (Content(sess[o].disk) \ {Bad})
    BY <1>1, <2>1, <2>2
  <2>3. CASE sess' = [sess EXCEPT ![o].man = "none", ![o].manDisk = "none",
                                  ![o].sum = <<>>] /\ UNCHANGED reclaimed
    BY <1>0, <1>1, <1>3, <2>3 DEF SessionSet, SameLogs
  <2>. QED
    BY <1>2, <2>2, <2>3
<1>5. CASE sess' = Unlinked(o) /\ reclaimed' = reclaimed \cup (Content(sess[o].disk) \ {Bad})
  <2>1. /\ \A r \in Sessions \ {o} : sess'[r] = sess[r]
        /\ sess'[o].cache = <<>> /\ sess'[o].disk = <<>>
    BY <1>0, <1>3, <1>5 DEF Unlinked, SessionSet
  <2>. QED
    BY <1>1, <1>5, <2>1
<1>6. CASE sess' = [sess EXCEPT ![o].man = "none", ![o].manDisk = "none",
                                ![o].sum = <<>>] /\ UNCHANGED reclaimed
  BY <1>0, <1>1, <1>3, <1>6 DEF SessionSet, SameLogs
<1>. QED
  BY <1>2, <1>4, <1>5, <1>6

\* After a power loss each file shows what it keeps.
LEMMA LossStep ==
    ASSUME Typed, PowerLoss
    PROVE  /\ UNCHANGED <<flash, reclaimed, recorded, made, cur>> /\ pc' = "off"
           /\ \A s \in Sessions :
                 /\ sess'[s].dir = sess[s].dir
                 /\ sess'[s].cache = sess'[s].disk
                 /\ sess'[s].disk \in {sess[s].cache, sess[s].disk}
<1>0. sess \in [Sessions -> SessionSet]
  BY DEF Typed, TypeOK
<1>1. PICK lost \in SUBSET Present :
         sess' = [s \in Sessions |->
                 IF s \in lost
                 THEN [sess[s] EXCEPT !.cache = sess[s].disk, !.man = sess[s].manDisk]
                 ELSE [sess[s] EXCEPT !.disk = sess[s].cache, !.manDisk = sess[s].man]]
  BY DEF PowerLoss
<1>2. UNCHANGED <<flash, reclaimed, recorded, made, cur>> /\ pc' = "off"
  BY DEF PowerLoss, proc
<1>. QED
  BY <1>0, <1>1, <1>2 DEF SessionSet

\* What the FC holds changes by flying, which adds the next unit, and by an
\* erase, at which this run's session holds all of it for good.
LEMMA OnFCStep ==
    ASSUME Typed, FlashKnown, CopyKept, LogsKnown, [Next]_vars
    PROVE  \/ UNCHANGED <<flash, recorded>>
           \/ /\ recorded' = recorded + 1 /\ recorded \in Nat /\ recorded' \in Units
              /\ OnFC' = OnFC \cup {recorded'}
              /\ UNCHANGED <<sess, reclaimed>>
           \/ /\ SendErase /\ OnFC' = {} /\ UNCHANGED recorded
              /\ cur = made /\ cur \in Sessions
              /\ sess[cur].cache = sess[cur].disk /\ Content(sess[cur].disk) = OnFC
              /\ UNCHANGED <<sess, reclaimed>>
<1>0. flash \in Seq(Units) /\ recorded \in 0..MaxUnits
  BY DEF Typed, TypeOK
<1>1. CASE Fly
  <2>1. /\ recorded' = recorded + 1 /\ recorded' \in Units /\ flash' = Append(flash, recorded')
        /\ UNCHANGED <<sess, reclaimed>>
    BY <1>0, <1>1, SyncAssumption DEF Fly, disk, Units
  <2>2. /\ Len(flash') = Len(flash) + 1 /\ Len(flash) \in Nat
        /\ \A i \in 1..Len(flash) : flash'[i] = flash[i]
        /\ flash'[Len(flash) + 1] = recorded'
    BY <1>0, <2>1, AppendProperties
  <2>3. OnFC' = OnFC \cup {recorded'}
    <3>1. OnFC' \subseteq OnFC \cup {recorded'}
      BY <2>2 DEF OnFC, Content
    <3>2. OnFC \subseteq OnFC' /\ recorded' \in OnFC'
      <4>1. /\ \A i \in 1..Len(flash) : i \in 1..Len(flash')
            /\ Len(flash) + 1 \in 1..Len(flash')
        BY <2>2
      <4>. QED
        BY <2>2, <4>1 DEF OnFC, Content
    <3>. QED
      BY <3>1, <3>2
  <2>. QED
    BY <1>0, <2>1, <2>3
<1>2. CASE SendErase
  <2>1. /\ pc = "erase" /\ cur \in Sessions /\ cur = made
        /\ UNCHANGED <<sess, reclaimed, recorded>>
    BY <1>2 DEF SendErase, disk, Typed, LogsKnown, Reading
  <2>2. CASE UNCHANGED flash
    BY <2>1, <2>2
  <2>3. CASE flash' # flash
    <3>1. linked /\ flash' = <<>>
      BY <1>2, <2>3 DEF SendErase
    <3>2. hashed = flash
      BY <2>1, <3>1, UptoAll DEF Typed, TypeOK, FlashKnown, Using, Reading, CopyKept
    <3>3. sess[cur].cache = flash /\ sess[cur].disk = flash
      BY <2>1, <3>2 DEF CopyKept, Saved
    <3>4. OnFC' = {}
      BY <3>1, EmptyContent DEF OnFC, NothingIn
    <3>. QED
      BY <1>2, <2>1, <3>3, <3>4 DEF OnFC
  <2>. QED
    BY <2>2, <2>3
<1>3. CASE ~Fly /\ ~SendErase
  <2>1. UNCHANGED <<flash, recorded>>
    BY <1>3 DEF Next, ProcessStep, World, Open, Identify, Query, CheckStorage, RemoveOldest,
       EndCleanup, Prepare, WriteChunk, ReadFail, ReadPanic, CloseFile, Verify,
       WriteManifest, Decide, Poll, EraseDeadline, RecordErase, Panic, Start,
       Unplug, FinishErase, Kill, PowerLoss, vars, fc
  <2>. QED
    BY <2>1
<1>. QED
  BY <1>1, <1>2, <1>3

\* No step leaves a unit to chance.
LEMMA LogStep ==
    ASSUME Typed, FlashKnown, CopyKept, Tidy, LogsKnown, [Next]_vars,
           NEW s \in Sessions
    PROVE  LogKnown(s)'
<1>0. /\ LogKnown(s) /\ recorded \in Nat /\ s \in Int /\ made \in Int
      /\ s > made => Blank(s)
  BY DEF LogsKnown, Typed, TypeOK, Tidy, Sessions
<1>1. CASE SameLogs
  <2>1. UNCHANGED Torn(s) /\ (\A u : \A t \in Sessions : Settled(u, t) => Settled(u, t)')
    BY <1>1 DEF SameLogs, Torn, Settled
  <2>2. /\ sess'[s].cache = sess[s].cache /\ sess'[s].disk = sess[s].disk
        /\ sess[s].dir => sess'[s].dir
    BY <1>1 DEF SameLogs
  <2>3. recorded' >= recorded /\ recorded' \in Nat
    BY <1>0, OnFCStep
  <2>4. ASSUME NEW u \in Torn(s) PROVE Safe(u, s)'
    <3>1. Safe(u, s)
      BY <1>0, <2>4 DEF LogKnown
    <3>2. CASE \E t \in Sessions : t > s /\ Settled(u, t)
      BY <2>1, <3>2 DEF Safe
    <3>3. CASE u \in OnFC
      <4>1. CASE OnFC \subseteq OnFC'
        BY <3>3, <4>1 DEF Safe
      <4>2. CASE /\ cur = made /\ cur \in Sessions
                 /\ sess[cur].cache = sess[cur].disk /\ Content(sess[cur].disk) = OnFC
        <5>1. s # cur
          BY <2>4, <4>2 DEF Torn
        <5>2. ~(s > made)
          BY <1>0, <2>4, EmptyContent DEF Torn, Blank, NothingIn
        <5>3. cur > s /\ Settled(u, cur)
          BY <1>0, <3>3, <4>2, <5>1, <5>2 DEF Settled
        <5>. QED
          BY <2>1, <4>2, <5>3 DEF Safe
      <4>. QED
        BY <4>1, <4>2, OnFCStep DEF OnFC
    <3>. QED
      BY <3>1, <3>2, <3>3 DEF Safe
  <2>. QED
    BY <1>0, <2>1, <2>2, <2>3, <2>4 DEF LogKnown
<1>2. CASE WriteChunk \/ ReadFail \/ ReadPanic \/ CloseFile
  <2>1. /\ cur \in Sessions
        /\ UNCHANGED <<flash, recorded>>
        /\ \A r \in Sessions \ {cur} : sess'[r] = sess[r]
        /\ Content(sess[cur].disk) \subseteq OnFC
        /\ sess'[cur].dir
        /\ Content(sess'[cur].cache) \subseteq OnFC \cup {Bad}
        /\ Content(sess'[cur].disk) \subseteq OnFC \cup {Bad}
    BY <1>2, WritingStep
  <2>2. OnFC \subseteq 0..recorded /\ Bad \in 0..recorded /\ UNCHANGED OnFC
    <3>1. OnFC \subseteq 0..recorded
      <4>1. flash \in Seq(Units) /\ Below(flash, recorded)
        BY DEF Typed, TypeOK
      <4>2. \A i \in 1..Len(flash) : flash[i] \in Units /\ flash[i] <= recorded
        BY <4>1 DEF Below
      <4>. QED
        BY <1>0, <4>2 DEF OnFC, Content, Units
    <3>. QED
      BY <1>0, <2>1, <3>1 DEF Bad, OnFC
  <2>3. CASE s = cur
    <3>1. ASSUME NEW u \in Torn(s)' PROVE Safe(u, s)'
      BY <2>1, <2>2, <2>3, <3>1 DEF Torn, Safe
    <3>. QED
      BY <2>1, <2>2, <2>3, <3>1 DEF LogKnown
  <2>4. CASE s # cur
    <3>1. sess'[s] = sess[s] /\ UNCHANGED Torn(s)
      BY <2>1, <2>4 DEF Torn
    <3>2. ASSUME NEW u \in Torn(s) PROVE Safe(u, s)'
      <4>1. Safe(u, s)
        BY <1>0, <3>2 DEF LogKnown
      <4>2. ASSUME NEW t \in Sessions, t > s, Settled(u, t)
            PROVE  u \in OnFC \/ Settled(u, t)'
        BY <2>1, <4>2 DEF Settled
      <4>. QED
        BY <2>2, <4>1, <4>2 DEF Safe
    <3>. QED
      BY <1>0, <2>1, <3>1, <3>2 DEF LogKnown
  <2>. QED
    BY <2>3, <2>4
<1>3. CASE RemoveOldest /\ ~SameLogs
  <2>1. UNCHANGED <<flash, recorded, OnFC>>
    BY <1>3, RemovingStep DEF OnFC
  <2>2. PICK o \in Oldest :
                /\ \A r \in Sessions \ {o} : sess'[r] = sess[r]
                /\ sess'[o].cache = <<>> /\ sess'[o].disk = <<>>
    BY <1>3, RemovingStep
  <2>3. o \in Sessions /\ \A t \in Sessions : sess[t].dir => o <= t
    BY DEF Oldest, Present
  <2>4. CASE s = o
    <3>1. Torn(s)' = {}
      BY <2>2, <2>4 DEF Torn
    <3>. QED
      BY <1>0, <2>1, <2>2, <2>4, <3>1, EmptyContent DEF LogKnown, NothingIn
  <2>5. CASE s # o
    <3>1. sess'[s] = sess[s] /\ UNCHANGED Torn(s)
      BY <2>2, <2>5 DEF Torn
    <3>2. ASSUME NEW u \in Torn(s) PROVE Safe(u, s)'
      <4>1. Safe(u, s)
        BY <1>0, <3>2 DEF LogKnown
      <4>2. sess[s].dir
        BY <1>0, <3>2, EmptyContent DEF LogKnown, Torn, NothingIn
      <4>3. ASSUME NEW t \in Sessions, t > s, Settled(u, t) PROVE Settled(u, t)'
        <5>1. o <= s /\ t # o
          BY <2>3, <4>2, <4>3 DEF Sessions
        <5>. QED
          BY <2>2, <4>3, <5>1 DEF Settled
      <4>. QED
        BY <2>1, <4>1, <4>3 DEF Safe
    <3>. QED
      BY <1>0, <2>1, <3>1, <3>2 DEF LogKnown
  <2>. QED
    BY <2>4, <2>5
<1>4. CASE PowerLoss
  <2>1. /\ UNCHANGED recorded /\ sess'[s].dir = sess[s].dir
        /\ sess'[s].cache = sess'[s].disk
        /\ sess'[s].disk \in {sess[s].cache, sess[s].disk}
    BY <1>4, LossStep
  <2>2. Torn(s)' = {}
    BY <2>1 DEF Torn
  <2>. QED
    BY <1>0, <2>1, <2>2 DEF LogKnown
<1>. QED
  BY <1>1, <1>2, <1>3, <1>4, SameLogsStep

\* What is reclaimed was recorded.
LEMMA ReclaimedStep ==
    ASSUME Typed, FlashKnown, CopyKept, Tidy, LogsKnown, [Next]_vars
    PROVE  reclaimed' \subseteq 1..recorded'
<1>0. recorded \in Nat /\ reclaimed \subseteq 1..recorded
  BY DEF LogsKnown, Typed, TypeOK
<1>1. recorded' \in Nat /\ recorded' >= recorded
  BY <1>0, OnFCStep
<1>2. CASE UNCHANGED reclaimed
  BY <1>0, <1>1, <1>2
<1>3. CASE RemoveOldest /\ reclaimed' # reclaimed
  <2>1. PICK o \in Oldest : reclaimed' = reclaimed \cup (Content(sess[o].disk) \ {Bad})
    BY <1>3, RemovingStep
  <2>2. Content(sess[o].disk) \subseteq 0..recorded
    BY <2>1 DEF LogsKnown, LogKnown, Oldest, Present
  <2>3. Content(sess[o].disk) \ {Bad} \subseteq 1..recorded
    BY <1>0, <2>2 DEF Bad
  <2>4. 1..recorded \subseteq 1..recorded'
    BY <1>0, <1>1
  <2>. QED
    BY <1>0, <2>1, <2>3, <2>4
<1>. QED
  BY <1>2, <1>3, SameLogsStep, WritingStep, LossStep

\* ... hence all that LogsKnown says stays true.
LEMMA LogsStep ==
    ASSUME Typed, FlashKnown, CopyKept, Tidy, LogsKnown, [Next]_vars
    PROVE  LogsKnown'
<1>1. (\A s \in Sessions : LogKnown(s)') /\ reclaimed' \subseteq 1..recorded'
  BY LogStep, ReclaimedStep
<1>2. pc' \in Reading => cur' = made'
  <2>1. CASE Prepare
    BY <2>1 DEF Prepare, Fail, Reading
  <2>2. CASE ~Prepare
    <3>1. UNCHANGED <<cur, made>> /\ (pc' \in Reading => pc \in Reading)
      BY <2>2 DEF Next, ProcessStep, World, Open, Identify, Query, CheckStorage, RemoveOldest,
       EndCleanup, WriteChunk, ReadFail, ReadPanic, CloseFile, Verify,
       WriteManifest, Decide, SendErase, Poll, EraseDeadline, RecordErase, Panic, Start,
       Unplug, Fly, FinishErase, Kill, PowerLoss, vars, proc, disk, fc, Fail, EndWith, Goto,
       Reading
    <3>. QED
      BY <3>1 DEF LogsKnown
  <2>. QED
    BY <2>1, <2>2
<1>3. pc' = "read" => sess'[cur'].dir /\ Content(sess'[cur'].cache) \subseteq OnFC'
  <2>1. CASE Prepare /\ pc' = "read"
    <3>. DEFINE ready == [NoSession EXCEPT !.dir = TRUE, !.file = TRUE]
    <3>1. sess' = [sess EXCEPT ![made + 1] = ready] /\ cur' = made + 1 /\ made < MaxSessions
      BY <2>1 DEF Prepare, Fail
    <3>2. ready.dir /\ ready.cache = <<>>
      BY DEF NoSession
    <3>3. sess'[made + 1] = ready
      BY <3>1, SyncAssumption DEF Typed, TypeOK, Sessions
    <3>. QED
      BY <3>1, <3>2, <3>3, EmptyContent DEF NothingIn
  <2>2. CASE WriteChunk \/ ReadFail \/ ReadPanic \/ CloseFile
    BY <2>2, WritingStep DEF OnFC
  <2>3. CASE pc' = "read" /\ ~Prepare /\ ~WriteChunk
    <3>1. pc = "read" /\ UNCHANGED <<cur, sess>>
      BY <2>3 DEF Next, ProcessStep, World, Open, Identify, Query, CheckStorage, RemoveOldest,
       EndCleanup, ReadFail, ReadPanic, CloseFile, Verify,
       WriteManifest, Decide, SendErase, Poll, EraseDeadline, RecordErase, Panic, Start,
       Unplug, Fly, FinishErase, Kill, PowerLoss, vars, proc, disk, fc, Fail, EndWith, Goto
    <3>2. OnFC \subseteq OnFC'
      <4>1. ~SendErase
        BY <3>1 DEF SendErase
      <4>. QED
        BY <4>1, OnFCStep DEF OnFC
    <3>. QED
      BY <3>1, <3>2 DEF LogsKnown
  <2>. QED
    BY <2>1, <2>2, <2>3
<1>. QED
  BY <1>1, <1>2, <1>3 DEF LogsKnown

\* A unit is archived when the file of some session keeps it.
ArchivedUnit(u) == u # Bad /\ \E s \in Sessions : u \in Content(sess[s].disk)

LEMMA ArchivedMeans == \A u : u \in Archived <=> ArchivedUnit(u)
BY DEF Archived, ArchivedUnit

\* Every step of a sync, and all that happens around it, is a flight, a copy, a
\* reclaiming or an erase of SafeTransfer, or invisible there.
LEMMA StepTransfers ==
    ASSUME Typed, FlashKnown, CopyKept, Tidy, LogsKnown, [Next]_vars
    PROVE  [Transfer!TransferNext]_(Transfer!transferVars)
<1>. SUFFICES Transfer!TransferNext \/ UNCHANGED <<OnFC, Archived, reclaimed>>
  BY DEF Transfer!transferVars
<1>0. recorded \in Nat /\ Bad \notin OnFC
  <2>1. flash \in Seq(Units) /\ recorded \in Nat /\ Bad \notin Units
    BY DEF Typed, TypeOK, Units, Bad
  <2>. QED
    BY <2>1 DEF OnFC, Content
<1>1. CASE SameLogs /\ UNCHANGED reclaimed
  <2>1. UNCHANGED Archived
    BY <1>1 DEF SameLogs, Archived
  <2>2. CASE UNCHANGED <<flash, recorded>>
    BY <1>1, <2>1, <2>2 DEF OnFC
  <2>3. CASE recorded' = recorded + 1 /\ recorded' \in Units /\ OnFC' = OnFC \cup {recorded'}
    <3>1. recorded' \notin OnFC \cup Archived \cup reclaimed
      <4>1. recorded' \notin OnFC
        <5>1. flash \in Seq(Units) /\ Below(flash, recorded)
          BY DEF Typed, TypeOK
        <5>2. \A i \in 1..Len(flash) : flash[i] \in Units /\ flash[i] <= recorded
          BY <5>1 DEF Below
        <5>. QED
          BY <1>0, <2>3, <5>2 DEF OnFC, Content, Units
      <4>2. recorded' \notin Archived
        BY <1>0, <2>3, ArchivedMeans DEF ArchivedUnit, LogsKnown, LogKnown
      <4>. QED
        BY <1>0, <2>3, <4>1, <4>2 DEF LogsKnown
    <3>. QED
      BY <1>1, <2>1, <2>3, <3>1 DEF Transfer!TransferNext, Transfer!Record
  <2>4. CASE /\ OnFC' = {} /\ cur \in Sessions
             /\ Content(sess[cur].disk) = OnFC
    <3>1. OnFC \subseteq Archived
      BY <1>0, <2>4 DEF Archived
    <3>. QED
      BY <1>1, <2>1, <2>4, <3>1 DEF Transfer!TransferNext, Transfer!Erase
  <2>. QED
    BY <2>2, <2>3, <2>4, OnFCStep
<1>2. ASSUME UNCHANGED <<flash, reclaimed>>,
             \A u : u \notin OnFC => (ArchivedUnit(u)' <=> ArchivedUnit(u))
      PROVE  Transfer!TransferNext
  <2>1. UNCHANGED OnFC
    BY <1>2 DEF OnFC
  <2>2. \A u : u \in Archived' <=> ArchivedUnit(u)'
    BY DEF Archived, ArchivedUnit
  <2>3. \A u : u \in Archived' <=> u \in (Archived \ OnFC) \cup (Archived' \cap OnFC)
    BY <1>2, <2>2, ArchivedMeans
  <2>4. Archived' = (Archived \ OnFC) \cup (Archived' \cap OnFC)
    BY <2>3
  <2>5. Archived' \cap OnFC \in SUBSET OnFC
    OBVIOUS
  <2>. QED
    BY <1>2, <2>1, <2>4, <2>5 DEF Transfer!TransferNext, Transfer!Copy
<1>3. CASE WriteChunk \/ ReadFail \/ ReadPanic \/ CloseFile
  <2>1. /\ UNCHANGED <<flash, reclaimed>>
        /\ \A r \in Sessions \ {cur} : sess'[r] = sess[r]
        /\ Content(sess[cur].disk) \subseteq OnFC
        /\ Content(sess'[cur].disk) \subseteq OnFC \cup {Bad}
    BY <1>3, WritingStep
  <2>2. ASSUME NEW u, u \notin OnFC PROVE ArchivedUnit(u)' <=> ArchivedUnit(u)
    BY <2>1, <2>2 DEF ArchivedUnit
  <2>. QED
    BY <1>2, <2>1, <2>2
<1>4. CASE PowerLoss
  <2>1. /\ UNCHANGED <<flash, reclaimed>>
        /\ \A s \in Sessions : sess'[s].disk \in {sess[s].cache, sess[s].disk}
    BY <1>4, LossStep
  <2>2. ASSUME NEW u, u \notin OnFC, u # Bad, NEW s \in Sessions,
               u \in Content(sess[s].disk) \/ u \in Content(sess[s].cache)
        PROVE  \E t \in Sessions : u \in Content(sess[t].disk) /\ u \in Content(sess[t].cache)
    <3>1. CASE u \in Torn(s)
      <4>1. Safe(u, s)
        BY <3>1 DEF LogsKnown, LogKnown
      <4>. QED
        BY <2>2, <4>1 DEF Safe, Settled
    <3>2. CASE u \notin Torn(s)
      BY <2>2, <3>2 DEF Torn
    <3>. QED
      BY <3>1, <3>2
  <2>3. ASSUME NEW u, u \notin OnFC PROVE ArchivedUnit(u)' <=> ArchivedUnit(u)
    <3>1. ArchivedUnit(u) => ArchivedUnit(u)'
      BY <2>1, <2>2, <2>3 DEF ArchivedUnit
    <3>2. ArchivedUnit(u)' => ArchivedUnit(u)
      BY <2>1, <2>2, <2>3 DEF ArchivedUnit
    <3>. QED
      BY <3>1, <3>2
  <2>. QED
    BY <1>2, <2>1, <2>3
<1>5. CASE RemoveOldest /\ ~(SameLogs /\ UNCHANGED reclaimed)
  <2>1. UNCHANGED OnFC
    BY <1>5, RemovingStep DEF OnFC
  <2>2. PICK o \in Oldest :
                /\ \A r \in Sessions \ {o} : sess'[r] = sess[r]
                /\ sess'[o].cache = <<>> /\ sess'[o].disk = <<>>
                /\ reclaimed' = reclaimed \cup (Content(sess[o].disk) \ {Bad})
    BY <1>5, RemovingStep
  <2>3. o \in Sessions
    BY DEF Oldest, Present
  <2>. DEFINE T == Content(sess[o].disk) \ {Bad}
  <2>4. T \in SUBSET Archived
    BY <2>3 DEF Archived
  <2>5. \A u : u \in Archived' <=> ArchivedUnit(u)'
    BY DEF Archived, ArchivedUnit
  <2>6. ASSUME NEW u, ArchivedUnit(u)' PROVE ArchivedUnit(u)
    BY <2>2, <2>6, EmptyContent DEF ArchivedUnit, NothingIn
  <2>7. ASSUME NEW u, ArchivedUnit(u), ~ArchivedUnit(u)' PROVE u \in T
    BY <2>2, <2>7 DEF ArchivedUnit
  <2>8. Archived \ Archived' \in SUBSET T
    BY <2>5, <2>7, ArchivedMeans
  <2>9. Archived' = Archived \ (Archived \ Archived')
    BY <2>5, <2>6, ArchivedMeans
  <2>10. Archived' \in {Archived \ S : S \in SUBSET T}
    BY <2>8, <2>9
  <2>. QED
    BY <2>1, <2>2, <2>4, <2>10 DEF Transfer!TransferNext, Transfer!Reclaim
<1>. QED
  BY <1>1, <1>3, <1>4, <1>5, SameLogsStep

\* For every instance: a sync, with the flights, kills, power losses, unplugs
\* and cleanups around it, implements what a pilot expects of the appliance.
THEOREM SyncImplementsTransfer == Spec => ImplementsSafeTransfer
<1>1. Init => LogsKnown /\ Transfer!TransferInit
  BY EmptyContent DEF Init, LogsKnown, LogKnown, Torn, Reading, NoSession, NothingIn,
     Transfer!TransferInit, OnFC, Archived
<1>2. Typed /\ FlashKnown /\ CopyKept /\ Tidy /\ LogsKnown /\ [Next]_vars
         => LogsKnown' /\ [Transfer!TransferNext]_(Transfer!transferVars)
  BY LogsStep, StepTransfers
<1>. QED
  BY <1>1, <1>2, SessionsAreTidy, PTL
     DEF Spec, ImplementsSafeTransfer, Transfer!TransferSpec

\* No step of SafeTransfer loses a unit.
LEMMA TransferKeeps ==
  ASSUME [Transfer!TransferNext]_(Transfer!transferVars)
  PROVE  [Transfer!Recorded \subseteq Transfer!Recorded']_(Transfer!transferVars)
<1>1. CASE Transfer!TransferNext
  BY <1>1 DEF Transfer!TransferNext, Transfer!Record, Transfer!Copy, Transfer!Reclaim,
              Transfer!Erase, Transfer!Recorded
<1>2. CASE UNCHANGED Transfer!transferVars
  BY <1>2
<1>. QED
  BY <1>1, <1>2

\* So no step of the appliance does: a unit that is on the FC or durably on the
\* card, and was not given up, is on one of them after every step of Run
\* (orchestrator.go:144), a flight, a kill, an unplug or a power loss, or that
\* step gives it up.
THEOREM NoStepLoses == Spec => Transfer!NeverLost
<1>1. Transfer!TransferSpec => Transfer!NeverLost
  BY TransferKeeps, PTL DEF Transfer!TransferSpec, Transfer!NeverLost
<1>. QED
  BY <1>1, SyncImplementsTransfer, PTL DEF ImplementsSafeTransfer
=============================================================================
