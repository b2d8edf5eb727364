---------------------------- MODULE SyncSession ----------------------------
(***************************************************************************)
(* Orchestrator.Run: the ten steps of a sync, run once per plug-in of a    *)
(* flight controller, on an appliance that may be killed, lose power or    *)
(* lose the controller at any moment, and the session directories it       *)
(* leaves behind.                                                          *)
(*                                                                         *)
(* A log is a sequence of numbered units, recorded in that order; step 6   *)
(* copies some prefix of the flash, which is what FlashRead is proved to   *)
(* do.  SHA-256 is taken to be injective: comparing hashes is comparing    *)
(* contents.  Each session keeps what its log file holds for a reader      *)
(* (`cache`, the page cache) and what would survive a power loss (`disk`), *)
(* and the same of its manifest.  fsync of a new file is taken to make its *)
(* directory entry and its parent directories durable too (ext4 does).     *)
(*                                                                         *)
(* Session n is the n-th directory created; the clock that names them is   *)
(* taken to move forward by at least a second between two syncs.           *)
(***************************************************************************)
EXTENDS Integers, Sequences, FiniteSets

CONSTANTS MaxUnits,     \* bound: units of log ever recorded
          MaxSessions,  \* bound: session directories ever created
          MaxMail,      \* bound: unread flash summaries on the line
          Capacity,     \* units the storage holds
          Reserve,      \* cfg.MinFreeSpaceMB, in units
          FlashCap,     \* maxFlashUsedSize, in units
          Cleanup,      \* cfg.StoragePressureCleanup
          Modes,        \* of {"erase", "keep", "dry"}: what a run may be asked
          Panics        \* may the code panic?

ASSUME SyncAssumption ==
    /\ MaxUnits \in Nat
    /\ MaxSessions \in Nat
    /\ MaxMail \in Nat \ {0}
    /\ Capacity \in Nat /\ Reserve \in Nat /\ FlashCap \in Nat
    /\ Cleanup \in BOOLEAN
    /\ Modes \subseteq {"erase", "keep", "dry"}
    /\ Panics \in BOOLEAN

Units == 1..MaxUnits
Bad == 0                  \* a unit that was not stored as it was received
Sessions == 1..MaxSessions

VARIABLES pc,         \* step of the running sync, or "off"
          mode,       \* erase, keep (erase_after_sync = false) or dry (--dry-run)
          used,       \* usedSize: the step 3 summary
          hashed,     \* what went through StreamWriter.Write: hash and count
          cur,        \* this run's session (sessionDir)
          eraseOK,    \* what waitForErase returned
          result,     \* SyncResult of the last run, or none / killed
          status,     \* currentStatus.State
          led,        \* the last state given to the LED controller
          flash,      \* FC: the units in use, in order
          busy,       \* FC: erasing
          linked,     \* is the FC connected to the running process?
          mail,       \* unread summaries: did they say "empty and ready"?
          sess,       \* the session directories
          made,       \* how many were ever created
          recorded,   \* history: units recorded so far
          reclaimed   \* history: units deleted from storage to make room

proc  == <<mode, used, hashed, cur, eraseOK>>
shown == <<result, status, led>>
fc    == <<flash, busy, linked, mail>>
disk  == <<sess, made, reclaimed>>
vars  == <<pc, proc, shown, fc, disk, recorded>>

----------------------------------------------------------------------------
(* Sessions *)

NoSession == [dir |-> FALSE, file |-> FALSE, cache |-> <<>>, disk |-> <<>>,
              sum |-> <<>>, man |-> "none", manDisk |-> "none"]

Present == {s \in Sessions : sess[s].dir}

\* Mutation: the candidates are sorted the other way round.
Newest == {s \in Present : \A t \in Present : s >= t}

\* The candidates sorted by name: the one CleanupOldestSessions removes next.
Oldest == {s \in Present : \A t \in Present : s <= t}

\* util.FreeBytes, in units
Free == Capacity - Cardinality({c \in Sessions \X Units :
                                   /\ sess[c[1]].dir
                                   /\ c[2] <= Len(sess[c[1]].cache)})

Required == used + Reserve

Content(file) == {file[i] : i \in 1..Len(file)}

Upto(log, n) == SubSeq(log, 1, n)

\* What may have become of a file once received units reach storage.
Stored(log) == {log} \cup {[log EXCEPT ![i] = Bad] : i \in 1..Len(log)}

----------------------------------------------------------------------------
(* How a run ends, and what the LED and the status show *)

Show(l, s) == led' = l /\ status' = s

\* `o.LED.SetState(led.Error); SetStatus("error", ...); return ResultError`
Fail == /\ pc' = "off"
        /\ result' = "error"
        /\ Show("error", "error")

EndWith(r) == /\ pc' = "off"
              /\ result' = r
              /\ Show("done", "idle")

Goto(p, s) == /\ pc' = p
              /\ status' = s
              /\ UNCHANGED <<result, led>>

----------------------------------------------------------------------------
Init == /\ pc = "off"
        /\ mode \in Modes
        /\ used = 0
        /\ hashed = <<>>
        /\ cur = 0
        /\ eraseOK = FALSE
        /\ result = "none"
        /\ led = "off"
        /\ status = "idle"
        /\ flash = <<>>
        /\ busy = FALSE
        /\ linked = FALSE
        /\ mail = <<>>
        /\ sess = [s \in Sessions |-> NoSession]
        /\ made = 0
        /\ recorded = 0
        /\ reclaimed = {}

(* Steps 1 to 3: open the port, identify the FC, query its flash *)

Open == /\ pc = "open"
        /\ \/ linked /\ Goto("identify", "identifying")
           \/ Fail
        /\ UNCHANGED <<proc, fc, disk, recorded>>

Identify == /\ pc = "identify"
            /\ \/ linked /\ Goto("query", "querying")
               \/ Fail       \* no answer, unsupported variant, version, SD card
            /\ UNCHANGED <<proc, fc, disk, recorded>>

Query == /\ pc = "query"
         /\ \/ /\ linked
               /\ used' = Len(flash)
               /\ CASE busy                   -> Fail
                    [] ~busy /\ flash = <<>>  -> EndWith("empty")
                    [] ~busy /\ Len(flash) > FlashCap -> Fail
                    [] OTHER -> pc' = "storage" /\ UNCHANGED shown
            \/ Fail /\ UNCHANGED used          \* no answer, or not supported
         /\ UNCHANGED <<mode, hashed, cur, eraseOK, fc, disk, recorded>>

(* Steps 4 and 5: make room, create the session directory and its file *)

CheckStorage ==
    /\ pc = "storage"
    /\ \/ Free >= Required /\ pc' = "prepare" /\ UNCHANGED shown
       \/ Free < Required /\ Cleanup /\ Goto("cleanup", "querying")
       \/ Free < Required /\ ~Cleanup /\ Fail
       \/ Fail                                 \* MkdirAll or statfs fails
    /\ UNCHANGED <<proc, fc, disk, recorded>>

\* The log file of a session is unlinked (writer.Abort, RemoveAll).
Unlinked(s) == [sess EXCEPT ![s].file = FALSE, ![s].cache = <<>>, ![s].disk = <<>>]

\* One turn of the loop of CleanupOldestSessions.  RemoveAll unlinks the files
\* one by one, in any order, and may stop half-way: it fails, or is killed.
RemoveOldest ==
    /\ pc = "cleanup"
    /\ Free < Required
    /\ \E s \in Oldest :
          \/ /\ sess' \in {[sess EXCEPT ![s] = NoSession], Unlinked(s)}
             /\ reclaimed' = reclaimed \cup (Content(sess[s].disk) \ {Bad})
          \/ /\ sess' = [sess EXCEPT ![s].man = "none", ![s].manDisk = "none",
                                     ![s].sum = <<>>]
             /\ UNCHANGED reclaimed
    /\ UNCHANGED <<pc, proc, shown, fc, made, recorded>>

\* The loop ends (also on an error, which is only logged): look again.
EndCleanup ==
    /\ pc = "cleanup"
    /\ \/ Free >= Required /\ pc' = "prepare" /\ UNCHANGED shown
       \/ Fail                    \* still too little, or statfs fails (0 MB)
    /\ UNCHANGED <<proc, fc, disk, recorded>>

\* MakeSessionDir, NewStreamWriter; then step 6 is announced.
Prepare ==
    /\ pc = "prepare"
    /\ \/ /\ made < MaxSessions
          /\ made' = made + 1
          /\ cur' = made + 1
          /\ hashed' = <<>>
          /\ \/ /\ sess' = [sess EXCEPT ![made + 1] =
                               [NoSession EXCEPT !.dir = TRUE, !.file = TRUE]]
                /\ pc' = "read"
                /\ Show("busy", "syncing")
                /\ UNCHANGED result
             \/ /\ sess' = [sess EXCEPT ![made + 1] = [NoSession EXCEPT !.dir = TRUE]]
                /\ Fail                        \* the file cannot be created
       \/ Fail /\ UNCHANGED <<sess, made, cur, hashed>>
    /\ UNCHANGED <<mode, used, eraseOK, fc, reclaimed, recorded>>

(* Step 6: readFlash, as FlashCopy describes it *)

\* writer.Write.  Every piece is smaller than the buffer, so the file holds all
\* of it only after one of the periodic flush-and-fsync.
WriteChunk ==
    /\ pc = "read"
    /\ linked
    /\ \E n \in Len(hashed) + 1 .. used :
          /\ hashed' = Upto(flash, n)
          /\ \/ \E k \in Len(sess[cur].cache) .. n - 1 :
                   sess' = [sess EXCEPT ![cur].cache = Upto(flash, k)]
             \/ sess' = [sess EXCEPT ![cur].cache = Upto(flash, n),
                                     ![cur].disk = Upto(flash, n)]
    /\ UNCHANGED <<pc, mode, used, cur, eraseOK, shown, fc, made, reclaimed, recorded>>

\* Too many errors, deadline, write error: writer.Abort closes without flushing
\* and removes.  When the removal fails, which nobody looks at, the file stays.
ReadFail == /\ pc = "read"
            /\ sess' \in {sess, Unlinked(cur)}
            /\ Fail
            /\ UNCHANGED <<proc, fc, made, reclaimed, recorded>>

\* recover() in readFlash: abort and return nil, so that the run goes on.
ReadPanic == /\ Panics
             /\ pc = "read"
             /\ sess' \in {sess, Unlinked(cur)}
             /\ pc' = "verify"
             /\ Show("busy", "verifying")
             /\ UNCHANGED <<proc, result, fc, made, reclaimed, recorded>>

\* Mutation: the file is closed without fsync.
CloseFileUnsynced ==
    /\ pc = "read"
    /\ sess' = [sess EXCEPT ![cur].cache = hashed]
    /\ pc' = "verify"
    /\ Show("busy", "verifying")
    /\ UNCHANGED <<proc, result, fc, made, reclaimed, recorded>>

\* All read, or "end of data": writer.Close flushes, fsyncs and closes.  When
\* it fails the file is left as it is.
CloseFile ==
    /\ pc = "read"
    /\ \/ /\ \E log \in Stored(hashed) :
                sess' = [sess EXCEPT ![cur].cache = log, ![cur].disk = log]
          /\ pc' = "verify"
          /\ Show("busy", "verifying")
          /\ UNCHANGED result
       \/ /\ \E log \in {sess[cur].cache} \cup Stored(hashed) :
                sess' = [sess EXCEPT ![cur].cache = log]
          /\ Fail
    /\ UNCHANGED <<proc, fc, made, reclaimed, recorded>>

(* Steps 7 and 8: verify the copy, write the manifest *)

\* Mutation: no size check.
VerifiedAnySize == sess[cur].file /\ sess[cur].cache = hashed

\* Mutation: no hash check.
VerifiedUnhashed == Len(hashed) = used /\ sess[cur].file

Verified == /\ Len(hashed) = used             \* BytesWritten
            /\ sess[cur].file                 \* VerifyAgainstFile: os.Open
            /\ sess[cur].cache = hashed       \* VerifyAgainstFile: hashes

Verify == /\ pc = "verify"
          /\ \/ Verified /\ pc' = "manifest" /\ UNCHANGED shown
             \/ Fail                           \* also when the file cannot be read
          /\ UNCHANGED <<proc, fc, disk, recorded>>

\* atomicJSONWrite: temporary file, fsync, rename; the fsync of the directory
\* that makes the rename durable may fail unnoticed.
PutManifest(m) ==
    \E onDisk \in {m, sess[cur].manDisk} :
        sess' = [sess EXCEPT ![cur].man = m, ![cur].manDisk = onDisk,
                             ![cur].sum = hashed]

WriteManifest == /\ pc = "manifest"
                 /\ \/ PutManifest("copied") /\ pc' = "decide" /\ UNCHANGED shown
                    \/ Fail /\ UNCHANGED sess
                 /\ UNCHANGED <<proc, fc, made, reclaimed, recorded>>

(* Steps 9 and 10: erase the FC flash, record it *)

Decide == /\ pc = "decide"
          /\ \/ mode = "dry" /\ EndWith("dryrun")
             \/ mode = "keep" /\ EndWith("success")
             \/ /\ mode = "erase"
                /\ pc' = "erase"
                /\ Show("busy", "erasing")
                /\ UNCHANGED result
          /\ UNCHANGED <<proc, fc, disk, recorded>>

\* EraseFlash has no answer: whether the command arrived is not known.
SendErase ==
    /\ pc = "erase"
    /\ eraseOK' = FALSE
    /\ \/ /\ linked
          /\ pc' = "poll"
          /\ \/ flash' = <<>> /\ busy' = TRUE
             \/ UNCHANGED <<flash, busy>>          \* lost
       \/ /\ pc' = "record"                        \* Send failed
          /\ UNCHANGED <<flash, busy>>
    /\ UNCHANGED <<mode, used, hashed, cur, shown, linked, mail, disk, recorded>>

\* Mutation: the ready flag is not looked at.
EmptyOnly == flash = <<>>

\* `summary.UsedSize == 0 && summary.Ready`, as the FC sees it now
EmptyAndReady == flash = <<>> /\ ~busy

\* The FC answers a poll; the client takes the last of the summaries that have
\* arrived, which may be the answer to an earlier poll, or gives up waiting.
Poll ==
    /\ pc = "poll"
    /\ linked
    /\ Len(mail) < MaxMail
    /\ LET answers == Append(mail, EmptyAndReady)
       IN  \/ \E n \in 1..Len(answers) :
                 /\ mail' = SubSeq(answers, n + 1, Len(answers))
                 /\ eraseOK' = answers[n]
                 /\ pc' = IF answers[n] THEN "record" ELSE "poll"
           \/ mail' = answers /\ UNCHANGED <<pc, eraseOK>>
    /\ UNCHANGED <<mode, used, hashed, cur, shown, flash, busy, linked, disk, recorded>>

EraseDeadline == /\ pc = "poll"
                 /\ pc' = "record"
                 /\ UNCHANGED <<proc, shown, fc, disk, recorded>>

\* Mutation: the manifest records an erase whatever the outcome.
RecordEraseAlways ==
    /\ pc = "record"
    /\ PutManifest("erased") \/ UNCHANGED sess
    /\ IF eraseOK THEN EndWith("success") ELSE Fail
    /\ UNCHANGED <<proc, fc, made, reclaimed, recorded>>

\* UpdateManifestErase, whose error is ignored, and the end of the run.
RecordErase == /\ pc = "record"
               /\ \/ PutManifest(IF eraseOK THEN "erased" ELSE "attempted")
                  \/ UNCHANGED sess
               /\ IF eraseOK THEN EndWith("success") ELSE Fail
               /\ UNCHANGED <<proc, fc, made, reclaimed, recorded>>

\* recover() in Run: LED and status say error, but the unnamed result keeps its
\* zero value, which is ResultSuccess.
Panic == /\ Panics
         /\ pc \notin {"off", "read"}
         /\ pc' = "off"
         /\ result' = "success"
         /\ Show("error", "error")
         /\ UNCHANGED <<proc, fc, disk, recorded>>

ProcessStep == \/ Open \/ Identify \/ Query
               \/ CheckStorage \/ RemoveOldest \/ EndCleanup \/ Prepare
               \/ WriteChunk \/ ReadFail \/ ReadPanic \/ CloseFile
               \/ Verify \/ WriteManifest
               \/ Decide \/ SendErase \/ Poll \/ EraseDeadline \/ RecordErase
               \/ Panic

----------------------------------------------------------------------------
(* The world around the process *)

\* udev starts one run for the device that appeared (or the user starts one).
Start == /\ pc = "off"
         /\ mode' \in Modes
         /\ pc' = "open"
         /\ linked' = TRUE
         /\ mail' = <<>>
         /\ result' = "none"
         /\ Show("busy", "idle")
         /\ UNCHANGED <<used, hashed, cur, eraseOK, flash, busy, disk, recorded>>

\* The FC is pulled out: an erase it had accepted is cut short, and the dead
\* port stays dead for the running process.
Unplug == /\ linked
          /\ linked' = FALSE
          /\ busy' = FALSE
          /\ mail' = <<>>
          /\ UNCHANGED <<pc, proc, shown, flash, disk, recorded>>

Fly == /\ ~linked
       /\ recorded < MaxUnits
       /\ recorded' = recorded + 1
       /\ flash' = Append(flash, recorded + 1)
       /\ UNCHANGED <<pc, proc, shown, busy, linked, mail, disk>>

FinishErase == /\ busy
               /\ busy' = FALSE
               /\ UNCHANGED <<pc, proc, shown, flash, linked, mail, disk, recorded>>

\* systemd stops the service: BindsTo, TimeoutStartSec, the memory limit.
Kill == /\ pc # "off"
        /\ pc' = "off"
        /\ result' = "killed"
        /\ Show("off", "idle")
        /\ UNCHANGED <<proc, fc, disk, recorded>>

\* Each file keeps what was fsynced, and perhaps more.
PowerLoss ==
    /\ pc' = "off"
    /\ result' = "killed"
    /\ Show("off", "idle")
    /\ linked' = FALSE /\ busy' = FALSE /\ mail' = <<>>
    /\ \E lost \in SUBSET Present :
          sess' = [s \in Sessions |->
                     IF s \in lost
                     THEN [sess[s] EXCEPT !.cache = sess[s].disk, !.man = sess[s].manDisk]
                     ELSE [sess[s] EXCEPT !.disk = sess[s].cache, !.manDisk = sess[s].man]]
    /\ UNCHANGED <<proc, flash, made, reclaimed, recorded>>

World == Start \/ Unplug \/ Fly \/ FinishErase \/ Kill \/ PowerLoss

Next == ProcessStep \/ World

Spec == Init /\ [][Next]_vars

----------------------------------------------------------------------------
(* Properties *)

\* What a log file may hold.
AnyLog == Seq(Units \cup {Bad})

ManifestStates == {"none", "copied", "attempted", "erased"}

SessionSet == [dir : BOOLEAN, file : BOOLEAN, cache : AnyLog, disk : AnyLog,
               sum : Seq(Units), man : ManifestStates, manDisk : ManifestStates]

\* The types of the variables.  What was hashed and what a manifest vouches for
\* are units as the FC sent them; what a log file holds may also be Bad.
TypeOK ==
    /\ pc \in {"off", "open", "identify", "query", "storage", "cleanup", "prepare",
               "read", "verify", "manifest", "decide", "erase", "poll", "record"}
    /\ mode \in Modes
    /\ used \in 0..MaxUnits
    /\ hashed \in Seq(Units)
    /\ cur \in 0..made
    /\ eraseOK \in BOOLEAN
    /\ result \in {"none", "killed", "success", "empty", "error", "dryrun"}
    /\ status \in {"idle", "identifying", "querying", "syncing", "verifying",
                   "erasing", "error"}
    /\ led \in {"off", "busy", "done", "error"}
    /\ flash \in Seq(Units)
    /\ busy \in BOOLEAN
    /\ linked \in BOOLEAN
    /\ mail \in Seq(BOOLEAN) /\ Len(mail) <= MaxMail
    /\ sess \in [Sessions -> SessionSet]
    /\ made \in 0..MaxSessions
    /\ recorded \in 0..MaxUnits
    /\ reclaimed \in SUBSET Units

OnFC == Content(flash)

Archived == (UNION {Content(sess[s].disk) : s \in Sessions}) \ {Bad}

\* Every unit ever recorded is on the FC, or durably on the SD card, or was
\* deleted from the card to make room: whatever fails, is pulled out or is cut
\* off, and however often syncs are repeated.
NothingLost == 1..recorded \subseteq OnFC \cup Archived \cup reclaimed

\* RELEASE_PLAN.md:20: "Never erase unless an exact-length transfer, durable
\* save and validation have all succeeded."  When the FC is told to erase, this
\* run's session holds all of the flash, on disk, under its hash, and the run
\* was asked to erase.
EraseOnlyArchived ==
    [][(flash # <<>> /\ flash' = <<>>) =>
          /\ mode = "erase"
          /\ sess[cur].disk = flash
          /\ sess[cur].man = "copied" /\ sess[cur].sum = flash]_vars

\* A session that is listed (it has a manifest) holds, on disk, exactly the
\* bytes its manifest gives the hash of: also after a power loss, and also when
\* the sync that wrote it did not finish.  If its log file is gone, the session
\* was being deleted to make room.
ManifestMeansComplete ==
    \A s \in Sessions :
        sess[s].man # "none" =>
            \/ sess[s].file /\ sess[s].disk = sess[s].sum /\ sess[s].cache = sess[s].sum
            \/ ~sess[s].file /\ Content(sess[s].sum) \subseteq reclaimed

\* "FC erased" in the session list: none of the session's log is on the FC.
ErasedMeansGone ==
    \A s \in Sessions :
        sess[s].man = "erased" => Content(sess[s].sum) \cap OnFC = {}

\* "Sync complete -- safe to unplug and fly again": a run that was to erase and
\* shows success leaves the FC empty and no longer erasing.
SuccessMeansErased ==
    (result = "success" /\ status = "idle" /\ mode = "erase" /\ linked)
        => flash = <<>> /\ ~busy

ShowsSuccess == led = "done" /\ status = "idle"
ShowsError == led = "error" /\ status = "error"

\* This run's session holds all that the step 3 summary announced, on disk,
\* under its hash, and is listed.
CopyStands == /\ Len(hashed) = used
              /\ sess[cur].file
              /\ sess[cur].cache = hashed /\ sess[cur].disk = hashed
              /\ sess[cur].sum = hashed /\ sess[cur].man # "none"

\* The FC, while it is still plugged in, is as its run was to leave it.
FlashIsLeft ==
    linked => IF result = "empty" \/ mode = "erase"
              THEN flash = <<>> /\ ~busy
              ELSE flash = hashed

\* RELEASE_PLAN.md:23: the LED and the dashboard "must agree with the actual
\* transfer outcome".  The LED says done only of a run that ended by itself,
\* that found nothing or whose copy stands, and with the FC as that run was to
\* leave it: never of a run that failed, panicked, was killed or goes on.  And
\* a run that returns an error, or that it found nothing, or was dry, shows so.
\* (Of ResultSuccess under an error display see SuccessIsShown.)
OutcomeIsShown ==
    /\ led = "done" => /\ pc = "off" /\ status = "idle"
                       /\ result \in {"empty", "success", "dryrun"}
                       /\ result # "empty" => CopyStands
                       /\ FlashIsLeft
    /\ result \in {"empty", "dryrun"} => ShowsSuccess
    /\ result = "error" => ShowsError

\* RELEASE_PLAN.md:23: the LED and the dashboard "must agree with the actual
\* transfer outcome".
SuccessIsShown == result = "success" => ShowsSuccess

\* The oldest sessions go first, and no more of them than are needed: a session
\* directory that goes is older than all that stay, and while it was there the
\* space was still short.
OldestFirst ==
    [][\A s \in Present : s \notin Present' =>
          /\ Free < Required
          /\ \A t \in Present' : s < t]_vars

\* What the whole appliance promises.
Transfer == INSTANCE SafeTransfer WITH onFC <- OnFC, archived <- Archived

ImplementsSafeTransfer == Transfer!TransferSpec
=============================================================================
