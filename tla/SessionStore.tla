---------------------------- MODULE SessionStore ----------------------------
(***************************************************************************)
(* The directory of sessions as the processes that share it see it: syncs, *)
(* of which there may be two at once, each making room, creating its       *)
(* session and writing its manifest, and the web server, which lists       *)
(* sessions through a cache and deletes them.  Nothing locks the directory; *)
(* a step here is about one system call.                                   *)
(*                                                                         *)
(* A session is named by its FC's directory and the second it was made in. *)
(* What a log holds is the number of the run that wrote it.  Amounts of    *)
(* space, power loss and the FC are in SyncSession; here a run finds the   *)
(* card tight or not, and any call may fail.                               *)
(***************************************************************************)
EXTENDS Naturals

CONSTANTS FCs,      \* FC directories: variant and UID, which may be "unknown"
          Writers,  \* processes that can run a sync
          Web,      \* the handler of the web server that deletes
          MaxRuns,  \* bound: syncs ever begun
          MaxTime,  \* bound: the clock, in seconds
          Worlds    \* of subsets of WorldKinds

\* "two": a sync may begin while another is running; "clock": the clock may stand
\* still between two runs, or go back; "download": somebody downloads a log.
WorldKinds == {"two", "clock", "download"}

ASSUME StoreAssumption ==
    /\ Web \notin Writers
    /\ MaxRuns \in Nat /\ MaxTime \in Nat
    /\ Worlds \subseteq SUBSET WorldKinds

Names == FCs \X (1..MaxTime)
Removers == Writers \cup {Web}

NoLog == [run |-> 0, whole |-> FALSE]
NoManifest == [run |-> 0, erased |-> FALSE]
NoName == <<>>
NoRequest == [name |-> NoName, run |-> 0]
NoDownload == [step |-> "none", name |-> NoName, run |-> 0, got |-> {}]

VARIABLES world,
          last,     \* history: the latest second a session was named by
          runs,     \* how many syncs have begun
          fcDirs,   \* FC directories
          dirs,     \* session directories
          log,      \* raw_flash.bbl of each, or NoLog
          tmp,      \* manifest.json.tmp of each, or NoManifest
          man,      \* manifest.json of each, or NoManifest
          pc,       \* step of each sync, or "off"
          run,      \* ... its number
          name,     \* ... its session
          todo,     \* ... the candidates its cleanup has left
          read,     \* ... the manifest it has read to update it
          rm,       \* how far a removal has got: "no", "entries", "parent", "rmdir"
          victim,   \* ... and what it removes
          request,  \* what the web server deletes: name and run it held
          reply,    \* "none", "removing" or "invalidate"
          listing,  \* does getSessions hold the lock and list?
          unread,   \* ... directories it has not looked into yet
          found,    \* ... sessions it has found
          cache,    \* sessionsCache.data
          fresh,    \* is it younger than its TTL?
          download, \* how far a client of GET /download is, and what it has got
          removed,  \* history: runs a file of which was deleted, and by whom
          gone      \* history: deletions that were answered

files   == <<fcDirs, dirs, log, tmp, man>>
syncs   == <<pc, run, name, todo, read, runs>>
removal == <<rm, victim>>
lister  == <<listing, unread, found, cache, fresh>>
deletion == <<request, reply>>
handler == <<deletion, download>>
clock   == <<world, last>>
history == <<removed, gone>>
vars == <<clock, files, syncs, removal, lister, handler, history>>

Init == /\ world \in Worlds
        /\ last = 0 /\ runs = 0
        /\ fcDirs = {} /\ dirs = {}
        /\ log = [n \in Names |-> NoLog]
        /\ tmp = [n \in Names |-> NoManifest]
        /\ man = [n \in Names |-> NoManifest]
        /\ pc = [w \in Writers |-> "off"]
        /\ run = [w \in Writers |-> 0]
        /\ name = [w \in Writers |-> NoName]
        /\ todo = [w \in Writers |-> {}]
        /\ read = [w \in Writers |-> NoManifest]
        /\ rm = [p \in Removers |-> "no"]
        /\ victim = [p \in Removers |-> NoName]
        /\ request = NoRequest
        /\ reply = "none"
        /\ download = NoDownload
        /\ listing = FALSE /\ unread = {} /\ found = {}
        /\ cache = {} /\ fresh = FALSE
        /\ removed = {} /\ gone = {}

Goto(w, step) == pc' = [pc EXCEPT ![w] = step]

\* A sync has ended; its variables are forgotten.
Off(w) == /\ Goto(w, "off")
          /\ run' = [run EXCEPT ![w] = 0]
          /\ name' = [name EXCEPT ![w] = NoName]
          /\ todo' = [todo EXCEPT ![w] = {}]
          /\ read' = [read EXCEPT ![w] = NoManifest]

Done(p) == /\ rm' = [rm EXCEPT ![p] = "no"]
           /\ victim' = [victim EXCEPT ![p] = NoName]

----------------------------------------------------------------------------
(* os.RemoveAll of a session, then its FC directory if that is empty: the   *)
(* same lines in CleanupOldestSessions and in handleDeleteSession           *)

Remove(p, n) == /\ rm' = [rm EXCEPT ![p] = "entries"]
                /\ victim' = [victim EXCEPT ![p] = n]

\* Entries go one by one, in any order.
UnlinkEntry(p) ==
    /\ rm[p] = "entries"
    /\ LET n == victim[p]
       IN  \/ /\ log[n] # NoLog
              /\ log' = [log EXCEPT ![n] = NoLog]
              /\ removed' = removed \cup {<<p, log[n].run>>}
              /\ UNCHANGED <<tmp, man>>
           \/ /\ man[n] # NoManifest
              /\ man' = [man EXCEPT ![n] = NoManifest]
              /\ removed' = removed \cup {<<p, man[n].run>>}
              /\ UNCHANGED <<log, tmp>>
           \/ /\ tmp[n] # NoManifest
              /\ tmp' = [tmp EXCEPT ![n] = NoManifest]
              /\ UNCHANGED <<log, man, removed>>
    /\ UNCHANGED <<clock, fcDirs, dirs, syncs, removal, lister, handler, gone>>

Empty(n) == log[n] = NoLog /\ tmp[n] = NoManifest /\ man[n] = NoManifest

\* Then the directory, which has to be empty.  It may be gone already.
RemoveDir(p) ==
    /\ rm[p] = "entries"
    /\ Empty(victim[p])
    /\ dirs' = dirs \ {victim[p]}
    /\ rm' = [rm EXCEPT ![p] = "parent"]
    /\ UNCHANGED <<clock, fcDirs, log, tmp, man, syncs, victim, lister, handler, history>>

\* RemoveAll fails: on some error, or because a file has appeared in between.  A
\* cleanup ends with it, the web server answers 500.
RemoveFails(p) ==
    /\ rm[p] = "entries"
    /\ Done(p)
    /\ todo' = IF p \in Writers THEN [todo EXCEPT ![p] = {}] ELSE todo
    /\ reply' = IF p = Web THEN "none" ELSE reply
    /\ request' = IF p = Web THEN NoRequest ELSE request
    /\ UNCHANGED <<clock, files, pc, run, name, read, runs, lister, download, history>>

NoSessionsIn(fc) == \A n \in dirs : n[1] # fc

\* ReadDir of the FC directory ...
LookAtParent(p) ==
    /\ rm[p] = "parent"
    /\ \/ /\ NoSessionsIn(victim[p][1])
          /\ rm' = [rm EXCEPT ![p] = "rmdir"]
          /\ UNCHANGED <<victim, reply>>
       \/ /\ ~NoSessionsIn(victim[p][1])
          /\ Done(p)
          /\ reply' = IF p = Web THEN "invalidate" ELSE reply
    /\ UNCHANGED <<clock, files, syncs, lister, request, download, history>>

\* ... and os.Remove of it, which a session made since then makes fail.
RemoveParent(p) ==
    /\ rm[p] = "rmdir"
    /\ fcDirs' = IF NoSessionsIn(victim[p][1]) THEN fcDirs \ {victim[p][1]} ELSE fcDirs
    /\ Done(p)
    /\ reply' = IF p = Web THEN "invalidate" ELSE reply
    /\ UNCHANGED <<clock, dirs, log, tmp, man, syncs, lister, request, download, history>>

Removing(p) == \/ UnlinkEntry(p) \/ RemoveDir(p) \/ RemoveFails(p)
               \/ LookAtParent(p) \/ RemoveParent(p)

----------------------------------------------------------------------------
(* A sync: steps 4 to 9 *)

\* Any call may fail; a recovered panic or a kill ends a sync as well.
Fail(w) == /\ pc[w] # "off" /\ rm[w] = "no"
           /\ Off(w)
           /\ UNCHANGED <<clock, files, runs, removal, lister, handler, history>>

\* A process that is killed in the middle of a removal leaves it there.
Kill(w) == /\ pc[w] # "off" /\ rm[w] # "no"
           /\ Off(w)
           /\ Done(w)
           /\ UNCHANGED <<clock, files, runs, lister, handler, history>>

\* Up to step 4: enough room, or cleanup collects all sessions there are.
Begin(w) == /\ pc[w] = "off"
            /\ runs < MaxRuns
            /\ "two" \in world \/ \A v \in Writers : pc[v] = "off"
            /\ runs' = runs + 1
            /\ run' = [run EXCEPT ![w] = runs + 1]
            /\ \/ Goto(w, "mkdir") /\ UNCHANGED todo
               \/ Goto(w, "cleanup") /\ todo' = [todo EXCEPT ![w] = dirs]
            /\ UNCHANGED <<clock, files, name, read, removal, lister, handler, history>>

\* A turn of the loop of CleanupOldestSessions, or its end.
Cleanup(w) ==
    /\ pc[w] = "cleanup"
    /\ rm[w] = "no"
    /\ \/ /\ Goto(w, "mkdir")
          /\ todo' = [todo EXCEPT ![w] = {}]
          /\ UNCHANGED removal
       \/ \E n \in todo[w] :
             /\ \A m \in todo[w] : n[2] <= m[2]
             /\ todo' = [todo EXCEPT ![w] = @ \ {n}]
             /\ Remove(w, n)
             /\ UNCHANGED pc
    /\ UNCHANGED <<clock, files, run, name, read, runs, lister, handler, history>>

\* Mutation: a name has a resolution of two seconds.
StampRounded(t) == 1 + 2 * ((t - 1) \div 2)

Stamp(t) == t

\* MakeSessionDir: the name, then MkdirAll: the FC directory ...
MakeParent(w) ==
    /\ pc[w] = "mkdir"
    /\ \E fc \in FCs, now \in 1..MaxTime :
          /\ "clock" \in world \/ now > last
          /\ name' = [name EXCEPT ![w] = <<fc, Stamp(now)>>]
          /\ fcDirs' = fcDirs \cup {fc}
          /\ last' = IF now > last THEN now ELSE last
    /\ Goto(w, "session")
    /\ UNCHANGED <<world, dirs, log, tmp, man, run, todo, read, runs, removal, lister,
                   handler, history>>

\* ... and the session's, unless a removal took the FC directory in between.
MakeSession(w) ==
    /\ pc[w] = "session"
    /\ name[w][1] \in fcDirs
    /\ dirs' = dirs \cup {name[w]}
    /\ Goto(w, "create")
    /\ UNCHANGED <<clock, fcDirs, log, tmp, man, run, name, todo, read, runs, removal,
                   lister, handler, history>>

\* NewStreamWriter: MkdirAll once more, and os.Create, which truncates.
CreateLog(w) ==
    /\ pc[w] = "create"
    /\ fcDirs' = fcDirs \cup {name[w][1]}
    /\ dirs' = dirs \cup {name[w]}
    /\ log' = [log EXCEPT ![name[w]] = [run |-> run[w], whole |-> FALSE]]
    /\ Goto(w, "write")
    /\ UNCHANGED <<clock, tmp, man, run, name, todo, read, runs, removal, lister, handler,
                   history>>

\* Step 6: the file, if it is still there, holds all of the log in the end, or
\* not; or the read fails and what is at its path is removed.
WriteLog(w) ==
    /\ pc[w] = "write"
    /\ LET n == name[w]
       IN  \/ /\ \/ log[n].run = run[w] /\ log' = [log EXCEPT ![n].whole = TRUE]
                 \/ UNCHANGED log
              /\ Goto(w, "verify")
              /\ UNCHANGED <<run, name, todo, read>>
           \/ log' = [log EXCEPT ![n] = NoLog] /\ Off(w)
    /\ UNCHANGED <<clock, fcDirs, dirs, tmp, man, runs, removal, lister, handler, history>>

\* Mutation: the file is not read back.
VerifyNothing(w) ==
    /\ pc[w] = "verify"
    /\ Goto(w, "manifest")
    /\ UNCHANGED <<clock, files, run, name, todo, read, runs, removal, lister, handler, history>>

\* Step 7
Verify(w) ==
    /\ pc[w] = "verify"
    /\ log[name[w]] = [run |-> run[w], whole |-> TRUE]
    /\ Goto(w, "manifest")
    /\ UNCHANGED <<clock, files, run, name, todo, read, runs, removal, lister, handler, history>>

\* Mutation: the manifest is written in place.
WriteInPlace(w, m) ==
    /\ name[w] \in dirs
    /\ tmp' = [tmp EXCEPT ![name[w]] = m]
    /\ man' = [man EXCEPT ![name[w]] = NoManifest]
    /\ UNCHANGED <<fcDirs, dirs, log>>

\* atomicJSONWrite: the temporary file ...
WriteTmp(w, m) ==
    /\ name[w] \in dirs
    /\ tmp' = [tmp EXCEPT ![name[w]] = m]
    /\ UNCHANGED <<fcDirs, dirs, log, man>>

\* ... takes the manifest's name.
Rename(w) ==
    /\ tmp[name[w]] # NoManifest
    /\ man' = [man EXCEPT ![name[w]] = tmp[name[w]]]
    /\ tmp' = [tmp EXCEPT ![name[w]] = NoManifest]
    /\ UNCHANGED <<fcDirs, dirs, log>>

\* Step 8
WriteManifest(w) ==
    /\ \/ /\ pc[w] = "manifest"
          /\ WriteTmp(w, [run |-> run[w], erased |-> FALSE])
          /\ Goto(w, "rename")
       \/ /\ pc[w] = "rename"
          /\ Rename(w)
          /\ Goto(w, "erase")
    /\ UNCHANGED <<clock, run, name, todo, read, runs, removal, lister, handler, history>>

\* Step 9; a run that does not erase ends here.
Erase(w) ==
    /\ pc[w] = "erase"
    /\ Goto(w, "update")
    /\ UNCHANGED <<clock, files, run, name, todo, read, runs, removal, lister, handler, history>>

\* UpdateManifestErase reads the manifest, whose it may be, and writes it back.
UpdateManifest(w) ==
    /\ \/ /\ pc[w] = "update"
          /\ man[name[w]] # NoManifest
          /\ read' = [read EXCEPT ![w] = man[name[w]]]
          /\ Goto(w, "rewrite")
          /\ UNCHANGED <<files, run, name, todo>>
       \/ /\ pc[w] = "rewrite"
          /\ WriteTmp(w, [read[w] EXCEPT !.erased = TRUE])
          /\ Goto(w, "replace")
          /\ UNCHANGED <<run, name, todo, read>>
       \/ /\ pc[w] = "replace"
          /\ Rename(w)
          /\ Off(w)
    /\ UNCHANGED <<clock, runs, removal, lister, handler, history>>

Sync(w) == \/ Begin(w) \/ Cleanup(w)
           \/ MakeParent(w) \/ MakeSession(w) \/ CreateLog(w) \/ WriteLog(w)
           \/ Verify(w) \/ WriteManifest(w) \/ Erase(w) \/ UpdateManifest(w)
           \/ Fail(w) \/ Kill(w)

----------------------------------------------------------------------------
(* The web server *)

\* getSessions takes the lock and lists, if the cache is too old.
BeginListing == /\ ~listing
                /\ ~fresh
                /\ listing' = TRUE
                /\ unread' = dirs
                /\ found' = {}
                /\ UNCHANGED <<clock, files, syncs, removal, cache, fresh, handler, history>>

\* Mutation: a session without a manifest is listed.
ListAny == /\ listing
           /\ \E n \in unread :
                 /\ unread' = unread \ {n}
                 /\ found' = found \cup {<<n, log[n].run>>}
           /\ UNCHANGED <<clock, files, syncs, removal, listing, cache, fresh, handler, history>>

\* One session: without a manifest it is skipped.
ListOne == /\ listing
           /\ \E n \in unread :
                 /\ unread' = unread \ {n}
                 /\ found' = IF man[n] = NoManifest THEN found
                             ELSE found \cup {<<n, man[n].run>>}
           /\ UNCHANGED <<clock, files, syncs, removal, listing, cache, fresh, handler, history>>

EndListing == /\ listing
              /\ unread = {}
              /\ listing' = FALSE
              /\ cache' = found
              /\ found' = {}
              /\ fresh' = TRUE
              /\ UNCHANGED <<clock, files, syncs, removal, unread, handler, history>>

\* The TTL is over.  A stale list is never served, so that it can be forgotten.
Expire == /\ fresh
          /\ fresh' = FALSE
          /\ cache' = {}
          /\ UNCHANGED <<clock, files, syncs, removal, listing, unread, found, handler, history>>

\* DELETE of a session that is there, listed or not.
BeginDelete == /\ reply = "none"
               /\ \E n \in dirs :
                     /\ Remove(Web, n)
                     /\ request' = [name |-> n, run |-> man[n].run]
               /\ reply' = "removing"
               /\ UNCHANGED <<clock, files, syncs, lister, download, history>>

Answered == /\ fresh' = FALSE
            /\ cache' = {}
            /\ reply' = "none"
            /\ request' = NoRequest
            /\ gone' = gone \cup {<<request.name, request.run>>}
            /\ UNCHANGED <<clock, files, syncs, removal, listing, unread, found, download,
                           removed>>

\* Mutation: the cache is marked stale without waiting for the lock.
InvalidateUnlocked == reply = "invalidate" /\ Answered

\* invalidateSessionsCache, under the lock, and the answer 200.
Invalidate == reply = "invalidate" /\ ~listing /\ Answered

\* A client has the link to a log from a list, and keeps it as long as it likes.
Link == /\ "download" \in world
        /\ download = NoDownload
        /\ \E s \in cache :
              download' = [NoDownload EXCEPT !.step = "stat", !.name = s[1], !.run = s[2]]
        /\ UNCHANGED <<clock, files, syncs, removal, lister, deletion, history>>

\* sendFile: Stat, which gives the length and the ETag; 404 if there is no file ...
StatLog == /\ download.step = "stat"
           /\ LET l == log[download.name]
              IN  download' = IF l = NoLog THEN NoDownload
                              ELSE [download EXCEPT !.step = "open", !.got = @ \cup {l}]
           /\ UNCHANGED <<clock, files, syncs, removal, lister, deletion, history>>

\* ... and Open, from where on an unlink does no harm; 500 if there is no file.  What
\* is missing the client takes by range with its next request.
OpenLog == /\ download.step = "open"
           /\ LET l == log[download.name]
              IN  download' = IF l = NoLog THEN NoDownload
                              ELSE [download EXCEPT !.step = "stat", !.got = @ \cup {l}]
           /\ UNCHANGED <<clock, files, syncs, removal, lister, deletion, history>>

\* The client has it all, or goes away.
Leave == /\ download # NoDownload
         /\ download' = NoDownload
         /\ UNCHANGED <<clock, files, syncs, removal, lister, deletion, history>>

Download == Link \/ StatLog \/ OpenLog \/ Leave

Server == \/ Download
          \/ BeginListing \/ ListOne \/ EndListing \/ Expire
          \/ BeginDelete \/ Invalidate

Next == \/ \E w \in Writers : Sync(w)
        \/ \E p \in Removers : Removing(p)
        \/ Server

Spec == Init /\ [][Next]_vars

----------------------------------------------------------------------------
(* Properties *)

LogSet == [run : 0..MaxRuns, whole : BOOLEAN]
ManifestSet == [run : 0..MaxRuns, erased : BOOLEAN]
Steps == {"off", "cleanup", "mkdir", "session", "create", "write", "verify",
          "manifest", "rename", "erase", "update", "rewrite", "replace"}

\* The types, and that files are in directories and directories in directories.
TypeOK ==
    /\ world \in Worlds
    /\ last \in 0..MaxTime /\ runs \in 0..MaxRuns
    /\ fcDirs \subseteq FCs /\ dirs \subseteq Names
    /\ log \in [Names -> LogSet]
    /\ tmp \in [Names -> ManifestSet] /\ man \in [Names -> ManifestSet]
    /\ \A n \in dirs : n[1] \in fcDirs
    /\ \A n \in Names : n \in dirs \/ Empty(n)
    /\ pc \in [Writers -> Steps] /\ run \in [Writers -> 0..MaxRuns]
    /\ name \in [Writers -> Names \cup {NoName}] /\ todo \in [Writers -> SUBSET Names]
    /\ read \in [Writers -> ManifestSet]
    /\ rm \in [Removers -> {"no", "entries", "parent", "rmdir"}]
    /\ victim \in [Removers -> Names \cup {NoName}]
    /\ request \in [name : Names \cup {NoName}, run : 0..MaxRuns]
    /\ reply \in {"none", "removing", "invalidate"}
    /\ listing \in BOOLEAN /\ fresh \in BOOLEAN /\ unread \subseteq Names
    /\ found \subseteq Names \X (0..MaxRuns) /\ cache \subseteq Names \X (0..MaxRuns)
    /\ download \in [step : {"none", "stat", "open"}, name : Names \cup {NoName},
                     run : 0..MaxRuns, got : SUBSET LogSet]
    /\ removed \subseteq Removers \X (0..MaxRuns)
    /\ gone \subseteq (Names \cup {NoName}) \X (0..MaxRuns)

\* Who removed something of run r.
RemovedBy(r) == {p \in Removers : <<p, r>> \in removed}

\* As long as the clock gives every session a name of its own, a session that
\* has a manifest has the whole log that the manifest is about: also with two
\* syncs at once.  What is missing, a removal took.
ManifestHasItsLog ==
    "clock" \notin world =>
        \A n \in Names : man[n] # NoManifest =>
            \/ log[n] = [run |-> man[n].run, whole |-> TRUE]
            \/ log[n] = NoLog /\ RemovedBy(man[n].run) # {}

\* A run tells its FC to erase with the log whole on the card, unless the pilot
\* has deleted it: for a sync that is alone this holds whatever the clock does.  Of
\* two at once, as long as the clock gives every session a name of its own, the
\* log is whole or was taken by a removal: the one never writes into the other's.
ErasesBehindItsLog ==
    [][\A w \in Writers : pc[w] = "erase" /\ pc'[w] = "update" =>
          \/ log[name[w]] = [run |-> run[w], whole |-> TRUE]
          \/ Web \in RemovedBy(run[w])
          \/ "two" \in world /\ RemovedBy(run[w]) # {}
          \/ {"two", "clock"} \subseteq world]_vars

\* logfalcon@.service:11 "Only one sync at a time", and RELEASE_PLAN.md:20 "Never
\* erase unless an exact-length transfer, durable save and validation have all
\* succeeded": the cleanup of another sync takes no log that is yet to be erased
\* behind.
NoEraseBehindACleanup ==
    [][\A w \in Writers : pc[w] = "erase" /\ pc'[w] = "update" =>
          \/ log[name[w]] = [run |-> run[w], whole |-> TRUE]
          \/ Web \in RemovedBy(run[w])]_vars

\* Once the deletion of a session is answered no list shows it any more: none
\* in the cache, and none that is being made.  (Two syncs at once that have the
\* same name could bring it back: the one makes the directory again, the other
\* puts the manifest there that it had read before.)
AnsweredDeleteIsGone ==
    \A d \in gone : d[2] # 0 /\ ~({"two", "clock"} \subseteq world) =>
        /\ d \notin found
        /\ fresh => d \notin cache
        /\ man[d[1]].run # d[2]

\* As long as the clock gives every session a name of its own, all that a client
\* gets through a link from a list is of the log that was listed, and of the whole
\* of it, in however many pieces, also while that session is deleted: nothing is
\* listed that is still written to.
DownloadIsTheLog ==
    "clock" \notin world => download.got \subseteq {[run |-> download.run, whole |-> TRUE]}

\* A listed session is listed until it is deleted: while its manifest is
\* rewritten the old one is there, also if the sync is killed half-way.
ListedUntilDeleted ==
    [][\A n \in Names : man[n] # NoManifest /\ man'[n] = NoManifest =>
          \E p \in Removers : rm[p] = "entries" /\ victim[p] = n]_vars
=============================================================================
