------------------------ MODULE SessionStore_proofs ------------------------
(***************************************************************************)
(* Theorems about SessionStore, for any number of syncs, of FCs and of     *)
(* requests to list, download and delete.                                  *)
(***************************************************************************)
EXTENDS SessionStore, TLAPS

\* Steps of a sync that has a session.
Named == {"session", "create", "write", "verify", "manifest", "rename", "erase", "update",
          "rewrite", "replace"}

\* The types, group by group; a sync that has a session knows its name, and so does
\* a removal.
ClockOK == world \in Worlds /\ last \in 0..MaxTime
FilesOK == /\ fcDirs \subseteq FCs /\ dirs \subseteq Names
           /\ log \in [Names -> LogSet]
           /\ tmp \in [Names -> ManifestSet] /\ man \in [Names -> ManifestSet]
PlacesOK == /\ \A n \in dirs : n[1] \in fcDirs
            /\ \A n \in Names : n \in dirs \/ Empty(n)
SyncsOK == /\ runs \in 0..MaxRuns
           /\ pc \in [Writers -> Steps] /\ run \in [Writers -> 0..MaxRuns]
           /\ name \in [Writers -> Names \cup {NoName}] /\ todo \in [Writers -> SUBSET Names]
           /\ read \in [Writers -> ManifestSet]
           /\ \A w \in Writers : pc[w] \in Named => name[w] \in Names
           /\ \A w \in Writers : pc[w] # "off" => run[w] # 0
RemovalOK == /\ rm \in [Removers -> {"no", "entries", "parent", "rmdir"}]
             /\ victim \in [Removers -> Names \cup {NoName}]
             /\ \A p \in Removers : rm[p] # "no" => victim[p] \in Names
ListerOK == /\ listing \in BOOLEAN /\ fresh \in BOOLEAN /\ unread \subseteq Names
            /\ found \subseteq Names \X (0..MaxRuns) /\ cache \subseteq Names \X (0..MaxRuns)
HandlerOK == /\ request \in [name : Names \cup {NoName}, run : 0..MaxRuns]
             /\ reply \in {"none", "removing", "invalidate"}
             /\ download \in [step : {"none", "stat", "open"}, name : Names \cup {NoName},
                              run : 0..MaxRuns, got : SUBSET LogSet]
             /\ download.step # "none" => download.name \in Names
             /\ removed \subseteq Removers \X (0..MaxRuns)
             /\ gone \subseteq (Names \cup {NoName}) \X (0..MaxRuns)

Types == ClockOK /\ FilesOK /\ PlacesOK /\ SyncsOK /\ RemovalOK /\ ListerOK /\ HandlerOK

LEMMA NothingIsTyped ==
    NoLog \in LogSet /\ NoManifest \in ManifestSet /\ 0 \in 0..MaxRuns
BY StoreAssumption DEF NoLog, NoManifest, LogSet, ManifestSet

LEMMA WriterRemoves == Writers \subseteq Removers /\ Web \in Removers
BY DEF Removers

\* What an action leaves alone keeps its type.
LEMMA Untouched ==
    ASSUME Types
    PROVE  /\ UNCHANGED clock => ClockOK'
           /\ UNCHANGED files => FilesOK' /\ PlacesOK'
           /\ UNCHANGED syncs => SyncsOK'
           /\ UNCHANGED removal => RemovalOK'
           /\ UNCHANGED lister => ListerOK'
           /\ UNCHANGED <<handler, history>> => HandlerOK'
<1>1. UNCHANGED clock => ClockOK'
  BY DEF Types, ClockOK, clock
<1>2. UNCHANGED files => FilesOK' /\ PlacesOK'
  BY DEF Types, FilesOK, PlacesOK, files, Empty
<1>3. UNCHANGED syncs => SyncsOK'
  BY DEF Types, SyncsOK, syncs
<1>4. UNCHANGED removal => RemovalOK'
  BY DEF Types, RemovalOK, removal
<1>5. UNCHANGED lister => ListerOK'
  BY DEF Types, ListerOK, lister
<1>6. UNCHANGED <<handler, history>> => HandlerOK'
  BY DEF Types, HandlerOK, handler, deletion, history
<1>. QED
  BY <1>1, <1>2, <1>3, <1>4, <1>5, <1>6

LEMMA RemovingTyped ==
    ASSUME Types, NEW p \in Removers, Removing(p)
    PROVE  Types'
<1>. USE Untouched, NothingIsTyped, WriterRemoves
<1>1. CASE UnlinkEntry(p)
  <2>. DEFINE n == victim[p]
  <2>1. n \in Names /\ log[n].run \in 0..MaxRuns /\ man[n].run \in 0..MaxRuns
    BY <1>1 DEF UnlinkEntry, Types, RemovalOK, FilesOK, LogSet, ManifestSet
  <2>2. /\ UNCHANGED <<clock, fcDirs, dirs, syncs, removal, lister, handler, gone>>
        /\ log' = log \/ log' = [log EXCEPT ![n] = NoLog]
        /\ tmp' = tmp \/ tmp' = [tmp EXCEPT ![n] = NoManifest]
        /\ man' = man \/ man' = [man EXCEPT ![n] = NoManifest]
        /\ removed' \in {removed, removed \cup {<<p, log[n].run>>}, removed \cup {<<p, man[n].run>>}}
    BY <1>1 DEF UnlinkEntry
  <2>3. FilesOK' /\ PlacesOK'
    BY <2>1, <2>2 DEF Types, FilesOK, PlacesOK, Empty
  <2>4. HandlerOK'
    BY <2>1, <2>2 DEF Types, HandlerOK, handler, deletion
  <2>. QED
    BY <2>2, <2>3, <2>4 DEF Types
<1>2. CASE RemoveDir(p)
  <2>1. FilesOK' /\ PlacesOK'
    BY <1>2 DEF RemoveDir, Types, FilesOK, PlacesOK, Empty
  <2>2. RemovalOK'
    BY <1>2 DEF RemoveDir, Types, RemovalOK
  <2>. QED
    BY <1>2, <2>1, <2>2 DEF RemoveDir, Types
<1>3. ASSUME Done(p) PROVE RemovalOK'
  BY <1>3 DEF Done, Types, RemovalOK
<1>4. CASE RemoveFails(p)
  <2>1. SyncsOK'
    BY <1>4 DEF RemoveFails, Types, SyncsOK
  <2>2. HandlerOK'
    BY <1>4 DEF RemoveFails, Types, HandlerOK, NoRequest, history
  <2>. QED
    BY <1>3, <1>4, <2>1, <2>2 DEF RemoveFails, Types
<1>5. CASE LookAtParent(p)
  <2>1. RemovalOK'
    BY <1>3, <1>5 DEF LookAtParent, Types, RemovalOK
  <2>2. HandlerOK'
    BY <1>5 DEF LookAtParent, Types, HandlerOK, history
  <2>. QED
    BY <1>5, <2>1, <2>2 DEF LookAtParent, Types
<1>6. CASE RemoveParent(p)
  <2>1. FilesOK' /\ PlacesOK'
    BY <1>6 DEF RemoveParent, Types, FilesOK, PlacesOK, Empty, NoSessionsIn
  <2>2. HandlerOK'
    BY <1>6 DEF RemoveParent, Types, HandlerOK, history
  <2>. QED
    BY <1>3, <1>6, <2>1, <2>2 DEF RemoveParent, Types
<1>. QED
  BY <1>1, <1>2, <1>4, <1>5, <1>6 DEF Removing

LEMMA SyncTyped ==
    ASSUME Types, NEW w \in Writers, Sync(w)
    PROVE  Types'
<1>. USE Untouched, NothingIsTyped, WriterRemoves
<1>1. ASSUME Off(w), runs' = runs PROVE SyncsOK'
  BY <1>1 DEF Off, Goto, Types, SyncsOK, Steps, Named
<1>2. CASE Begin(w)
  <2>1. runs' = runs + 1 /\ runs < MaxRuns /\ runs' \in 0..MaxRuns
    BY <1>2, StoreAssumption DEF Begin, Types, SyncsOK
  <2>2. dirs \in SUBSET Names
    BY DEF Types, FilesOK
  <2>3. SyncsOK'
    BY <1>2, <2>1, <2>2 DEF Begin, Goto, Types, SyncsOK, Steps, Named
  <2>. QED
    BY <1>2, <2>3 DEF Begin, Types
<1>3. CASE Cleanup(w)
  <2>1. SyncsOK'
    BY <1>3 DEF Cleanup, Goto, Types, SyncsOK, Steps, Named
  <2>2. RemovalOK'
    BY <1>3 DEF Cleanup, Remove, removal, Types, RemovalOK, SyncsOK
  <2>. QED
    BY <1>3, <2>1, <2>2 DEF Cleanup, Types
<1>4. CASE MakeParent(w)
  <2>1. PICK fc \in FCs, now \in 1..MaxTime :
          /\ name' = [name EXCEPT ![w] = <<fc, now>>]
          /\ fcDirs' = fcDirs \cup {fc}
          /\ last' = IF now > last THEN now ELSE last
    BY <1>4 DEF MakeParent, Stamp
  <2>2. <<fc, now>> \in Names /\ last' \in 0..MaxTime
    BY <2>1, StoreAssumption DEF Names, Types, ClockOK
  <2>3. SyncsOK'
    BY <1>4, <2>1, <2>2 DEF MakeParent, Goto, Types, SyncsOK, Steps, Named
  <2>4. FilesOK' /\ PlacesOK'
    BY <1>4, <2>1 DEF MakeParent, Types, FilesOK, PlacesOK, Empty
  <2>5. ClockOK'
    BY <1>4, <2>2 DEF MakeParent, Types, ClockOK
  <2>. QED
    BY <1>4, <2>3, <2>4, <2>5 DEF MakeParent, Types
<1>5. ASSUME pc[w] \in Named PROVE name[w] \in Names /\ name[w][1] \in FCs
  BY <1>5 DEF Types, SyncsOK, Names
<1>6. CASE MakeSession(w)
  <2>1. SyncsOK'
    BY <1>6 DEF MakeSession, Goto, Types, SyncsOK, Steps, Named
  <2>2. FilesOK' /\ PlacesOK'
    BY <1>5, <1>6 DEF MakeSession, Named, Types, FilesOK, PlacesOK, Empty
  <2>. QED
    BY <1>6, <2>1, <2>2 DEF MakeSession, Types
<1>7. CASE CreateLog(w)
  <2>1. SyncsOK'
    BY <1>7 DEF CreateLog, Goto, Types, SyncsOK, Steps, Named
  <2>2. [run |-> run[w], whole |-> FALSE] \in LogSet
    BY DEF Types, SyncsOK, LogSet
  <2>3. name[w] \in Names /\ name[w][1] \in FCs
    BY <1>5, <1>7 DEF CreateLog, Named
  <2>4. FilesOK' /\ PlacesOK'
    BY <1>7, <2>2, <2>3 DEF CreateLog, Types, FilesOK, PlacesOK, Empty
  <2>. QED
    BY <1>7, <2>1, <2>4 DEF CreateLog, Types
<1>8. CASE WriteLog(w)
  <2>. DEFINE n == name[w]
  <2>1. n \in Names /\ log[n] \in LogSet
    BY <1>5, <1>8 DEF WriteLog, Named, Types, FilesOK
  <2>2. \/ Goto(w, "verify") /\ UNCHANGED <<run, name, todo, read>>
        \/ Off(w)
    BY <1>8 DEF WriteLog
  <2>3. SyncsOK'
    BY <1>1, <1>8, <2>2 DEF WriteLog, Goto, Types, SyncsOK, Steps, Named
  <2>4. \/ log' = log
        \/ log[n].run = run[w] /\ log' = [log EXCEPT ![n].whole = TRUE]
        \/ log' = [log EXCEPT ![n] = NoLog]
    BY <1>8 DEF WriteLog
  <2>5. [log[n] EXCEPT !.whole = TRUE] \in LogSet
    BY <2>1 DEF LogSet
  <2>6. log' \in [Names -> LogSet] /\ \A m \in Names : log'[m] # NoLog => log[m] # NoLog \/ m = n
    BY <2>1, <2>4, <2>5 DEF Types, FilesOK
  <2>7. log[n].run = run[w] => log[n] # NoLog
    BY <1>8 DEF NoLog, WriteLog, Types, SyncsOK
  <2>8. FilesOK'
    BY <1>8, <2>6 DEF WriteLog, Types, FilesOK
  <2>9. \A m \in Names : log'[m] # NoLog => log[m] # NoLog
    BY <2>1, <2>4, <2>6, <2>7 DEF Types, FilesOK
  <2>10. PlacesOK'
    BY <1>8, <2>9 DEF WriteLog, Types, PlacesOK, Empty
  <2>. QED
    BY <1>8, <2>3, <2>8, <2>10 DEF WriteLog, Types
<1>9. CASE Verify(w)
  <2>1. SyncsOK'
    BY <1>9 DEF Verify, Goto, Types, SyncsOK, Steps, Named
  <2>. QED
    BY <1>9, <2>1 DEF Verify, Types
<1>10. ASSUME NEW m \in ManifestSet, name[w] \in Names, WriteTmp(w, m) PROVE FilesOK' /\ PlacesOK'
  BY <1>10 DEF WriteTmp, Types, FilesOK, PlacesOK, Empty
<1>11. ASSUME name[w] \in Names, Rename(w) PROVE FilesOK' /\ PlacesOK'
  BY <1>11 DEF Rename, Types, FilesOK, PlacesOK, Empty
<1>12. CASE WriteManifest(w)
  <2>1. SyncsOK'
    BY <1>12 DEF WriteManifest, Goto, Types, SyncsOK, Steps, Named
  <2>2. [run |-> run[w], erased |-> FALSE] \in ManifestSet
    BY DEF Types, SyncsOK, ManifestSet
  <2>3. FilesOK' /\ PlacesOK'
    BY <1>5, <1>10, <1>11, <1>12, <2>2 DEF WriteManifest, Named
  <2>. QED
    BY <1>12, <2>1, <2>3 DEF WriteManifest, Types
<1>13. CASE Erase(w)
  <2>1. SyncsOK'
    BY <1>13 DEF Erase, Goto, Types, SyncsOK, Steps, Named
  <2>. QED
    BY <1>13, <2>1 DEF Erase, Types
<1>14. CASE UpdateManifest(w)
  <2>1. CASE /\ pc[w] = "update"
             /\ read' = [read EXCEPT ![w] = man[name[w]]]
             /\ Goto(w, "rewrite")
             /\ UNCHANGED <<files, run, name, todo>>
    <3>1. man[name[w]] \in ManifestSet
      BY <1>5, <2>1 DEF Named, Types, FilesOK
    <3>2. SyncsOK'
      BY <1>14, <2>1, <3>1 DEF UpdateManifest, Goto, Types, SyncsOK, Steps, Named
    <3>. QED
      BY <1>14, <2>1, <3>2 DEF UpdateManifest, Types
  <2>2. CASE /\ pc[w] = "rewrite"
             /\ WriteTmp(w, [read[w] EXCEPT !.erased = TRUE])
             /\ Goto(w, "replace")
             /\ UNCHANGED <<run, name, todo, read>>
    <3>1. [read[w] EXCEPT !.erased = TRUE] \in ManifestSet
      BY DEF Types, SyncsOK, ManifestSet
    <3>2. SyncsOK'
      BY <1>14, <2>2 DEF UpdateManifest, Goto, Types, SyncsOK, Steps, Named
    <3>. QED
      BY <1>5, <1>10, <1>14, <2>2, <3>1, <3>2 DEF UpdateManifest, Types, Named
  <2>3. CASE /\ pc[w] = "replace"
             /\ Rename(w)
             /\ Off(w)
    BY <1>1, <1>5, <1>11, <1>14, <2>3 DEF UpdateManifest, Types, Named
  <2>. QED
    BY <1>14, <2>1, <2>2, <2>3 DEF UpdateManifest
<1>15. CASE Fail(w)
  BY <1>1, <1>15 DEF Fail, Types
<1>16. CASE Kill(w)
  <2>1. RemovalOK'
    BY <1>16 DEF Kill, Done, Types, RemovalOK
  <2>. QED
    BY <1>1, <1>16, <2>1 DEF Kill, Types
<1>. QED
  BY <1>2, <1>3, <1>4, <1>6, <1>7, <1>8, <1>9, <1>12, <1>13, <1>14, <1>15, <1>16 DEF Sync

LEMMA ServerTyped ==
    ASSUME Types, Server
    PROVE  Types'
<1>. USE Untouched, NothingIsTyped, WriterRemoves
<1>1. CASE Download
  <2>1. UNCHANGED <<clock, files, syncs, removal, lister, deletion, history>>
    BY <1>1 DEF Download, Link, StatLog, OpenLog, Leave
  <2>2. /\ download' \in [step : {"none", "stat", "open"}, name : Names \cup {NoName},
                         run : 0..MaxRuns, got : SUBSET LogSet]
        /\ download'.step # "none" => download'.name \in Names
    <3>1. CASE Link
      <4>1. PICK s \in cache :
              download' = [NoDownload EXCEPT !.step = "stat", !.name = s[1], !.run = s[2]]
        BY <3>1 DEF Link
      <4>2. s[1] \in Names /\ s[2] \in 0..MaxRuns
        BY DEF Types, ListerOK
      <4>3. download' = [step |-> "stat", name |-> s[1], run |-> s[2], got |-> {}]
        BY <4>1 DEF NoDownload
      <4>. QED
        BY <4>2, <4>3
    <3>2. CASE StatLog \/ OpenLog
      <4>. DEFINE l == log[download.name]
      <4>1. download.step # "none"
        BY <3>2 DEF StatLog, OpenLog
      <4>2. download.name \in Names /\ l \in LogSet
        BY <4>1 DEF Types, HandlerOK, FilesOK
      <4>3. \/ download' = NoDownload
            \/ \E st \in {"stat", "open"} :
                   download' = [download EXCEPT !.step = st, !.got = @ \cup {l}]
        BY <3>2 DEF StatLog, OpenLog
      <4>. DEFINE S == {"none", "stat", "open"}
                  D == [step : S, name : Names \cup {NoName}, run : 0..MaxRuns,
                        got : SUBSET LogSet]
      <4>4. download \in D
        BY DEF Types, HandlerOK
      <4>5. ASSUME NEW st \in S, download' = [download EXCEPT !.step = st, !.got = @ \cup {l}]
            PROVE  download' \in D /\ download'.name \in Names
        <5>1. download.got \cup {l} \in SUBSET LogSet
          BY <4>2, <4>4
        <5>. QED
          BY <4>2, <4>4, <4>5, <5>1
      <4>6. NoDownload \in D /\ NoDownload.step = "none"
        BY DEF NoDownload
      <4>. QED
        BY <4>3, <4>5, <4>6
    <3>3. CASE Leave
      BY <3>3 DEF Leave, NoDownload
    <3>. QED
      BY <1>1, <3>1, <3>2, <3>3 DEF Download
  <2>3. HandlerOK'
    BY <2>1, <2>2 DEF Types, HandlerOK, deletion, history
  <2>. QED
    BY <2>1, <2>3 DEF Types
<1>2. CASE BeginListing
  <2>1. ListerOK'
    BY <1>2 DEF BeginListing, Types, ListerOK, FilesOK
  <2>. QED
    BY <1>2, <2>1 DEF BeginListing, Types
<1>3. CASE ListOne
  <2>1. PICK n \in unread :
          /\ unread' = unread \ {n}
          /\ found' = IF man[n] = NoManifest THEN found ELSE found \cup {<<n, man[n].run>>}
    BY <1>3 DEF ListOne
  <2>2. n \in Names /\ man[n].run \in 0..MaxRuns
    BY DEF Types, ListerOK, FilesOK, ManifestSet
  <2>3. ListerOK'
    BY <1>3, <2>1, <2>2 DEF ListOne, Types, ListerOK
  <2>. QED
    BY <1>3, <2>3 DEF ListOne, Types
<1>4. CASE EndListing
  <2>1. ListerOK'
    BY <1>4 DEF EndListing, Types, ListerOK
  <2>. QED
    BY <1>4, <2>1 DEF EndListing, Types
<1>5. CASE Expire
  <2>1. ListerOK'
    BY <1>5 DEF Expire, Types, ListerOK
  <2>. QED
    BY <1>5, <2>1 DEF Expire, Types
<1>6. CASE BeginDelete
  <2>1. PICK n \in dirs : /\ Remove(Web, n)
                          /\ request' = [name |-> n, run |-> man[n].run]
    BY <1>6 DEF BeginDelete
  <2>2. n \in Names /\ man[n].run \in 0..MaxRuns
    BY DEF Types, FilesOK, ManifestSet
  <2>3. RemovalOK'
    BY <2>1, <2>2 DEF Remove, Types, RemovalOK
  <2>4. HandlerOK'
    BY <1>6, <2>1, <2>2 DEF BeginDelete, Types, HandlerOK, history
  <2>. QED
    BY <1>6, <2>3, <2>4 DEF BeginDelete, Types
<1>7. CASE Invalidate
  <2>1. ListerOK'
    BY <1>7 DEF Invalidate, Answered, Types, ListerOK
  <2>2. HandlerOK'
    BY <1>7 DEF Invalidate, Answered, NoRequest, Types, HandlerOK
  <2>. QED
    BY <1>7, <2>1, <2>2 DEF Invalidate, Answered, Types
<1>. QED
  BY <1>1, <1>2, <1>3, <1>4, <1>5, <1>6, <1>7 DEF Server

LEMMA InitTyped == Init => Types
<1>. SUFFICES ASSUME Init PROVE Types
  OBVIOUS
<1>. USE NothingIsTyped, StoreAssumption DEF Init
<1>1. ClockOK /\ FilesOK /\ PlacesOK
  BY DEF ClockOK, FilesOK, PlacesOK, Empty
<1>2. SyncsOK
  BY DEF SyncsOK, Steps, Named
<1>3. RemovalOK /\ ListerOK
  BY DEF RemovalOK, ListerOK
<1>4. HandlerOK
  BY DEF HandlerOK, NoRequest, NoDownload
<1>. QED
  BY <1>1, <1>2, <1>3, <1>4 DEF Types

LEMMA NextTyped == Types /\ [Next]_vars => Types'
<1>. SUFFICES ASSUME Types, [Next]_vars PROVE Types'
  OBVIOUS
<1>1. CASE UNCHANGED vars
  BY <1>1, Untouched DEF vars, Types
<1>. QED
  BY <1>1, RemovingTyped, SyncTyped, ServerTyped DEF Next

\* Everything stays in its type, files are in directories, and directories in theirs:
\* a removal never leaves a log without the directory that holds it.
THEOREM TypeCorrect == Spec => []TypeOK
<1>1. Types => TypeOK
  BY DEF Types, TypeOK, ClockOK, FilesOK, PlacesOK, SyncsOK, RemovalOK, ListerOK, HandlerOK
<1>. QED
  BY <1>1, InitTyped, NextTyped, PTL DEF Spec

----------------------------------------------------------------------------
(* Names are distinct and what is archived stays as it is.                  *)

\* Steps of a sync that has read its log back.
Late == {"manifest", "rename", "erase", "update", "rewrite", "replace"}

\* No two syncs have one name, and a name to come is later than all there were.
Distinct == /\ \A w \in Writers : pc[w] \in Named => name[w][2] <= last
            /\ \A v, w \in Writers :
                   pc[v] \in Named /\ pc[w] \in Named /\ name[v] = name[w] => v = w

\* Session n holds all of the log of run r, or had it taken by a removal, and nobody
\* will write to its log any more.
Archived(n, r) ==
    /\ n[2] <= last
    /\ \/ log[n] = [run |-> r, whole |-> TRUE]
       \/ log[n] = NoLog /\ RemovedBy(r) # {}
    /\ \A w \in Writers : pc[w] \in Named /\ name[w] = n => pc[w] \in Late

\* Who knows that session n is of run r: a manifest, complete or not ...
HasManifest(n, r) == \/ man[n] # NoManifest /\ man[n].run = r
                     \/ tmp[n] # NoManifest /\ tmp[n].run = r

\* ... the sync itself, or one that has read the manifest ...
IsAbout(w, n, r) == \/ pc[w] \in Late /\ name[w] = n /\ run[w] = r
                    \/ pc[w] = "rewrite" /\ name[w] = n /\ read[w].run = r

\* ... a list, or a client that has a link.
Knows(n, r) == \/ HasManifest(n, r)
               \/ \E w \in Writers : IsAbout(w, n, r)
               \/ <<n, r>> \in found \cup cache
               \/ download.step # "none" /\ download.name = n /\ download.run = r

KnownIsArchived == \A n \in Names, r \in 0..MaxRuns : Knows(n, r) => Archived(n, r)

Fetched == /\ download.got \subseteq {[run |-> download.run, whole |-> TRUE]}
           /\ download.step = "none" => download.got = {}

Archive == "clock" \notin world => Distinct /\ KnownIsArchived /\ Fetched

LEMMA WorldLasts == [Next]_vars => world' = world
<1>. SUFFICES ASSUME Next PROVE world' = world
  BY DEF vars, clock
<1>1. ASSUME NEW w \in Writers, Sync(w) PROVE world' = world
  BY <1>1 DEF Sync, Begin, Cleanup, MakeParent, MakeSession, CreateLog, WriteLog, Verify,
       WriteManifest, Erase, UpdateManifest, Fail, Kill, clock
<1>2. ASSUME NEW p \in Removers, Removing(p) PROVE world' = world
  BY <1>2 DEF Removing, UnlinkEntry, RemoveDir, RemoveFails, LookAtParent, RemoveParent, clock
<1>3. ASSUME Server PROVE world' = world
  BY <1>3 DEF Server, Download, Link, StatLog, OpenLog, Leave, BeginListing, ListOne,
       EndListing, Expire, BeginDelete, Invalidate, Answered, clock
<1>. QED
  BY <1>1, <1>2, <1>3 DEF Next

\* What a sync's step does to its own place, and to logs; the others' it leaves alone.
LEMMA SyncMoves ==
    ASSUME Types, NEW w \in Writers, Sync(w)
    PROVE  /\ removed' = removed /\ gone' = gone
           /\ \A v \in Writers \ {w} : pc'[v] = pc[v] /\ name'[v] = name[v] /\ run'[v] = run[v]
                                       /\ read'[v] = read[v]
           /\ \/ pc'[w] \notin Named /\ last' = last
              \/ MakeParent(w)
              \/ pc[w] \in Named /\ name'[w] = name[w] /\ run'[w] = run[w] /\ last' = last
                 /\ (pc[w] \in Late => pc'[w] \in Late)
           /\ \A n \in Names : \/ log'[n] = log[n]
                               \/ pc[w] \in {"create", "write"} /\ n = name[w]
<1>. USE DEF Types, SyncsOK, FilesOK, clock, files, syncs, history, handler, Goto, Off, Named, Late, Steps
<1>1. CASE Begin(w) BY <1>1 DEF Begin
<1>2. CASE Cleanup(w) BY <1>2 DEF Cleanup
<1>3. CASE MakeParent(w) BY <1>3 DEF MakeParent
<1>4. CASE MakeSession(w) BY <1>4 DEF MakeSession
<1>5. CASE CreateLog(w) BY <1>5 DEF CreateLog
<1>6. CASE WriteLog(w)
  <2>1. \/ Goto(w, "verify") /\ UNCHANGED <<run, name, todo, read>>
        \/ Off(w)
    BY <1>6 DEF WriteLog
  <2>2. \/ log' = log
        \/ log' = [log EXCEPT ![name[w]].whole = TRUE]
        \/ log' = [log EXCEPT ![name[w]] = NoLog]
    BY <1>6 DEF WriteLog
  <2>. QED
    BY <1>6, <2>1, <2>2 DEF WriteLog
<1>7. CASE Verify(w) BY <1>7 DEF Verify
<1>8. CASE WriteManifest(w) BY <1>8 DEF WriteManifest, WriteTmp, Rename
<1>9. CASE Erase(w) BY <1>9 DEF Erase
<1>10. CASE UpdateManifest(w) BY <1>10 DEF UpdateManifest, WriteTmp, Rename
<1>11. CASE Fail(w) \/ Kill(w) BY <1>11 DEF Fail, Kill
<1>. QED
  BY <1>1, <1>2, <1>3, <1>4, <1>5, <1>6, <1>7, <1>8, <1>9, <1>10, <1>11 DEF Sync

\* The name of a new session.
LEMMA NewName ==
    ASSUME Types, NEW w \in Writers, MakeParent(w), "clock" \notin world
    PROVE  /\ name'[w] \in Names /\ name'[w][2] > last /\ last' = name'[w][2]
           /\ pc'[w] = "session" /\ pc[w] = "mkdir"
           /\ last' > last
<1>1. PICK fc \in FCs, now \in 1..MaxTime :
        /\ now > last
        /\ name' = [name EXCEPT ![w] = <<fc, now>>]
        /\ last' = IF now > last THEN now ELSE last
  BY DEF MakeParent, Stamp
<1>. QED
  BY <1>1 DEF MakeParent, Goto, Names, Types, SyncsOK

LEMMA DistinctLasts ==
    ASSUME Types, Distinct, "clock" \notin world, [Next]_vars
    PROVE  Distinct'
<1>1. CASE UNCHANGED <<syncs, last>>
  BY <1>1 DEF Distinct, syncs
<1>2. ASSUME NEW w \in Writers, Sync(w) PROVE Distinct'
  <2>1. CASE MakeParent(w)
    <3>1. last \in Nat /\ last' \in Nat /\ \A v \in Writers : pc[v] \in Named => name[v][2] \in Nat
      BY <2>1, NewName, StoreAssumption DEF Types, ClockOK, SyncsOK, Names
    <3>. QED
      BY <1>2, <2>1, <3>1, SyncMoves, NewName DEF Distinct, Named
  <2>2. ASSUME last' = last,
               \A v \in Writers : pc'[v] \in Named => pc[v] \in Named /\ name'[v] = name[v]
        PROVE  Distinct'
    <3>1. \A v \in Writers : pc'[v] \in Named => name'[v][2] <= last'
      BY <2>2 DEF Distinct
    <3>2. \A v, u \in Writers :
              pc'[v] \in Named /\ pc'[u] \in Named /\ name'[v] = name'[u] => v = u
      BY <2>2 DEF Distinct
    <3>. QED
      BY <3>1, <3>2 DEF Distinct, Named
  <2>3. CASE \/ pc'[w] \notin Named /\ last' = last
             \/ pc[w] \in Named /\ name'[w] = name[w] /\ last' = last
    BY <1>2, <2>2, <2>3, SyncMoves
  <2>. QED
    BY <1>2, <2>1, <2>3, SyncMoves
<1>3. ASSUME NEW p \in Removers, Removing(p) PROVE UNCHANGED <<pc, name, last>>
  BY <1>3 DEF Removing, UnlinkEntry, RemoveDir, RemoveFails, LookAtParent, RemoveParent, clock,
       syncs
<1>4. ASSUME Server PROVE UNCHANGED <<syncs, last>>
  BY <1>4 DEF Server, Download, Link, StatLog, OpenLog, Leave, BeginListing, ListOne,
       EndListing, Expire, BeginDelete, Invalidate, Answered, clock
<1>5. CASE UNCHANGED vars
  BY <1>1, <1>5 DEF vars, clock
<1>. QED
  BY <1>1, <1>2, <1>3, <1>4, <1>5 DEF Next, Distinct

\* The key fact: nothing is done any more to the log of an archived session but to remove it.
LEMMA ArchivedLasts ==
    ASSUME Types, Distinct, "clock" \notin world, [Next]_vars,
           NEW n \in Names, NEW r, Archived(n, r)
    PROVE  Archived(n, r)'
<1>1. CASE UNCHANGED <<syncs, last, log, removed>>
  BY <1>1 DEF Archived, RemovedBy, syncs
<1>2. ASSUME NEW w \in Writers, Sync(w) PROVE Archived(n, r)'
  <2>1. ~(pc[w] \in {"create", "write"} /\ n = name[w])
    BY DEF Archived, Named, Late
  <2>2. log'[n] = log[n] /\ RemovedBy(r)' = RemovedBy(r)
    BY <1>2, <2>1, SyncMoves DEF RemovedBy
  <2>3. CASE MakeParent(w)
    <3>1. last \in Nat /\ last' \in Nat /\ n[2] \in Nat
      BY <2>3, NewName, StoreAssumption DEF Types, ClockOK, Names
    <3>. QED
      BY <1>2, <2>2, <2>3, <3>1, SyncMoves, NewName DEF Archived
  <2>4. CASE pc'[w] \notin Named /\ last' = last
    BY <1>2, <2>2, <2>4, SyncMoves DEF Archived
  <2>5. CASE pc[w] \in Named /\ name'[w] = name[w] /\ run'[w] = run[w] /\ last' = last
             /\ (pc[w] \in Late => pc'[w] \in Late)
    BY <1>2, <2>2, <2>5, SyncMoves DEF Archived
  <2>. QED
    BY <1>2, <2>3, <2>4, <2>5, SyncMoves
<1>3. ASSUME NEW p \in Removers, Removing(p) PROVE Archived(n, r)'
  <2>1. UNCHANGED <<pc, name, last>>
    BY <1>3 DEF Removing, UnlinkEntry, RemoveDir, RemoveFails, LookAtParent, RemoveParent, clock,
         syncs
  <2>2. \/ log'[n] = log[n] /\ removed \subseteq removed'
        \/ log'[n] = NoLog /\ removed' = removed \cup {<<p, log[n].run>>} /\ log[n] # NoLog
    <3>1. CASE UnlinkEntry(p)
      BY <3>1 DEF UnlinkEntry, Types, FilesOK
    <3>2. CASE ~UnlinkEntry(p)
      BY <1>3, <3>2 DEF Removing, RemoveDir, RemoveFails, LookAtParent, RemoveParent, history, files
    <3>. QED
      BY <3>1, <3>2
  <2>. QED
    BY <2>1, <2>2 DEF Archived, RemovedBy
<1>4. ASSUME Server PROVE UNCHANGED <<syncs, last, log, removed>>
  BY <1>4 DEF Server, Download, Link, StatLog, OpenLog, Leave, BeginListing, ListOne,
       EndListing, Expire, BeginDelete, Invalidate, Answered, clock, files, history
<1>5. CASE UNCHANGED vars
  BY <1>1, <1>5 DEF vars, clock, files, history
<1>. QED
  BY <1>1, <1>2, <1>3, <1>4, <1>5 DEF Next

\* What a sync's step adds to manifests.
LEMMA SyncWrites ==
    ASSUME Types, NEW w \in Writers, Sync(w), NEW n \in Names
    PROVE  /\ \/ tmp'[n] = tmp[n] \/ tmp'[n] = NoManifest
              \/ n = name[w] /\ n \in dirs /\ pc[w] = "manifest" /\ tmp'[n].run = run[w]
              \/ n = name[w] /\ n \in dirs /\ pc[w] = "rewrite" /\ tmp'[n].run = read[w].run
           /\ \/ man'[n] = man[n]
              \/ n = name[w] /\ tmp[n] # NoManifest /\ man'[n] = tmp[n]
                 /\ <<pc[w], pc'[w]>> \in {<<"rename", "erase">>, <<"replace", "off">>}
<1>. USE DEF Types, SyncsOK, FilesOK, files, Goto, Off, Steps
<1>1. CASE Begin(w) \/ Cleanup(w) \/ MakeParent(w) \/ MakeSession(w) \/ CreateLog(w)
           \/ Verify(w) \/ Erase(w) \/ Fail(w) \/ Kill(w)
  <2>1. tmp' = tmp /\ man' = man
    BY <1>1 DEF Begin, Cleanup, MakeParent, MakeSession, CreateLog, Verify, Erase, Fail, Kill
  <2>. QED
    BY <2>1
<1>2. CASE WriteLog(w)
  <2>1. tmp' = tmp /\ man' = man
    BY <1>2 DEF WriteLog
  <2>. QED
    BY <2>1
<1>3. ASSUME NEW m \in ManifestSet, WriteTmp(w, m)
      PROVE  /\ man' = man /\ name[w] \in dirs
             /\ tmp'[n] = tmp[n] \/ (n = name[w] /\ tmp'[n] = m)
  <2>1. tmp \in [Names -> ManifestSet]
    OBVIOUS
  <2>2. tmp' = [tmp EXCEPT ![name[w]] = m] /\ UNCHANGED <<fcDirs, dirs, log, man>> /\ name[w] \in dirs
    BY <1>3 DEF WriteTmp
  <2>. QED
    BY <2>1, <2>2
<1>4. ASSUME Rename(w)
      PROVE  /\ tmp'[n] = tmp[n] \/ tmp'[n] = NoManifest
             /\ man'[n] = man[n] \/ (n = name[w] /\ tmp[n] # NoManifest /\ man'[n] = tmp[n])
  <2>1. tmp \in [Names -> ManifestSet] /\ man \in [Names -> ManifestSet]
    OBVIOUS
  <2>2. /\ tmp[name[w]] # NoManifest
        /\ man' = [man EXCEPT ![name[w]] = tmp[name[w]]]
        /\ tmp' = [tmp EXCEPT ![name[w]] = NoManifest]
    BY <1>4 DEF Rename
  <2>. QED
    BY <2>1, <2>2
<1>5. CASE WriteManifest(w)
  <2>. DEFINE m == [run |-> run[w], erased |-> FALSE]
  <2>1. m \in ManifestSet /\ m.run = run[w]
    BY DEF ManifestSet
  <2>2. CASE pc[w] = "manifest" /\ WriteTmp(w, m)
    BY <1>3, <2>1, <2>2
  <2>3. CASE pc[w] = "rename" /\ Rename(w) /\ Goto(w, "erase")
    <3>1. pc'[w] = "erase"
      BY <2>3
    <3>. QED
      BY <1>4, <2>3, <3>1
  <2>. QED
    BY <1>5, <2>2, <2>3 DEF WriteManifest
<1>6. CASE UpdateManifest(w)
  <2>. DEFINE m == [read[w] EXCEPT !.erased = TRUE]
  <2>1. m \in ManifestSet /\ m.run = read[w].run
    BY DEF ManifestSet
  <2>2. CASE UNCHANGED files
    BY <2>2
  <2>3. CASE pc[w] = "rewrite" /\ WriteTmp(w, m)
    BY <1>3, <2>1, <2>3
  <2>4. CASE pc[w] = "replace" /\ Rename(w) /\ Off(w)
    BY <1>4, <2>4
  <2>. QED
    BY <1>6, <2>2, <2>3, <2>4 DEF UpdateManifest
<1>. QED
  BY <1>1, <1>2, <1>5, <1>6 DEF Sync

\* What a sync's step adds to what it knows.
LEMMA SyncLearns ==
    ASSUME Types, NEW w \in Writers, Sync(w)
    PROVE  /\ \/ pc'[w] \notin Late
              \/ pc[w] \in Late /\ name'[w] = name[w] /\ run'[w] = run[w]
              \/ Verify(w)
           /\ \/ pc'[w] # "rewrite"
              \/ /\ pc[w] = "update" /\ name'[w] = name[w] /\ run'[w] = run[w]
                 /\ read'[w] = man[name[w]] /\ man[name[w]] # NoManifest
           /\ UNCHANGED <<lister, handler>>
<1>. USE DEF Types, SyncsOK, FilesOK, files, Goto, Off, Late, Steps
<1>1. CASE Begin(w) BY <1>1 DEF Begin
<1>2. CASE Cleanup(w) BY <1>2 DEF Cleanup
<1>3. CASE MakeParent(w) BY <1>3 DEF MakeParent
<1>4. CASE MakeSession(w) BY <1>4 DEF MakeSession
<1>5. CASE CreateLog(w) BY <1>5 DEF CreateLog
<1>6. CASE WriteLog(w)
  <2>1. \/ Goto(w, "verify")
        \/ Off(w)
    BY <1>6 DEF WriteLog
  <2>. QED
    BY <1>6, <2>1 DEF WriteLog
<1>7. CASE Verify(w) BY <1>7 DEF Verify
<1>8. CASE WriteManifest(w) BY <1>8 DEF WriteManifest
<1>9. CASE Erase(w) BY <1>9 DEF Erase
<1>10. CASE UpdateManifest(w) BY <1>10 DEF UpdateManifest
<1>11. CASE Fail(w) \/ Kill(w) BY <1>11 DEF Fail, Kill
<1>. QED
  BY <1>1, <1>2, <1>3, <1>4, <1>5, <1>6, <1>7, <1>8, <1>9, <1>10, <1>11 DEF Sync

\* Nothing is known that was not known before, but to a sync that has read its log back.
LEMMA NothingElseIsKnown ==
    ASSUME Types, [Next]_vars, NEW n \in Names, NEW r \in 0..MaxRuns, Knows(n, r)'
    PROVE  \/ Knows(n, r)
           \/ \E w \in Writers : Verify(w) /\ n = name[w] /\ r = run[w]
<1>1. CASE UNCHANGED <<tmp, man, pc, name, run, read, found, cache, download>>
  BY <1>1 DEF Knows, HasManifest, IsAbout, Late
<1>2. ASSUME NEW w \in Writers, Sync(w)
      PROVE  \/ Knows(n, r)
             \/ Verify(w) /\ n = name[w] /\ r = run[w]
  <2>1. CASE HasManifest(n, r)'
    <3>1. \/ man[n] # NoManifest /\ man[n].run = r
          \/ tmp[n] # NoManifest /\ tmp[n].run = r
          \/ n = name[w] /\ pc[w] = "manifest" /\ run[w] = r
          \/ n = name[w] /\ pc[w] = "rewrite" /\ read[w].run = r
      <4>1. \/ man'[n] # NoManifest /\ man'[n].run = r
            \/ tmp'[n] # NoManifest /\ tmp'[n].run = r
        BY <2>1 DEF HasManifest, NoManifest
      <4>. QED
        BY <1>2, <4>1, SyncWrites
    <3>. QED
      BY <3>1 DEF Knows, HasManifest, IsAbout, Late
  <2>2. ASSUME NEW v \in Writers, IsAbout(v, n, r)' 
        PROVE  Knows(n, r) \/ (Verify(w) /\ n = name[w] /\ r = run[w])
    <3>1. CASE v # w
      <4>1. pc'[v] = pc[v] /\ name'[v] = name[v] /\ run'[v] = run[v] /\ read'[v] = read[v]
        BY <1>2, <3>1, SyncMoves
      <4>2. IsAbout(v, n, r)
        BY <2>2, <4>1 DEF IsAbout, Late
      <4>. QED
        BY <4>2 DEF Knows
    <3>2. CASE v = w
      <4>1. CASE pc'[w] \in Late /\ name'[w] = n /\ run'[w] = r
        <5>1. CASE pc[w] \in Late /\ name'[w] = name[w] /\ run'[w] = run[w]
          BY <4>1, <5>1 DEF IsAbout, Knows
        <5>2. CASE Verify(w)
          <6>1. name'[w] = name[w] /\ run'[w] = run[w]
            BY <5>2 DEF Verify
          <6>. QED
            BY <4>1, <5>2, <6>1
        <5>. QED
          BY <1>2, <4>1, <5>1, <5>2, SyncLearns
      <4>2. CASE pc'[w] = "rewrite" /\ name'[w] = n /\ read'[w].run = r
        <5>1. name'[w] = name[w] /\ read'[w] = man[name[w]] /\ man[name[w]] # NoManifest
          BY <1>2, <4>2, SyncLearns
        <5>. QED
          BY <4>2, <5>1 DEF Knows, HasManifest
      <4>. QED
        BY <2>2, <3>2, <4>1, <4>2 DEF IsAbout
    <3>. QED
      BY <3>1, <3>2
  <2>3. UNCHANGED <<found, cache, download>>
    BY <1>2, SyncLearns DEF lister, handler
  <2>. QED
    BY <2>1, <2>2, <2>3 DEF Knows
<1>3. ASSUME NEW p \in Removers, Removing(p) PROVE Knows(n, r)
  <2>1. UNCHANGED <<pc, name, run, read, found, cache, download>>
    BY <1>3 DEF Removing, UnlinkEntry, RemoveDir, RemoveFails, LookAtParent, RemoveParent, syncs,
         lister, handler
  <2>2. /\ tmp'[n] = tmp[n] \/ tmp'[n] = NoManifest
        /\ man'[n] = man[n] \/ man'[n] = NoManifest
    <3>1. CASE UnlinkEntry(p)
      BY <3>1 DEF UnlinkEntry, Types, FilesOK
    <3>2. CASE ~UnlinkEntry(p)
      BY <1>3, <3>2 DEF Removing, RemoveDir, RemoveFails, LookAtParent, RemoveParent, files
    <3>. QED
      BY <3>1, <3>2
  <2>. QED
    BY <2>1, <2>2 DEF Knows, HasManifest, IsAbout
<1>4. ASSUME Server PROVE Knows(n, r)
  <2>1. UNCHANGED <<tmp, man, pc, name, run, read>>
    BY <1>4 DEF Server, Download, Link, StatLog, OpenLog, Leave, BeginListing, ListOne,
       EndListing, Expire, BeginDelete, Invalidate, Answered, files, syncs
  <2>2. CASE <<n, r>> \in found' \cup cache'
    <3>1. <<n, r>> \in found \cup cache \/ HasManifest(n, r)
      BY <1>4, <2>2 DEF Server, Download, Link, StatLog, OpenLog, Leave, BeginListing, ListOne,
         EndListing, Expire, BeginDelete, Invalidate, Answered, lister, HasManifest
    <3>. QED
      BY <3>1 DEF Knows
  <2>3. CASE download'.step # "none" /\ download'.name = n /\ download'.run = r
    <3>1. CASE Link
      <4>1. PICK s \in cache :
              download' = [NoDownload EXCEPT !.step = "stat", !.name = s[1], !.run = s[2]]
        BY <3>1 DEF Link
      <4>2. s = <<s[1], s[2]>>
        BY DEF Types, ListerOK
      <4>3. download'.name = s[1] /\ download'.run = s[2]
        BY <4>1 DEF NoDownload
      <4>. QED
        BY <2>3, <4>2, <4>3 DEF Knows
    <3>2. CASE UNCHANGED download
      BY <2>3, <3>2 DEF Knows
    <3>3. CASE StatLog \/ OpenLog \/ Leave
      <4>1. download \in [step : {"none", "stat", "open"}, name : Names \cup {NoName},
                          run : 0..MaxRuns, got : SUBSET LogSet]
        BY DEF Types, HandlerOK
      <4>2. download' # NoDownload => /\ download.step # "none" /\ download'.name = download.name
                                      /\ download'.run = download.run
        BY <3>3, <4>1 DEF StatLog, OpenLog, Leave
      <4>3. download' # NoDownload
        BY <2>3 DEF NoDownload
      <4>. QED
        BY <2>3, <4>2, <4>3 DEF Knows
    <3>. QED
      BY <1>4, <3>1, <3>2, <3>3 DEF Server, Download, BeginListing, ListOne, EndListing, Expire,
         BeginDelete, Invalidate, Answered, handler
  <2>. QED
    BY <2>1, <2>2, <2>3 DEF Knows, HasManifest, IsAbout
<1>5. CASE UNCHANGED vars
  BY <1>1, <1>5 DEF vars, files, syncs, lister, handler
<1>. QED
  BY <1>1, <1>2, <1>3, <1>4, <1>5 DEF Next

LEMMA ReadBackIsArchived ==
    ASSUME Types, Distinct, NEW w \in Writers, Verify(w)
    PROVE  /\ name[w] \in Names
           /\ \A n, r : n = name[w] /\ r = run[w] => Archived(n, r)'
<1>. DEFINE n == name[w]
<1>1. /\ pc[w] = "verify" /\ log[n] = [run |-> run[w], whole |-> TRUE]
      /\ pc' = [pc EXCEPT ![w] = "manifest"]
      /\ UNCHANGED <<last, log, run, name>>
  BY DEF Verify, Goto, clock, files
<1>2. pc'[w] = "manifest"
  BY <1>1 DEF Types, SyncsOK
<1>3. n \in Names /\ n[2] <= last
  BY <1>1 DEF Distinct, Named, Types, SyncsOK
<1>4. ASSUME NEW u \in Writers, u # w, pc'[u] \in Named, name'[u] = n PROVE FALSE
  <2>1. pc[u] \in Named /\ name[u] = n
    BY <1>1, <1>4 DEF Types, SyncsOK
  <2>. QED
    BY <1>1, <1>4, <2>1 DEF Distinct, Named
<1>. QED
  BY <1>1, <1>2, <1>3, <1>4 DEF Archived, Late

LEMMA ArchiveLasts ==
    ASSUME Types, Archive, [Next]_vars
    PROVE  Archive'
<1>. SUFFICES ASSUME "clock" \notin world PROVE Distinct' /\ KnownIsArchived' /\ Fetched'
  BY WorldLasts DEF Archive
<1>1. Distinct /\ KnownIsArchived /\ Fetched
  BY DEF Archive
<1>2. Distinct'
  BY <1>1, DistinctLasts
<1>3. ASSUME NEW n \in Names, NEW r \in 0..MaxRuns, Knows(n, r)' PROVE Archived(n, r)'
  BY <1>1, <1>3, NothingElseIsKnown, ArchivedLasts, ReadBackIsArchived DEF KnownIsArchived
<1>4. Fetched'
  <2>1. CASE UNCHANGED download
    BY <1>1, <2>1 DEF Fetched
  <2>2. CASE Link \/ Leave
    <3>1. download'.got = {}
      <4>1. ASSUME NEW s, download' = [NoDownload EXCEPT !.step = "stat", !.name = s[1], !.run = s[2]]
            PROVE  download'.got = {}
        BY <4>1 DEF NoDownload
      <4>2. CASE Link
        BY <4>1, <4>2 DEF Link
      <4>3. CASE Leave
        BY <4>3 DEF Leave, NoDownload
      <4>. QED
        BY <2>2, <4>2, <4>3
    <3>2. CASE Link
      <4>1. download'.step = "stat"
        BY <3>2 DEF Link, NoDownload
      <4>. QED
        BY <3>1, <4>1 DEF Fetched
    <3>3. CASE Leave
      BY <3>1, <3>3 DEF Fetched
    <3>. QED
      BY <2>2, <3>2, <3>3
  <2>3. CASE StatLog \/ OpenLog
    <3>. DEFINE l == log[download.name]
    <3>1. /\ download.step # "none"
          /\ \/ download' = NoDownload
             \/ /\ l # NoLog
                /\ \E st \in {"stat", "open"} :
                      download' = [download EXCEPT !.step = st, !.got = @ \cup {l}]
      BY <2>3 DEF StatLog, OpenLog
    <3>2. /\ download \in [step : {"none", "stat", "open"}, name : Names \cup {NoName},
                           run : 0..MaxRuns, got : SUBSET LogSet]
          /\ download.name \in Names
      BY <3>1 DEF Types, HandlerOK
    <3>3. Archived(download.name, download.run)
      BY <1>1, <3>1, <3>2 DEF KnownIsArchived, Knows
    <3>4. l # NoLog => l = [run |-> download.run, whole |-> TRUE]
      BY <3>3 DEF Archived
    <3>5. CASE download' = NoDownload
      BY <3>5 DEF Fetched, NoDownload
    <3>6. ASSUME l # NoLog, NEW st \in {"stat", "open"},
                 download' = [download EXCEPT !.step = st, !.got = @ \cup {l}]
          PROVE  Fetched'
      <4>1. /\ download'.step = st /\ download'.run = download.run
            /\ download'.got = download.got \cup {l}
        BY <3>2, <3>6
      <4>. QED
        BY <1>1, <3>4, <3>6, <4>1 DEF Fetched
    <3>. QED
      BY <3>1, <3>5, <3>6
  <2>. QED
    <3>1. ASSUME NEW w \in Writers, Sync(w) PROVE UNCHANGED download
      BY <3>1, SyncLearns DEF handler
    <3>2. ASSUME NEW p \in Removers, Removing(p) PROVE UNCHANGED download
      BY <3>2 DEF Removing, UnlinkEntry, RemoveDir, RemoveFails, LookAtParent, RemoveParent, handler
    <3>3. CASE Server
      BY <2>1, <2>2, <2>3, <3>3 DEF Server, Download, BeginListing, ListOne, EndListing, Expire,
         BeginDelete, Invalidate, Answered, handler
    <3>4. CASE UNCHANGED vars
      BY <2>1, <3>4 DEF vars, handler
    <3>. QED
      BY <2>1, <3>1, <3>2, <3>3, <3>4 DEF Next
<1>. QED
  BY <1>2, <1>3, <1>4 DEF KnownIsArchived

LEMMA InitArchive == Init => Archive
BY DEF Init, Archive, Distinct, KnownIsArchived, Knows, HasManifest, IsAbout, Named, Late,
   Fetched, NoDownload

\* With a clock that gives every session a name of its own, a manifest has its log.
THEOREM ManifestsHaveLogs == Spec => []ManifestHasItsLog
<1>1. Types /\ Archive => ManifestHasItsLog
  <2>. SUFFICES ASSUME Types, Archive, "clock" \notin world, NEW n \in Names, man[n] # NoManifest
                PROVE  Archived(n, man[n].run)
    BY DEF ManifestHasItsLog, Archived
  <2>1. man[n].run \in 0..MaxRuns
    BY DEF Types, FilesOK, ManifestSet
  <2>. QED
    BY <2>1 DEF Archive, KnownIsArchived, Knows, HasManifest
<1>. QED
  BY <1>1, InitArchive, InitTyped, NextTyped, ArchiveLasts, PTL DEF Spec

\* ... and what is downloaded is the whole log that was listed.
THEOREM DownloadsAreWhole == Spec => []DownloadIsTheLog
<1>1. Archive => DownloadIsTheLog
  BY DEF Archive, Fetched, DownloadIsTheLog
<1>. QED
  BY <1>1, InitArchive, InitTyped, NextTyped, ArchiveLasts, PTL DEF Spec

----------------------------------------------------------------------------
(* One sync at a time. *)

\* The log is there, or the pilot has deleted it.
Behind ==
    "two" \notin world =>
        /\ \A v, w \in Writers : pc[v] # "off" /\ pc[w] # "off" => v = w
        /\ \A w \in Writers : rm[w] # "no" => pc[w] = "cleanup"
        /\ \A w \in Writers : pc[w] \in {"manifest", "rename", "erase"} =>
               \/ log[name[w]] = [run |-> run[w], whole |-> TRUE]
               \/ Web \in RemovedBy(run[w])

\* How a sync's step moves it, and removals with it.
LEMMA SyncRemovals ==
    ASSUME Types, NEW w \in Writers, Sync(w)
    PROVE  /\ \A p \in Removers \ {w} : rm'[p] = rm[p] /\ victim'[p] = victim[p]
           /\ \/ rm'[w] = rm[w] /\ pc[w] # "cleanup"
              \/ rm'[w] = "no"
              \/ pc'[w] = "cleanup"
           /\ pc'[w] # "off" => pc[w] # "off" \/ Begin(w)
           /\ pc'[w] \in {"manifest", "rename", "erase"} =>
                  \/ Verify(w)
                  \/ /\ pc[w] \in {"manifest", "rename", "erase"}
                     /\ name'[w] = name[w] /\ run'[w] = run[w] /\ log' = log
<1>. USE WriterRemoves DEF Types, SyncsOK, RemovalOK, removal, files, Goto, Off, Steps
<1>1. CASE Begin(w) BY <1>1 DEF Begin
<1>2. CASE Cleanup(w) BY <1>2 DEF Cleanup, Remove
<1>3. CASE MakeParent(w) BY <1>3 DEF MakeParent
<1>4. CASE MakeSession(w) BY <1>4 DEF MakeSession
<1>5. CASE CreateLog(w) BY <1>5 DEF CreateLog
<1>6. CASE WriteLog(w)
  <2>1. Goto(w, "verify") \/ Off(w)
    BY <1>6 DEF WriteLog
  <2>. QED
    BY <1>6, <2>1 DEF WriteLog
<1>7. CASE Verify(w) BY <1>7 DEF Verify
<1>8. CASE WriteManifest(w) BY <1>8 DEF WriteManifest, WriteTmp, Rename
<1>9. CASE Erase(w) BY <1>9 DEF Erase
<1>10. CASE UpdateManifest(w) BY <1>10 DEF UpdateManifest, WriteTmp, Rename
<1>11. CASE Fail(w) BY <1>11 DEF Fail
<1>12. CASE Kill(w) BY <1>12 DEF Kill, Done
<1>. QED
  BY <1>1, <1>2, <1>3, <1>4, <1>5, <1>6, <1>7, <1>8, <1>9, <1>10, <1>11, <1>12 DEF Sync

LEMMA BehindLasts ==
    ASSUME Types, Behind, [Next]_vars
    PROVE  Behind'
<1>. SUFFICES ASSUME "two" \notin world
              PROVE  /\ \A v, w \in Writers : pc'[v] # "off" /\ pc'[w] # "off" => v = w
                     /\ \A w \in Writers : rm'[w] # "no" => pc'[w] = "cleanup"
                     /\ \A w \in Writers : pc'[w] \in {"manifest", "rename", "erase"} =>
                            \/ log'[name'[w]] = [run |-> run'[w], whole |-> TRUE]
                            \/ <<Web, run'[w]>> \in removed'
  BY WorldLasts, WriterRemoves DEF Behind, RemovedBy
<1>1. /\ \A v, w \in Writers : pc[v] # "off" /\ pc[w] # "off" => v = w
      /\ \A w \in Writers : rm[w] # "no" => pc[w] = "cleanup"
      /\ \A w \in Writers : pc[w] \in {"manifest", "rename", "erase"} =>
             \/ log[name[w]] = [run |-> run[w], whole |-> TRUE]
             \/ <<Web, run[w]>> \in removed
  BY DEF Behind, RemovedBy
<1>2. ASSUME NEW w \in Writers, Sync(w)
      PROVE  /\ \A v, u \in Writers : pc'[v] # "off" /\ pc'[u] # "off" => v = u
             /\ \A v \in Writers : rm'[v] # "no" => pc'[v] = "cleanup"
             /\ \A v \in Writers : pc'[v] \in {"manifest", "rename", "erase"} =>
                    \/ log'[name'[v]] = [run |-> run'[v], whole |-> TRUE]
                    \/ <<Web, run'[v]>> \in removed'
  <2>1. \A v \in Writers : pc'[v] # "off" => v = w
    <3>1. CASE Begin(w)
      BY <1>2, <3>1, SyncMoves DEF Begin
    <3>2. CASE pc[w] # "off"
      BY <1>1, <1>2, <3>2, SyncMoves
    <3>3. CASE pc'[w] = "off" /\ pc[w] = "off" /\ ~Begin(w)
      BY <1>2, <3>3 DEF Sync, Cleanup, MakeParent, MakeSession, CreateLog, WriteLog, Verify,
         WriteManifest, Erase, UpdateManifest, Fail, Kill
    <3>. QED
      BY <1>2, <3>1, <3>2, <3>3, SyncRemovals
  <2>2. \A v \in Writers : rm'[v] # "no" => pc'[v] = "cleanup"
    BY <1>1, <1>2, SyncMoves, SyncRemovals, WriterRemoves
  <2>3. ASSUME NEW v \in Writers, pc'[v] \in {"manifest", "rename", "erase"}
        PROVE  \/ log'[name'[v]] = [run |-> run'[v], whole |-> TRUE]
               \/ <<Web, run'[v]>> \in removed'
    <3>1. v = w
      BY <2>1, <2>3
    <3>2. CASE Verify(w)
      BY <3>1, <3>2 DEF Verify, files
    <3>3. CASE /\ pc[w] \in {"manifest", "rename", "erase"}
               /\ name'[w] = name[w] /\ run'[w] = run[w] /\ log' = log
      BY <1>1, <1>2, <3>1, <3>3, SyncMoves
    <3>. QED
      BY <1>2, <2>3, <3>1, <3>2, <3>3, SyncRemovals
  <2>. QED
    BY <2>1, <2>2, <2>3
<1>3. ASSUME NEW p \in Removers, Removing(p)
      PROVE  /\ UNCHANGED <<pc, name, run>>
             /\ \A v \in Writers : rm'[v] # "no" => rm[v] # "no"
             /\ \A v \in Writers : pc[v] \in {"manifest", "rename", "erase"} =>
                    \/ log'[name[v]] = [run |-> run[v], whole |-> TRUE]
                    \/ <<Web, run[v]>> \in removed'
  <2>1. UNCHANGED <<pc, name, run>>
    BY <1>3 DEF Removing, UnlinkEntry, RemoveDir, RemoveFails, LookAtParent, RemoveParent, syncs
  <2>2. \A v \in Writers : rm'[v] # "no" => rm[v] # "no"
    BY <1>3, WriterRemoves DEF Removing, UnlinkEntry, RemoveDir, RemoveFails, LookAtParent,
       RemoveParent, Done, removal, Types, RemovalOK
  <2>3. ASSUME NEW v \in Writers, pc[v] \in {"manifest", "rename", "erase"}
        PROVE  \/ log'[name[v]] = [run |-> run[v], whole |-> TRUE]
               \/ <<Web, run[v]>> \in removed'
    <3>1. name[v] \in Names
      BY <2>3 DEF Types, SyncsOK, Named
    <3>2. rm[p] # "no" /\ p \in Writers => p = v
      BY <1>1, <2>3
    <3>3. rm[p] # "no" => p = Web
      BY <1>1, <2>3, <3>2 DEF Removers
    <3>4. CASE UnlinkEntry(p) /\ log'[name[v]] # log[name[v]]
      <4>1. p = Web /\ name[v] = victim[p] /\ removed' = removed \cup {<<p, log[name[v]].run>>}
        BY <3>1, <3>3, <3>4 DEF UnlinkEntry, Types, FilesOK
      <4>. QED
        BY <1>1, <2>3, <4>1
    <3>5. CASE log'[name[v]] = log[name[v]]
      <4>1. removed \subseteq removed'
        BY <1>3 DEF Removing, UnlinkEntry, RemoveDir, RemoveFails, LookAtParent, RemoveParent,
           history
      <4>. QED
        BY <1>1, <2>3, <3>5, <4>1
    <3>. QED
      BY <1>3, <3>4, <3>5 DEF Removing, RemoveDir, RemoveFails, LookAtParent, RemoveParent, files
  <2>. QED
    BY <2>1, <2>2, <2>3
<1>4. CASE Server
  <2>1. UNCHANGED <<pc, name, run, log, removed>>
    BY <1>4 DEF Server, Download, Link, StatLog, OpenLog, Leave, BeginListing, ListOne,
       EndListing, Expire, BeginDelete, Invalidate, Answered, files, syncs, history
  <2>2. \A v \in Writers : rm'[v] = rm[v]
    BY <1>4, WriterRemoves, StoreAssumption DEF Server, Download, Link, StatLog, OpenLog, Leave,
       BeginListing, ListOne, EndListing, Expire, BeginDelete, Invalidate, Answered, Remove,
       removal, Types, RemovalOK
  <2>. QED
    BY <1>1, <2>1, <2>2
<1>5. CASE UNCHANGED vars
  BY <1>1, <1>5 DEF vars, files, syncs, removal, history
<1>. QED
  BY <1>1, <1>2, <1>3, <1>4, <1>5 DEF Next

\* For any number of syncs and controllers: a sync that is alone tells its FC to erase
\* with the log whole on the card, or after the pilot deleted it, whatever the clock
\* does; and one that is not, under a clock that moves on, with the log whole or taken by
\* a removal.
THEOREM ErasesBehind == Spec => ErasesBehindItsLog
<1>. DEFINE Told == \A w \in Writers : pc[w] = "erase" /\ pc'[w] = "update" =>
                        \/ log[name[w]] = [run |-> run[w], whole |-> TRUE]
                        \/ Web \in RemovedBy(run[w])
                        \/ "two" \in world /\ RemovedBy(run[w]) # {}
                        \/ {"two", "clock"} \subseteq world
<1>1. Init => Behind
  BY WriterRemoves DEF Init, Behind
<1>2. Types /\ Archive /\ Behind => [Told]_vars
  <2>. SUFFICES ASSUME Types, Archive, Behind, NEW w \in Writers, pc[w] = "erase"
                PROVE  \/ log[name[w]] = [run |-> run[w], whole |-> TRUE]
                       \/ Web \in RemovedBy(run[w])
                       \/ "two" \in world /\ RemovedBy(run[w]) # {}
                       \/ {"two", "clock"} \subseteq world
    OBVIOUS
  <2>1. CASE "two" \notin world
    BY <2>1 DEF Behind
  <2>2. CASE "clock" \notin world /\ "two" \in world
    <3>1. name[w] \in Names /\ run[w] \in 0..MaxRuns
      BY DEF Types, SyncsOK, Named
    <3>2. IsAbout(w, name[w], run[w])
      BY DEF IsAbout, Late
    <3>3. Archived(name[w], run[w])
      BY <2>2, <3>1, <3>2 DEF Archive, KnownIsArchived, Knows
    <3>. QED
      BY <2>2, <3>3 DEF Archived
  <2>3. CASE "clock" \in world /\ "two" \in world
    BY <2>3
  <2>. QED
    BY <2>1, <2>2, <2>3
<1>. QED
  BY <1>1, <1>2, InitTyped, NextTyped, InitArchive, ArchiveLasts, BehindLasts, PTL
  DEF Spec, ErasesBehindItsLog

\* Only a removal takes a manifest away: rewriting one never does.
THEOREM ListedTillDeleted == Spec => ListedUntilDeleted
<1>. DEFINE Stays == \A n \in Names : man[n] # NoManifest /\ man'[n] = NoManifest =>
                         \E p \in Removers : rm[p] = "entries" /\ victim[p] = n
<1>1. Types /\ [Next]_vars => [Stays]_vars
  <2>. SUFFICES ASSUME Types, Next, NEW n \in Names, man[n] # NoManifest, man'[n] = NoManifest
                PROVE  \E p \in Removers : rm[p] = "entries" /\ victim[p] = n
    OBVIOUS
  <2>1. ASSUME NEW w \in Writers, Sync(w) PROVE FALSE
    BY <2>1, SyncWrites
  <2>2. ASSUME NEW p \in Removers, Removing(p) PROVE rm[p] = "entries" /\ victim[p] = n
    BY <2>2 DEF Removing, UnlinkEntry, RemoveDir, RemoveFails, LookAtParent, RemoveParent, files,
       Types, FilesOK
  <2>3. CASE Server
    BY <2>3 DEF Server, Download, Link, StatLog, OpenLog, Leave, BeginListing, ListOne,
       EndListing, Expire, BeginDelete, Invalidate, Answered, files
  <2>. QED
    BY <2>1, <2>2, <2>3 DEF Next
<1>. QED
  BY <1>1, InitTyped, NextTyped, PTL DEF Spec, ListedUntilDeleted

----------------------------------------------------------------------------
(* Runs have numbers of their own, and only the run itself writes its manifest. *)

\* One sync at a time, or a name of its own for each.
Orderly == ~({"two", "clock"} \subseteq world)

\* Steps of a sync whose manifest has been in its place.
Kept == {"erase", "update", "rewrite", "replace"}

\* Whoever has run r holds session n, and has put its manifest there ...
HeldBy(n, r) == /\ r <= runs
                /\ \A w \in Writers : run[w] = r => name[w] = n /\ pc[w] \in Kept

\* ... or is about to.
Promised(n, r) == /\ r <= runs
                  /\ \A w \in Writers : run[w] = r => name[w] = n /\ pc[w] \in Kept \cup {"rename"}

Numbered == /\ \A w \in Writers : run[w] <= runs /\ (pc[w] = "off" => run[w] = 0)
            /\ \A v, w \in Writers : run[v] = run[w] /\ run[v] # 0 => v = w

\* What is at the place of a sync that has come to its manifest is of that sync.
OwnOnly ==
    \A w \in Writers :
        /\ pc[w] \in {"rename", "replace"} =>
               tmp[name[w]] = NoManifest \/ tmp[name[w]].run = run[w]
        /\ pc[w] \in Kept => man[name[w]] = NoManifest \/ man[name[w]].run = run[w]
        /\ pc[w] = "rewrite" => read[w].run = run[w]

\* Where a manifest of run r is, nobody else can have written it.
Signed == /\ \A n \in Names : man[n].run # 0 => HeldBy(n, man[n].run)
          /\ \A n \in Names : tmp[n].run # 0 => Promised(n, tmp[n].run)

\* There is no manifest of run r at n, and there cannot be one again.
Dead(n, r) == /\ HeldBy(n, r)
              /\ man[n].run # r /\ tmp[n].run # r
              /\ \A w \in Writers : run[w] = r => n \notin dirs

\* The removal has got past the directory.
DirGone == rm[Web] \in {"parent", "rmdir"} \/ reply = "invalidate"

\* A deletion that is under way is of what its request named; from the removal of the
\* directory on that is dead.
Deleting ==
    /\ reply = "removing" <=> rm[Web] # "no"
    /\ rm[Web] # "no" => victim[Web] = request.name
    /\ DirGone => request.name \in Names
    /\ reply # "none" /\ request.run # 0 => HeldBy(request.name, request.run)
    /\ DirGone /\ request.run # 0 => Dead(request.name, request.run)

\* What was answered is dead and in no list.
Buried ==
    /\ ~listing => found = {}
    /\ \A d \in gone : d[2] # 0 =>
           /\ d[1] \in Names /\ Dead(d[1], d[2])
           /\ d \notin found
           /\ fresh => d \notin cache

Deletions == Numbered /\ (Orderly => OwnOnly /\ Signed /\ Deleting /\ Buried)

LEMMA OwnNames ==
    ASSUME Types, Archive, Behind, Orderly,
           NEW v \in Writers, NEW w \in Writers, pc[v] \in Named, pc[w] \in Named,
           name[v] = name[w]
    PROVE  v = w
<1>1. CASE "clock" \notin world
  BY <1>1 DEF Archive, Distinct
<1>2. CASE "two" \notin world
  BY <1>2 DEF Behind, Named
<1>. QED
  BY <1>1, <1>2 DEF Orderly

\* A sync begins with a number of its own, keeps it, and loses it when it ends.
LEMMA SyncRuns ==
    ASSUME Types, NEW w \in Writers, Sync(w)
    PROVE  \/ pc[w] = "off" /\ pc'[w] # "off" /\ runs' = runs + 1 /\ run'[w] = runs + 1
           \/ pc'[w] = "off" /\ run'[w] = 0 /\ runs' = runs
           \/ /\ pc[w] # "off" /\ pc'[w] # "off" /\ runs' = runs /\ run'[w] = run[w]
              /\ pc[w] \in Named => name'[w] = name[w]
              /\ pc[w] \in Kept => pc'[w] \in Kept
              /\ pc[w] = "rename" => pc'[w] \in Kept
              /\ pc[w] = "manifest" => pc'[w] = "rename"
<1>. USE DEF Types, SyncsOK, Goto, Off, Kept, Named, Steps
<1>1. CASE Begin(w) BY <1>1 DEF Begin
<1>2. CASE Cleanup(w) BY <1>2 DEF Cleanup
<1>3. CASE MakeParent(w) BY <1>3 DEF MakeParent
<1>4. CASE MakeSession(w) BY <1>4 DEF MakeSession
<1>5. CASE CreateLog(w) BY <1>5 DEF CreateLog
<1>6. CASE WriteLog(w)
  <2>1. \/ Goto(w, "verify") /\ UNCHANGED <<run, name, todo, read>>
        \/ Off(w)
    BY <1>6 DEF WriteLog
  <2>. QED
    BY <1>6, <2>1 DEF WriteLog
<1>7. CASE Verify(w) BY <1>7 DEF Verify
<1>8. CASE WriteManifest(w) BY <1>8 DEF WriteManifest
<1>9. CASE Erase(w) BY <1>9 DEF Erase
<1>10. CASE UpdateManifest(w) BY <1>10 DEF UpdateManifest
<1>11. CASE Fail(w) \/ Kill(w) BY <1>11 DEF Fail, Kill
<1>. QED
  BY <1>1, <1>2, <1>3, <1>4, <1>5, <1>6, <1>7, <1>8, <1>9, <1>10, <1>11 DEF Sync

\* A step that is not a sync's leaves the syncs alone.
LEMMA OthersMoveNoSync ==
    ASSUME Types, [Next]_vars, \A w \in Writers : ~Sync(w)
    PROVE  UNCHANGED <<pc, run, name, read, runs>>
<1>1. ASSUME NEW p \in Removers, Removing(p) PROVE UNCHANGED <<pc, run, name, read, runs>>
  BY <1>1 DEF Removing, UnlinkEntry, RemoveDir, RemoveFails, LookAtParent, RemoveParent, syncs
<1>2. CASE Server
  BY <1>2 DEF Server, Download, Link, StatLog, OpenLog, Leave, BeginListing, ListOne,
       EndListing, Expire, BeginDelete, Invalidate, Answered, syncs
<1>. QED
  BY <1>1, <1>2 DEF Next, vars, syncs

\* Nor does it write a manifest or make a directory.
LEMMA OthersWriteNothing ==
    ASSUME Types, [Next]_vars, \A w \in Writers : ~Sync(w), NEW n \in Names
    PROVE  /\ man'[n] = man[n] \/ man'[n] = NoManifest
           /\ tmp'[n] = tmp[n] \/ tmp'[n] = NoManifest
           /\ dirs' \subseteq dirs
<1>1. ASSUME NEW p \in Removers, UnlinkEntry(p)
      PROVE  /\ man'[n] = man[n] \/ man'[n] = NoManifest
             /\ tmp'[n] = tmp[n] \/ tmp'[n] = NoManifest
             /\ dirs' \subseteq dirs
  BY <1>1 DEF UnlinkEntry, Types, FilesOK
<1>2. ASSUME NEW p \in Removers, RemoveDir(p) \/ RemoveFails(p) \/ LookAtParent(p) \/ RemoveParent(p)
      PROVE  UNCHANGED <<man, tmp>> /\ dirs' \subseteq dirs
  BY <1>2 DEF RemoveDir, RemoveFails, LookAtParent, RemoveParent, files
<1>3. CASE Server
  BY <1>3 DEF Server, Download, Link, StatLog, OpenLog, Leave, BeginListing, ListOne,
       EndListing, Expire, BeginDelete, Invalidate, Answered, files
<1>. QED
  BY <1>1, <1>2, <1>3 DEF Next, Removing, vars, files

LEMMA NumberedLasts ==
    ASSUME Types, Numbered, [Next]_vars
    PROVE  Numbered'
<1>. runs \in Nat /\ \A w \in Writers : run[w] \in Nat
  BY StoreAssumption DEF Types, SyncsOK
<1>1. ASSUME NEW w \in Writers, Sync(w) PROVE Numbered'
  <2>1. \A v \in Writers : run'[v] <= runs' /\ (pc'[v] = "off" => run'[v] = 0)
    BY <1>1, SyncRuns, SyncMoves DEF Numbered
  <2>2. \A v, u \in Writers : run'[v] = run'[u] /\ run'[v] # 0 => v = u
    BY <1>1, SyncRuns, SyncMoves DEF Numbered
  <2>. QED
    BY <2>1, <2>2 DEF Numbered
<1>2. CASE \A w \in Writers : ~Sync(w)
  BY <1>2, OthersMoveNoSync DEF Numbered
<1>. QED
  BY <1>1, <1>2

LEMMA HeldLasts ==
    ASSUME Types, Numbered, [Next]_vars, NEW n \in Names, NEW r \in 1..MaxRuns
    PROVE  /\ HeldBy(n, r) => HeldBy(n, r)'
           /\ Promised(n, r) => Promised(n, r)'
           /\ r <= runs => \A w \in Writers : run'[w] = r => run[w] = r
<1>. runs \in Nat /\ r \in Nat /\ r # 0
  BY StoreAssumption DEF Types, SyncsOK
<1>1. ASSUME NEW w \in Writers, Sync(w)
      PROVE  /\ HeldBy(n, r) => HeldBy(n, r)'
             /\ Promised(n, r) => Promised(n, r)'
             /\ r <= runs => \A v \in Writers : run'[v] = r => run[v] = r
  <2>1. HeldBy(n, r) => HeldBy(n, r)'
    BY <1>1, SyncRuns, SyncMoves DEF HeldBy, Kept, Named
  <2>2. Promised(n, r) => Promised(n, r)'
    BY <1>1, SyncRuns, SyncMoves DEF Promised, Kept, Named
  <2>3. r <= runs => \A v \in Writers : run'[v] = r => run[v] = r
    BY <1>1, SyncRuns, SyncMoves
  <2>. QED
    BY <2>1, <2>2, <2>3
<1>2. CASE \A w \in Writers : ~Sync(w)
  BY <1>2, OthersMoveNoSync DEF HeldBy, Promised, Kept
<1>. QED
  BY <1>1, <1>2

\* What a sync's step does to another's place: nothing.
LEMMA SyncSparesOthers ==
    ASSUME Types, Archive, Behind, Orderly, NEW w \in Writers, Sync(w),
           NEW v \in Writers \ {w}, pc[v] \in Named
    PROVE  tmp'[name[v]] = tmp[name[v]] /\ man'[name[v]] = man[name[v]]
<1>. DEFINE n == name[v]
<1>1. n \in Names
  BY DEF Types, SyncsOK
<1>2. pc[w] \in Named => name[w] # n
  BY OwnNames
<1>. USE <1>1, <1>2 DEF Types, SyncsOK, FilesOK, files, Named
<1>3. CASE Begin(w) \/ Cleanup(w) \/ MakeParent(w) \/ MakeSession(w) \/ CreateLog(w)
           \/ WriteLog(w) \/ Verify(w) \/ Erase(w) \/ Fail(w) \/ Kill(w)
  <2>1. tmp' = tmp /\ man' = man
    BY <1>3 DEF Begin, Cleanup, MakeParent, MakeSession, CreateLog, WriteLog, Verify, Erase,
       Fail, Kill
  <2>. QED
    BY <2>1
<1>4. CASE WriteManifest(w)
  BY <1>4 DEF WriteManifest, WriteTmp, Rename
<1>5. CASE UpdateManifest(w)
  BY <1>5 DEF UpdateManifest, WriteTmp, Rename
<1>. QED
  BY <1>3, <1>4, <1>5 DEF Sync

LEMMA OwnLasts ==
    ASSUME Types, Archive, Behind, Orderly, OwnOnly, [Next]_vars
    PROVE  OwnOnly'
<1>. DEFINE Own(v) == /\ pc[v] \in {"rename", "replace"} =>
                             tmp[name[v]] = NoManifest \/ tmp[name[v]].run = run[v]
                      /\ pc[v] \in Kept => man[name[v]] = NoManifest \/ man[name[v]].run = run[v]
                      /\ pc[v] = "rewrite" => read[v].run = run[v]
<1>1. ASSUME NEW w \in Writers, Sync(w), NEW v \in Writers \ {w} PROVE Own(v)'
  <2>1. Own(v)
    BY DEF OwnOnly
  <2>2. pc'[v] = pc[v] /\ name'[v] = name[v] /\ run'[v] = run[v] /\ read'[v] = read[v]
    BY <1>1, SyncMoves
  <2>3. pc[v] \in Named => tmp'[name[v]] = tmp[name[v]] /\ man'[name[v]] = man[name[v]]
    BY <1>1, SyncSparesOthers
  <2>. QED
    BY <2>1, <2>2, <2>3 DEF Kept, Named
<1>2. ASSUME NEW w \in Writers, Sync(w) PROVE Own(w)'
  <2>1. Own(w)
    BY DEF OwnOnly
  <2>2. pc[w] \in Named => name[w] \in Names
    BY DEF Types, SyncsOK
  <2>. DEFINE n == name[w]
  <2>3. CASE WriteManifest(w)
    <3>1. CASE pc[w] = "manifest"
      <4>1. /\ pc'[w] = "rename" /\ name' = name /\ run' = run /\ read' = read
            /\ tmp' = [tmp EXCEPT ![n] = [run |-> run[w], erased |-> FALSE]]
        BY <2>3, <3>1 DEF WriteManifest, WriteTmp, Goto, Types, SyncsOK
      <4>2. tmp'[n].run = run[w]
        BY <2>2, <3>1, <4>1 DEF Named, Types, FilesOK
      <4>. QED
        BY <4>1, <4>2 DEF Kept
    <3>2. CASE pc[w] = "rename"
      <4>1. /\ pc'[w] = "erase" /\ name' = name /\ run' = run /\ read' = read
            /\ tmp[n] # NoManifest
            /\ man' = [man EXCEPT ![n] = tmp[n]]
        BY <2>3, <3>2 DEF WriteManifest, Rename, Goto, Types, SyncsOK
      <4>2. man'[n].run = run[w]
        BY <2>1, <2>2, <3>2, <4>1 DEF Named, Types, FilesOK
      <4>. QED
        BY <4>1, <4>2 DEF Kept
    <3>. QED
      BY <2>3, <3>1, <3>2 DEF WriteManifest
  <2>4. CASE Erase(w)
    BY <2>1, <2>4 DEF Erase, Goto, files, Kept, Types, SyncsOK
  <2>5. CASE UpdateManifest(w)
    <3>1. CASE pc[w] = "update"
      <4>1. /\ pc'[w] = "rewrite" /\ name' = name /\ run' = run
            /\ man[n] # NoManifest /\ man' = man /\ read'[w] = man[n]
        BY <2>5, <3>1 DEF UpdateManifest, Goto, Types, SyncsOK, files
      <4>. QED
        BY <2>1, <3>1, <4>1 DEF Kept
    <3>2. CASE pc[w] = "rewrite"
      <4>1. /\ pc'[w] = "replace" /\ name' = name /\ run' = run /\ read' = read
            /\ man' = man
            /\ tmp' = [tmp EXCEPT ![n] = [read[w] EXCEPT !.erased = TRUE]]
        BY <2>5, <3>2 DEF UpdateManifest, WriteTmp, Goto, Types, SyncsOK
      <4>2. [read[w] EXCEPT !.erased = TRUE].run = read[w].run
        BY DEF Types, SyncsOK, ManifestSet
      <4>3. tmp'[n].run = run[w]
        BY <2>1, <2>2, <3>2, <4>1, <4>2 DEF Named, Types, FilesOK
      <4>. QED
        BY <2>1, <3>2, <4>1, <4>3 DEF Kept
    <3>3. CASE pc[w] = "replace"
      BY <2>5, <3>3 DEF UpdateManifest, Off, Goto, Types, SyncsOK, Kept
    <3>. QED
      BY <2>5, <3>1, <3>2, <3>3 DEF UpdateManifest
  <2>6. CASE ~WriteManifest(w) /\ ~Erase(w) /\ ~UpdateManifest(w)
    <3>1. pc'[w] \notin Kept \cup {"rename"}
      <4>1. CASE WriteLog(w)
        <5>1. Goto(w, "verify") \/ Off(w)
          BY <4>1 DEF WriteLog
        <5>. QED
          BY <5>1 DEF Off, Goto, Types, SyncsOK, Kept
      <4>. QED
        BY <1>2, <2>6, <4>1 DEF Sync, Begin, Cleanup, MakeParent, MakeSession, CreateLog, Verify,
           Fail, Kill, Off, Goto, Types, SyncsOK, Kept
    <3>. QED
      BY <3>1 DEF Kept
  <2>. QED
    BY <2>3, <2>4, <2>5, <2>6
<1>3. CASE \A w \in Writers : ~Sync(w)
  <2>. SUFFICES ASSUME NEW v \in Writers PROVE Own(v)'
    BY DEF OwnOnly, Kept
  <2>1. UNCHANGED <<pc, run, name, read>>
    BY <1>3, OthersMoveNoSync
  <2>2. pc[v] \in Named => /\ man'[name[v]] = man[name[v]] \/ man'[name[v]] = NoManifest
                           /\ tmp'[name[v]] = tmp[name[v]] \/ tmp'[name[v]] = NoManifest
    BY <1>3, OthersWriteNothing DEF Types, SyncsOK
  <2>3. Own(v)
    BY DEF OwnOnly
  <2>. QED
    BY <2>1, <2>2, <2>3 DEF Kept, Named
<1>4. ASSUME \A v \in Writers : Own(v)' PROVE OwnOnly'
  BY <1>4 DEF OwnOnly, Kept
<1>. QED
  BY <1>1, <1>2, <1>3, <1>4

LEMMA SignedLasts ==
    ASSUME Types, Archive, Behind, Orderly, Numbered, OwnOnly, Signed, [Next]_vars
    PROVE  Signed'
<1>1. \A n \in Names : man[n].run \in 0..MaxRuns /\ tmp[n].run \in 0..MaxRuns
  BY DEF Types, FilesOK, ManifestSet
<1>2. NoManifest.run = 0
  BY DEF NoManifest
<1>3. \A n \in Names, r \in 1..MaxRuns : /\ HeldBy(n, r) => HeldBy(n, r)'
                                         /\ Promised(n, r) => Promised(n, r)'
  BY HeldLasts
<1>4. ASSUME NEW n \in Names, NEW r \in 1..MaxRuns, man'[n].run = r PROVE HeldBy(n, r)'
  <2>1. CASE man[n].run = r
    BY <1>3, <2>1 DEF Signed
  <2>2. CASE man[n].run # r
    <3>1. PICK w \in Writers : Sync(w)
      BY <1>2, <1>4, <2>2, OthersWriteNothing
    <3>2. /\ n = name[w] /\ tmp[n].run = r
          /\ <<pc[w], pc'[w]>> \in {<<"rename", "erase">>, <<"replace", "off">>}
      BY <1>4, <2>2, <3>1, SyncWrites
    <3>3. Promised(n, r)
      BY <3>2 DEF Signed
    <3>4. \A v \in Writers : run[v] = r /\ v # w => FALSE
      <4>. SUFFICES ASSUME NEW v \in Writers, run[v] = r, v # w PROVE FALSE
        OBVIOUS
      <4>1. name[v] = n /\ pc[v] \in Named
        BY <3>3 DEF Promised, Kept, Named
      <4>. QED
        BY <3>2, <4>1, OwnNames DEF Named
    <3>5. r <= runs /\ r <= runs'
      <4>1. Promised(n, r)'
        BY <1>3, <3>3
      <4>. QED
        BY <3>3, <4>1 DEF Promised
    <3>6. ASSUME NEW v \in Writers, run'[v] = r PROVE name'[v] = n /\ pc'[v] \in Kept
      <4>1. run[v] = r
        BY <3>5, <3>6, HeldLasts
      <4>2. v = w
        BY <3>4, <4>1
      <4>3. pc'[w] # "off"
        <5>1. Numbered'
          BY NumberedLasts
        <5>. QED
          BY <3>6, <4>2, <5>1 DEF Numbered
      <4>. QED
        BY <3>1, <3>2, <4>2, <4>3, SyncRuns DEF Kept, Named
    <3>. QED
      BY <3>5, <3>6 DEF HeldBy, Kept
  <2>. QED
    BY <2>1, <2>2
<1>5. ASSUME NEW n \in Names, NEW r \in 1..MaxRuns, tmp'[n].run = r PROVE Promised(n, r)'
  <2>1. CASE tmp[n].run = r
    BY <1>3, <2>1 DEF Signed
  <2>2. CASE tmp[n].run # r
    <3>1. PICK w \in Writers : Sync(w)
      BY <1>2, <1>5, <2>2, OthersWriteNothing
    <3>2. n = name[w] /\ run[w] = r /\ pc[w] \in {"manifest", "rewrite"}
      BY <1>2, <1>5, <2>2, <3>1, SyncWrites DEF OwnOnly
    <3>3. r <= runs
      BY <3>2 DEF Numbered
    <3>4. r <= runs'
      BY <3>1, <3>3, SyncRuns, StoreAssumption DEF Types, SyncsOK
    <3>5. ASSUME NEW v \in Writers, run'[v] = r PROVE name'[v] = n /\ pc'[v] \in Kept \cup {"rename"}
      <4>1. run[v] = r
        BY <3>3, <3>5, HeldLasts
      <4>2. v = w
        BY <3>2, <4>1 DEF Numbered
      <4>. QED
        BY <3>1, <3>2, <3>5, <4>2, SyncRuns DEF Kept, Named
    <3>. QED
      BY <3>4, <3>5 DEF Promised, Kept
  <2>. QED
    BY <2>1, <2>2
<1>6. Types'
  BY NextTyped
<1>7. \A n \in Names : /\ man'[n].run # 0 => man'[n].run \in 1..MaxRuns
                       /\ tmp'[n].run # 0 => tmp'[n].run \in 1..MaxRuns
  BY <1>6 DEF Types, FilesOK, ManifestSet
<1>. QED
  BY <1>4, <1>5, <1>7 DEF Signed, HeldBy, Promised, Kept

\* Only a sync that makes its session makes a directory.
LEMMA SyncMakes ==
    ASSUME Types, NEW w \in Writers, Sync(w), NEW n \in dirs', n \notin dirs
    PROVE  n = name[w] /\ pc[w] \in {"session", "create"}
BY DEF Sync, Begin, Cleanup, MakeParent, MakeSession, CreateLog, WriteLog, Verify, WriteManifest,
   WriteTmp, Rename, Erase, UpdateManifest, Fail, Kill, files

\* The key fact: what is dead stays so, since only run r would write a manifest of run r,
\* and it finds no directory to write it to.
LEMMA DeadLasts ==
    ASSUME Types, Archive, Behind, Orderly, Numbered, OwnOnly, [Next]_vars,
           NEW n \in Names, NEW r \in 1..MaxRuns, Dead(n, r)
    PROVE  Dead(n, r)'
<1>1. HeldBy(n, r)' /\ \A v \in Writers : run'[v] = r => run[v] = r
  BY HeldLasts DEF Dead, HeldBy
<1>2. CASE \A w \in Writers : ~Sync(w)
  <2>1. man'[n].run # r /\ tmp'[n].run # r /\ dirs' \subseteq dirs
    BY <1>2, OthersWriteNothing DEF Dead, NoManifest
  <2>. QED
    BY <1>1, <2>1 DEF Dead, HeldBy, Kept
<1>3. ASSUME NEW w \in Writers, Sync(w) PROVE Dead(n, r)'
  <2>1. tmp'[n].run # r
    <3>1. tmp'[n].run = r => n = name[w] /\ n \in dirs /\ run[w] = r
      BY <1>3, SyncWrites DEF Dead, NoManifest, OwnOnly
    <3>. QED
      BY <3>1 DEF Dead
  <2>2. man'[n].run # r
    BY <1>3, SyncWrites DEF Dead
  <2>3. ASSUME NEW v \in Writers, run'[v] = r PROVE n \notin dirs'
    <3>1. run[v] = r /\ n \notin dirs /\ name[v] = n /\ pc[v] \in Kept
      BY <1>1, <2>3 DEF Dead, HeldBy
    <3>2. ASSUME n \in dirs' PROVE FALSE
      <4>1. n = name[w] /\ pc[w] \in {"session", "create"}
        BY <1>3, <3>1, <3>2, SyncMakes
      <4>2. v = w
        BY <3>1, <4>1, OwnNames DEF Kept, Named
      <4>. QED
        BY <3>1, <4>1, <4>2 DEF Kept
    <3>. QED
      BY <3>2
  <2>. QED
    BY <1>1, <2>1, <2>2, <2>3 DEF Dead, HeldBy, Kept
<1>. QED
  BY <1>2, <1>3

\* A step of the deletion itself.
LEMMA DeletionSteps ==
    ASSUME Types, Deleting, [Next]_vars
    PROVE  \/ UNCHANGED <<reply, request>> /\ rm'[Web] = rm[Web] /\ victim'[Web] = victim[Web]
           \/ /\ reply = "none" /\ reply' = "removing" /\ rm'[Web] = "entries"
              /\ \E n \in dirs : victim'[Web] = n /\ request' = [name |-> n, run |-> man[n].run]
           \/ /\ RemoveDir(Web)
              /\ rm'[Web] = "parent" /\ UNCHANGED <<reply, request, victim>>
           \/ /\ rm[Web] = "parent" /\ rm'[Web] = "rmdir" /\ UNCHANGED <<reply, request, victim>>
           \/ /\ rm[Web] \in {"parent", "rmdir"} /\ rm'[Web] = "no"
              /\ reply' = "invalidate" /\ request' = request
           \/ reply' = "none" /\ rm'[Web] = "no"
<1>1. ASSUME NEW w \in Writers, Sync(w)
      PROVE  UNCHANGED <<reply, request>> /\ rm'[Web] = rm[Web] /\ victim'[Web] = victim[Web]
  BY <1>1, SyncLearns, SyncRemovals, WriterRemoves, StoreAssumption DEF handler, deletion
<1>2. ASSUME NEW p \in Removers \ {Web}, Removing(p)
      PROVE  UNCHANGED <<reply, request>> /\ rm'[Web] = rm[Web] /\ victim'[Web] = victim[Web]
  BY <1>2, WriterRemoves DEF Removing, UnlinkEntry, RemoveDir, RemoveFails, LookAtParent,
     RemoveParent, Done, removal, handler, deletion, Types, RemovalOK
<1>3. CASE UnlinkEntry(Web)
  BY <1>3 DEF UnlinkEntry, removal, handler, deletion
<1>4. CASE RemoveDir(Web)
  BY <1>4, WriterRemoves DEF RemoveDir, handler, deletion, Types, RemovalOK
<1>5. CASE RemoveFails(Web)
  BY <1>5, WriterRemoves DEF RemoveFails, Done, Types, RemovalOK
<1>6. CASE LookAtParent(Web) \/ RemoveParent(Web)
  BY <1>6, WriterRemoves DEF LookAtParent, RemoveParent, Done, Types, RemovalOK
<1>7. CASE BeginDelete
  BY <1>7, WriterRemoves DEF BeginDelete, Remove, Types, RemovalOK
<1>8. CASE Invalidate
  BY <1>8 DEF Invalidate, Answered, removal, Deleting
<1>9. CASE Download \/ BeginListing \/ ListOne \/ EndListing \/ Expire
  BY <1>9 DEF Download, Link, StatLog, OpenLog, Leave, BeginListing, ListOne, EndListing, Expire,
     removal, handler, deletion
<1>10. CASE UNCHANGED vars
  BY <1>10 DEF vars, removal, handler, deletion
<1>. QED
  BY <1>1, <1>2, <1>3, <1>4, <1>5, <1>6, <1>7, <1>8, <1>9, <1>10, WriterRemoves
     DEF Next, Removing, Server

LEMMA DeletingLasts ==
    ASSUME Types, Archive, Behind, Orderly, Numbered, OwnOnly, Signed, Deleting, [Next]_vars
    PROVE  Deleting'
<1>1. request.run \in 0..MaxRuns /\ \A n \in Names : man[n].run \in 0..MaxRuns
  BY DEF Types, HandlerOK, FilesOK, ManifestSet
<1>2. \A n \in Names, r \in 0..MaxRuns : r # 0 => r \in 1..MaxRuns
  OBVIOUS
<1>3. \A n \in Names, r \in 1..MaxRuns : HeldBy(n, r) => HeldBy(n, r)'
  BY HeldLasts
<1>4. \A n \in Names, r \in 1..MaxRuns : Dead(n, r) => Dead(n, r)'
  BY DeadLasts
<1>5. reply # "none" => request.name \in Names
  BY WriterRemoves DEF Deleting, DirGone, Types, HandlerOK, RemovalOK
<1>6. reply # "none" /\ request.run # 0 => HeldBy(request.name, request.run)
  BY DEF Deleting
<1>7. ASSUME NEW n \in Names, NEW r \in 0..MaxRuns, request'.name = n, request'.run = r,
             r # 0 => HeldBy(n, r)',
             DirGone' /\ r # 0 => Dead(n, r)',
             reply' = "removing" <=> rm'[Web] # "no",
             rm'[Web] # "no" => victim'[Web] = n
      PROVE  Deleting'
  BY <1>7 DEF Deleting, DirGone, HeldBy, Dead, Kept
<1>8. CASE reply' = "none" /\ rm'[Web] = "no"
  BY <1>8 DEF Deleting, DirGone
<1>9. CASE reply' # "none" /\ request' = request /\ reply # "none"
  <2>0. PICK n \in Names, r \in 0..MaxRuns : n = request.name /\ r = request.run
    BY <1>1, <1>5, <1>9
  <2>1. request'.name = n /\ request'.run = r /\ (r # 0 => HeldBy(n, r)')
    BY <1>2, <1>3, <1>6, <1>9, <2>0
  <2>2. ASSUME DirGone, r # 0 PROVE Dead(n, r)'
    <3>1. Dead(n, r)
      BY <2>0, <2>2 DEF Deleting
    <3>. QED
      BY <1>2, <1>4, <2>2, <3>1
  <2>3. CASE UNCHANGED <<reply, request>> /\ rm'[Web] = rm[Web] /\ victim'[Web] = victim[Web]
    <3>1. DirGone' => DirGone
      BY <2>3 DEF DirGone
    <3>2. reply' = "removing" <=> rm'[Web] # "no"
      BY <2>3 DEF Deleting
    <3>3. rm'[Web] # "no" => victim'[Web] = n
      BY <2>0, <2>3 DEF Deleting
    <3>. QED
      BY <1>7, <1>9, <2>1, <2>2, <3>1, <3>2, <3>3
  <2>4. CASE RemoveDir(Web) /\ rm'[Web] = "parent" /\ UNCHANGED <<reply, request, victim>>
    <3>1. victim[Web] = n /\ reply = "removing"
      BY <2>0, <2>4 DEF RemoveDir, Deleting
    <3>2. n \notin dirs' /\ UNCHANGED <<man, tmp, run>> /\ Empty(n)
      BY <2>4, <3>1 DEF RemoveDir, syncs
    <3>3. r # 0 => Dead(n, r)'
      <4>1. man'[n].run = 0 /\ tmp'[n].run = 0
        BY <3>2 DEF Empty, NoManifest
      <4>. QED
        BY <2>1, <3>2, <4>1 DEF Dead, HeldBy, Kept
    <3>. QED
      BY <1>7, <1>9, <2>1, <2>4, <3>1, <3>3
  <2>5. CASE /\ rm[Web] \in {"parent", "rmdir"}
             /\ \/ rm'[Web] = "rmdir" /\ UNCHANGED <<reply, request, victim>>
                \/ rm'[Web] = "no" /\ reply' = "invalidate" /\ request' = request
    <3>1. DirGone /\ reply = "removing" /\ victim[Web] = n
      BY <2>0, <2>5 DEF DirGone, Deleting
    <3>. QED
      BY <1>7, <1>9, <2>1, <2>2, <2>5, <3>1
  <2>. QED
    BY <1>9, <2>3, <2>4, <2>5, DeletionSteps
<1>10. ASSUME reply' = "removing", rm'[Web] = "entries",
              NEW n \in dirs, victim'[Web] = n, request' = [name |-> n, run |-> man[n].run]
       PROVE  Deleting'
  <2>1. n \in Names
    BY DEF Types, FilesOK
  <2>0. PICK r \in 0..MaxRuns : r = man[n].run
    BY <1>1, <2>1
  <2>2. r # 0 => HeldBy(n, r)'
    BY <1>2, <1>3, <2>0, <2>1 DEF Signed
  <2>3. ~DirGone'
    BY <1>10 DEF DirGone
  <2>. QED
    BY <1>7, <1>10, <2>0, <2>1, <2>2, <2>3
<1>11. CASE reply' # "none" /\ request' = request /\ reply = "none"
  <2>1. rm[Web] = "no"
    BY <1>11 DEF Deleting
  <2>2. /\ reply' = "removing" /\ rm'[Web] = "entries"
        /\ \E n \in dirs : victim'[Web] = n /\ request' = [name |-> n, run |-> man[n].run]
    BY <1>11, <2>1, DeletionSteps DEF RemoveDir
  <2>. QED
    BY <1>10, <2>2
<1>12. CASE reply' = "none" /\ rm'[Web] # "no"
  <2>1. reply = "none" /\ rm'[Web] = rm[Web]
    BY <1>12, DeletionSteps DEF RemoveDir, Deleting
  <2>. QED
    BY <1>12, <2>1 DEF Deleting
<1>13. CASE reply' # "none" /\ request' # request
  BY <1>10, <1>13, DeletionSteps
<1>. QED
  BY <1>8, <1>9, <1>11, <1>12, <1>13

\* What is listed and what is answered: only these steps change it.
LEMMA ListSteps ==
    ASSUME [Next]_vars, Types
    PROVE  /\ \/ gone' = gone
              \/ Invalidate /\ gone' = gone \cup {<<request.name, request.run>>}
           /\ \/ UNCHANGED <<listing, found, cache, fresh>>
              \/ BeginListing \/ ListOne \/ EndListing \/ Expire \/ Invalidate
<1>1. ASSUME NEW w \in Writers, Sync(w) PROVE gone' = gone /\ UNCHANGED lister
  BY <1>1, SyncMoves, SyncLearns
<1>2. ASSUME NEW p \in Removers, Removing(p) PROVE gone' = gone /\ UNCHANGED lister
  BY <1>2 DEF Removing, UnlinkEntry, RemoveDir, RemoveFails, LookAtParent, RemoveParent, history
<1>3. Server /\ ~Invalidate => gone' = gone
  BY DEF Server, Download, Link, StatLog, OpenLog, Leave, BeginListing, ListOne, EndListing,
     Expire, BeginDelete, history
<1>4. Download \/ BeginDelete => UNCHANGED lister
  BY DEF Download, Link, StatLog, OpenLog, Leave, BeginDelete
<1>5. Invalidate => gone' = gone \cup {<<request.name, request.run>>}
  BY DEF Invalidate, Answered
<1>6. UNCHANGED vars => gone' = gone /\ UNCHANGED lister
  BY DEF vars, history
<1>. QED
  BY <1>1, <1>2, <1>3, <1>4, <1>5, <1>6 DEF Next, Server, lister

LEMMA BuriedLasts ==
    ASSUME Types, Archive, Behind, Orderly, Numbered, OwnOnly, Deleting, Buried, [Next]_vars
    PROVE  Buried'
<1>1. ASSUME NEW d \in gone', d[2] # 0
      PROVE  /\ d[1] \in Names /\ Dead(d[1], d[2])'
             /\ Dead(d[1], d[2])
             /\ d \in gone \/ Invalidate
  <2>1. d[2] \in 1..MaxRuns
    BY <1>1, NextTyped DEF Types, HandlerOK
  <2>2. d[1] \in Names /\ Dead(d[1], d[2]) /\ (d \in gone \/ Invalidate)
    <3>1. CASE d \in gone
      BY <1>1, <3>1 DEF Buried
    <3>2. CASE d \notin gone
      <4>1. Invalidate /\ d = <<request.name, request.run>>
        BY <1>1, <3>2, ListSteps
      <4>. QED
        BY <1>1, <4>1 DEF Invalidate, Deleting, DirGone
    <3>. QED
      BY <3>1, <3>2
  <2>. QED
    BY <2>1, <2>2, DeadLasts
<1>2. ~listing => found = {}
  BY DEF Buried
<1>3. \A d \in gone : d[2] # 0 => d \notin found /\ (fresh => d \notin cache)
  BY DEF Buried
<1>4. ~listing' => found' = {}
  <2>1. CASE UNCHANGED <<listing, found, cache, fresh>>
    BY <1>2, <2>1
  <2>2. CASE ListOne
    BY <2>2 DEF ListOne
  <2>3. CASE BeginListing \/ EndListing
    BY <2>3 DEF BeginListing, EndListing
  <2>4. CASE Expire \/ Invalidate
    BY <1>2, <2>4 DEF Expire, Invalidate, Answered
  <2>. QED
    BY <2>1, <2>2, <2>3, <2>4, ListSteps
<1>5. ASSUME NEW d \in gone', d[2] # 0 PROVE d \notin found' /\ (fresh' => d \notin cache')
  <2>1. CASE Invalidate
    BY <1>2, <2>1 DEF Invalidate, Answered
  <2>2. CASE ~Invalidate
    <3>1. d \notin found /\ (fresh => d \notin cache)
      BY <1>1, <1>3, <1>5, <2>2
    <3>2. CASE ListOne
      <4>1. PICK n \in unread : found' = IF man[n] = NoManifest THEN found
                                         ELSE found \cup {<<n, man[n].run>>}
        BY <3>2 DEF ListOne
      <4>2. d # <<n, man[n].run>>
        BY <1>1, <1>5 DEF Dead
      <4>. QED
        BY <3>1, <3>2, <4>1, <4>2 DEF ListOne
    <3>3. CASE UNCHANGED <<listing, found, cache, fresh>> \/ BeginListing \/ EndListing \/ Expire
      BY <3>1, <3>3 DEF BeginListing, EndListing, Expire
    <3>. QED
      BY <2>2, <3>2, <3>3, ListSteps
  <2>. QED
    BY <2>1, <2>2
<1>6. \A d \in gone' : d[2] # 0 => Dead(d[1], d[2])'
  BY <1>1
<1>. QED
  BY <1>1, <1>4, <1>5 DEF Buried, Dead, HeldBy, Kept

LEMMA DeletionsLast ==
    ASSUME Types, Archive, Behind, Deletions, [Next]_vars
    PROVE  Deletions'
BY NumberedLasts, WorldLasts, OwnLasts, SignedLasts, DeletingLasts, BuriedLasts
   DEF Deletions, Orderly

LEMMA InitHolds == Init => Archive /\ Behind /\ Deletions
<1>. SUFFICES ASSUME Init PROVE Archive /\ Behind /\ Deletions
  OBVIOUS
<1>1. Archive
  BY InitArchive
<1>2. Behind
  BY WriterRemoves DEF Init, Behind
<1>3. Numbered /\ OwnOnly
  BY DEF Init, Numbered, OwnOnly, Kept
<1>4. Signed
  BY DEF Init, Signed, NoManifest
<1>5. Deleting /\ Buried
  BY WriterRemoves DEF Init, Deleting, Buried, DirGone
<1>. QED
  BY <1>1, <1>2, <1>3, <1>4, <1>5 DEF Deletions

\* Once a deletion is answered the session is in no list any more, neither in one that
\* is served nor in one that is being made, unless two syncs at once have one name.
THEOREM AnsweredDeletesAreGone == Spec => []AnsweredDeleteIsGone
<1>1. Types /\ Deletions => AnsweredDeleteIsGone
  BY DEF Deletions, Orderly, Buried, Dead, AnsweredDeleteIsGone
<1>. QED
  BY <1>1, InitTyped, InitHolds, NextTyped, ArchiveLasts, BehindLasts, DeletionsLast, PTL DEF Spec
=============================================================================
