-------------------------- MODULE Settings_proofs --------------------------
(***************************************************************************)
(* Theorems about Settings, for any settings, any number of requests at    *)
(* once, of boots and of power losses.                                     *)
(***************************************************************************)
EXTENDS Settings, TLAPS

\* A setting in both places of a file.
LEMMA SetType == \A v \in Values : Set(v) \in FileSet /\ Set(v).ssid = Set(v).pass
BY DEF Set, FileSet

\* The parts of a file can be replaced one by one.
LEMMA FileType ==
    ASSUME NEW f \in StoreSet, NEW v \in Values
    PROVE  /\ f.hostapd \in FileSet /\ f.toml \in FileSet
           /\ [f EXCEPT !.hostapd.ssid = v, !.since = @ \cup {"torn"}] \in StoreSet
           /\ [f EXCEPT !.hostapd.pass = v] \in StoreSet
           /\ [f EXCEPT !.toml.ssid = v] \in StoreSet
           /\ [f EXCEPT !.toml.pass = v] \in StoreSet
           /\ [f EXCEPT !.hash = NoHash] \in StoreSet
           /\ [f EXCEPT !.hash = v, !.since = {}] \in StoreSet
           /\ [f EXCEPT !.hostapd = Set(v), !.since = @ \cup {"posted"}] \in StoreSet
           /\ [f EXCEPT !.toml = Set(v)] \in StoreSet
BY SetType DEF StoreSet, FileSet

\* What a commit writes is a state of the files.
LEMMA CommittedType ==
    ASSUME NEW f \in StoreSet, NEW b \in BOOLEAN
    PROVE  Committed(f, b) \in StoreSet
BY DEF Committed, StoreSet

\* The script only writes what can be used.
Applying == {"ssid", "pass", "tomlSsid", "tomlPass", "clear", "mark"}
Usable == phase \in Applying => boot \in Values

\* The types and what the script may write.
LEMMA TypesHold == Spec => [](TypeOK /\ Usable)
<1>1. Init => TypeOK /\ Usable
  <2>. SUFFICES ASSUME Init PROVE TypeOK /\ Usable
    OBVIOUS
  <2>1. Fresh \in StoreSet
    BY SetType, SettingsAssumption DEF Fresh, StoreSet
  <2>. QED
    BY <2>1, SettingsAssumption DEF Init, TypeOK, BootFiles, Usable, Applying
<1>2. ASSUME TypeOK, Usable, [Next]_vars PROVE TypeOK' /\ Usable'
  <2>. USE <1>2 DEF TypeOK, Usable, Applying
  <2>1. CASE Commit
    <3>1. lazy' \in BOOLEAN /\ disk' = Committed(fs, lazy')
      BY <2>1 DEF Commit
    <3>2. disk' \in StoreSet
      BY <3>1, CommittedType
    <3>. QED
      BY <2>1, <3>1, <3>2 DEF Commit, machine, posts, history
  <2>2. CASE PowerLoss
    BY <2>2, SettingsAssumption DEF PowerLoss, Down
  <2>3. CASE EditBoot
    BY <2>3 DEF EditBoot, files, machine, posts
  <2>4. CASE PowerOn
    BY <2>4 DEF PowerOn, files, posts, history
  <2>5. CASE Skip \/ Applied \/ ApplyFails
    <3>1. fs.hostapd \in FileSet
      BY DEF StoreSet
    <3>. QED
      BY <2>5, <3>1 DEF Skip, Applied, ApplyFails, Serve, files, posts, history
  <2>6. CASE Check
    BY <2>6 DEF Check, Goto, files, posts, history
  <2>7. CASE Edit
    <3>1. boot \in Values /\ fs' \in StoreSet
      BY <2>7, FileType DEF Edit
    <3>. QED
      BY <2>7, <3>1 DEF Edit, Goto, posts, history
  <2>8. CASE ClearHash
    <3>1. fs' \in StoreSet
      BY <2>8, FileType DEF ClearHash
    <3>. QED
      BY <2>8, <3>1 DEF ClearHash, Goto, posts, history
  <2>9. CASE MarkHash
    <3>1. fs' \in StoreSet
      BY <2>9, FileType DEF MarkHash
    <3>. QED
      BY <2>9, <3>1 DEF MarkHash, Goto, posts, history
  <2>10. ASSUME NEW h \in Handlers, Post(h) PROVE TypeOK' /\ Usable'
    <3>1. sole' \in BOOLEAN
      BY <2>10, Zenon DEF Post, Idle
    <3>. QED
      BY <2>10, <3>1 DEF Post, To, files, machine
  <2>11. ASSUME NEW h \in Handlers, Rewrite(h) PROVE TypeOK' /\ Usable'
    <3>1. fs' \in StoreSet
      <4>1. chosen[h] \in Values
        OBVIOUS
      <4>. QED
        BY <2>11, <4>1, FileType DEF Rewrite
    <3>. QED
      BY <2>11, <3>1 DEF Rewrite, To, machine, history
  <2>12. ASSUME NEW h \in Handlers, RewriteFails(h) PROVE TypeOK' /\ Usable'
    BY <2>12, SettingsAssumption DEF RewriteFails, Over, To, files, machine, history
  <2>13. ASSUME NEW h \in Handlers, SyncDir(h) PROVE TypeOK' /\ Usable'
    <3>1. disk' \in StoreSet
      BY <2>13, CommittedType DEF SyncDir
    <3>. QED
      BY <2>13, <3>1 DEF SyncDir, To, machine, history
  <2>14. ASSUME NEW h \in Handlers, Restart(h) \/ RestartFails(h) PROVE TypeOK' /\ Usable'
    <3>1. fs.hostapd \in FileSet
      BY DEF StoreSet
    <3>2. /\ chosen[h] \in Values
          /\ promise' \in {promise, chosen[h], "none"}
          /\ stale' = TRUE \/ stale' = FALSE
      BY <2>14, Zenon DEF Restart, RestartFails
    <3>3. net' \in {fs.hostapd, net, NoNet}
      BY <2>14 DEF Restart, RestartFails
    <3>. QED
      BY <2>14, <3>1, <3>2, <3>3, SettingsAssumption DEF Restart, RestartFails, Over, To, files
  <2>15. CASE WebDies
    <3>1. stale' \in BOOLEAN
      BY <2>15, Zenon DEF WebDies
    <3>. QED
      BY <2>15, <3>1, SettingsAssumption DEF WebDies, files, machine
  <2>16. CASE UNCHANGED vars
    BY <2>16 DEF vars, files, machine, posts, history
  <2>. QED
    BY <1>2, <2>1, <2>2, <2>3, <2>4, <2>5, <2>6, <2>7, <2>8, <2>9, <2>10, <2>11, <2>12, <2>13,
       <2>14, <2>15, <2>16 DEF Next, ConfigApply, Request
<1>. QED
  BY <1>1, <1>2, PTL DEF Spec

\* The types of the variables.
THEOREM TypeCorrect == Spec => []TypeOK
BY TypesHold, PTL

----------------------------------------------------------------------------
(* How far an application of the boot file is *)

\* What the files hold at each step of the script, and why the boot file that it
\* applies cannot be the one whose hash is on the disk.
Stage ==
    /\ phase # "up" => Idle /\ net = NoNet
    /\ phase = "off" => fs = disk /\ lazy = FALSE
    /\ phase \in Applying => fs.hash # boot
    /\ phase \in Applying \ {"ssid"} => "torn" \in fs.since /\ fs.hostapd.ssid = boot
    /\ phase \in Applying \ {"ssid", "pass"} => fs.hostapd = Set(boot)
    /\ phase \in {"tomlPass", "clear", "mark"} => fs.toml.ssid = boot
    /\ phase \in {"clear", "mark"} => fs.toml = Set(boot)
    /\ (phase # "off" /\ boot \in Values /\ disk.hash = boot) => fs.hash = boot
    /\ lazy = TRUE => phase # "off" /\ boot \in Values /\ disk.hash # boot

\* A file is known by its two parts.
LEMMA SameFile ==
    ASSUME NEW v, NEW f \in FileSet, f.ssid = v, f.pass = v
    PROVE  f = Set(v)
BY DEF FileSet, Set

\* A commit shows a hash to a power loss only if it is in the file.
LEMMA CommittedHash ==
    ASSUME NEW f \in StoreSet, NEW b \in BOOLEAN
    PROVE  /\ Committed(f, b).hash \in {f.hash, NoHash}
           /\ b = TRUE => Committed(f, b).hash = NoHash
           /\ b = FALSE => Committed(f, b) = f
           /\ Committed(f, b).hostapd = f.hostapd
           /\ Committed(f, b).toml = f.toml
           /\ Committed(f, b).since = f.since
BY DEF Committed, StoreSet

\* No hash is a setting.
LEMMA NoHashIsNone == NoHash \notin Values
BY SettingsAssumption DEF NoHash

\* The script leaves behind what its steps have done, and nothing else runs.
LEMMA StageKept == ASSUME TypeOK, Usable, Stage, [Next]_vars PROVE Stage'
<1>1. CASE Commit
  <2>1. /\ lazy' \in BOOLEAN /\ (lazy' = TRUE => lazy = TRUE)
        /\ disk' = Committed(fs, lazy')
        /\ UNCHANGED <<boot, fs, phase, net, pc>>
    BY <1>1 DEF Commit, TypeOK, machine, posts
  <2>2. disk' = fs \/ (disk'.hash = NoHash /\ lazy = TRUE)
    BY <2>1, CommittedHash DEF TypeOK
  <2>3. phase # "off"
    <3>. SUFFICES ASSUME phase = "off" PROVE FALSE
      OBVIOUS
    <3>1. fs = disk /\ lazy = FALSE
      BY DEF Stage
    <3>2. lazy' = FALSE /\ disk' = disk
      BY <2>1, <3>1, CommittedHash DEF TypeOK
    <3>. QED
      BY <1>1, <3>1, <3>2 DEF Commit
  <2>4. lazy' = TRUE => disk'.hash = NoHash
    BY <2>1, CommittedHash DEF TypeOK
  <2>5. Idle' = Idle
    BY <2>1 DEF Idle
  <2>. QED
    BY <2>1, <2>2, <2>3, <2>4, <2>5, NoHashIsNone DEF Stage
<1>2. CASE PowerLoss \/ EditBoot \/ PowerOn
  BY <1>2 DEF PowerLoss, Down, EditBoot, PowerOn, Stage, Idle, Applying, files, machine, posts
<1>3. CASE ConfigApply
  <2>. USE <1>3 DEF ConfigApply, Stage
  <2>1. CASE Skip \/ Applied \/ ApplyFails
    BY <2>1 DEF Skip, Applied, ApplyFails, Serve, Applying, files, posts
  <2>2. CASE Check
    BY <2>2 DEF Check, Goto, Applying, files, posts, Idle
  <2>3. CASE Edit
    <3>1. /\ UNCHANGED <<boot, net, pc, disk, lazy>>
          /\ boot \in Values /\ phase \in Applying /\ phase' \in Applying
          /\ fs.hostapd \in FileSet /\ fs.toml \in FileSet
      BY <2>3 DEF Edit, Goto, posts, Applying, Usable, TypeOK, StoreSet
    <3>2. fs'.hash = fs.hash /\ Idle' = Idle
      BY <2>3, <3>1 DEF Edit, TypeOK, StoreSet, Idle
    <3>3. CASE phase = "ssid"
      <4>1. /\ phase' = "pass"
            /\ fs' = [fs EXCEPT !.hostapd.ssid = boot, !.since = @ \cup {"torn"}]
        BY <2>3, <3>3 DEF Edit, Goto
      <4>2. "torn" \in fs'.since /\ fs'.hostapd.ssid = boot
        BY <3>1, <4>1 DEF TypeOK, StoreSet, FileSet
      <4>. QED
        BY <3>1, <3>2, <4>1, <4>2 DEF Applying
    <3>4. CASE phase = "pass"
      <4>1. /\ phase' = "tomlSsid"
            /\ fs' = [fs EXCEPT !.hostapd.pass = boot]
        BY <2>3, <3>4 DEF Edit, Goto
      <4>2. /\ fs'.since = fs.since /\ fs'.hostapd \in FileSet
            /\ fs'.hostapd.ssid = boot /\ fs'.hostapd.pass = boot
        BY <3>1, <3>4, <4>1 DEF TypeOK, StoreSet, FileSet, Applying
      <4>. QED
        BY <3>1, <3>2, <3>4, <4>1, <4>2, SameFile DEF Applying
    <3>5. CASE phase = "tomlSsid"
      <4>1. /\ phase' = "tomlPass"
            /\ fs'.since = fs.since /\ fs'.hostapd = fs.hostapd
            /\ fs'.toml.ssid = boot
        BY <2>3, <3>1, <3>5 DEF Edit, Goto, TypeOK, StoreSet, FileSet
      <4>. QED
        BY <3>1, <3>2, <3>5, <4>1 DEF Applying
    <3>6. CASE phase = "tomlPass"
      <4>1. /\ phase' = "clear"
            /\ fs' = [fs EXCEPT !.toml.pass = boot]
        BY <2>3, <3>6 DEF Edit, Goto
      <4>2. /\ fs'.since = fs.since /\ fs'.hostapd = fs.hostapd
            /\ fs'.toml \in FileSet
            /\ fs'.toml.ssid = boot /\ fs'.toml.pass = boot
        BY <3>1, <3>6, <4>1 DEF TypeOK, StoreSet, FileSet, Applying
      <4>. QED
        BY <3>1, <3>2, <3>6, <4>1, <4>2, SameFile DEF Applying
    <3>. QED
      BY <2>3, <3>3, <3>4, <3>5, <3>6 DEF Edit
  <2>4. CASE ClearHash
    <3>1. /\ UNCHANGED <<boot, net, pc, disk, lazy>>
          /\ phase = "clear" /\ phase' = "mark" /\ boot \in Values
          /\ fs' = [fs EXCEPT !.hash = NoHash]
      BY <2>4 DEF ClearHash, Goto, posts, Usable, Applying
    <3>2. /\ fs'.since = fs.since /\ fs'.hostapd = fs.hostapd /\ fs'.toml = fs.toml
          /\ fs'.hash = NoHash
      BY <3>1 DEF TypeOK, StoreSet
    <3>. QED
      BY <3>1, <3>2, NoHashIsNone DEF Applying, Idle
  <2>5. CASE MarkHash
    <3>1. /\ UNCHANGED <<boot, net, pc, disk>> /\ lazy' = TRUE
          /\ phase = "mark" /\ phase' = "marked" /\ boot \in Values
          /\ fs'.hash = boot
      BY <2>5 DEF MarkHash, Goto, posts, Usable, Applying, TypeOK, StoreSet
    <3>. QED
      BY <3>1 DEF Applying, Idle
  <2>. QED
    BY <2>1, <2>2, <2>3, <2>4, <2>5
<1>4. ASSUME NEW h \in Handlers, Request(h) PROVE Stage'
  <2>1. UNCHANGED <<boot, phase, lazy>> /\ fs'.hash = fs.hash
    <3>1. CASE Rewrite(h)
      BY <3>1 DEF Rewrite, machine, TypeOK, StoreSet
    <3>. QED
      BY <1>4, <3>1, Zenon DEF Request, Post, RewriteFails, SyncDir, Restart, RestartFails,
                               files, machine
  <2>2. phase = "up"
    BY <1>4 DEF Request, Post, Rewrite, RewriteFails, SyncDir, Restart, RestartFails, Stage, Idle
  <2>3. disk' = disk \/ disk' = Committed(fs, lazy)
    BY <1>4 DEF Request, Post, Rewrite, RewriteFails, SyncDir, Restart, RestartFails, files
  <2>4. /\ (boot \in Values /\ disk'.hash = boot) => fs.hash = boot
        /\ lazy = TRUE => boot \in Values /\ disk'.hash # boot
    BY <2>2, <2>3, CommittedHash, NoHashIsNone DEF Stage, TypeOK
  <2>. QED
    BY <2>1, <2>2, <2>4 DEF Stage, Applying
<1>5. CASE WebDies \/ UNCHANGED vars
  BY <1>5 DEF WebDies, vars, Stage, Idle, files, machine, posts
<1>. QED
  BY <1>1, <1>2, <1>3, <1>4, <1>5 DEF Next

LEMMA StageHolds == Spec => []Stage
<1>1. Init => Stage
  BY NoHashIsNone DEF Init, Stage, Idle, Applying, Fresh
<1>. QED
  BY <1>1, StageKept, TypesHold, PTL DEF Spec

----------------------------------------------------------------------------
(* What the files say *)

\* A file without a broken application is of one piece, and a hash with nothing
\* written since stands for what the files say.
Sound(f) ==
    /\ "torn" \notin f.since => f.hostapd.ssid = f.hostapd.pass
    /\ (f.hash # NoHash /\ f.since = {}) => f.hostapd = Set(f.hash) /\ f.toml = Set(f.hash)

\* A request that has written is known to have.
Files == /\ Sound(fs) /\ Sound(disk)
         /\ NeverMixed
         /\ \A h \in Handlers : pc[h] \notin {"idle", "hostapd"} => "posted" \in fs.since

\* To lose the hash does no harm.
LEMMA CommittedSound ==
    ASSUME NEW f \in StoreSet, NEW b \in BOOLEAN, Sound(f)
    PROVE  Sound(Committed(f, b))
<1>1. Committed(f, b).hash \in {f.hash, NoHash}
  BY CommittedHash
<1>. QED
  BY <1>1, CommittedHash DEF Sound

\* The script writes piece by piece and the requests all at once; both say so.
LEMMA FilesKept == ASSUME TypeOK, Usable, Stage, Files, [Next]_vars PROVE Files'
<1>1. CASE Commit
  <2>1. lazy' \in BOOLEAN /\ disk' = Committed(fs, lazy') /\ UNCHANGED <<fs, net, pc>>
    BY <1>1 DEF Commit, TypeOK, machine, posts
  <2>2. Sound(disk')
    BY <2>1, CommittedSound DEF Files, TypeOK
  <2>. QED
    BY <2>1, <2>2 DEF Files, Sound, NeverMixed
<1>2. CASE PowerLoss
  BY <1>2 DEF PowerLoss, Down, Files, Sound, NeverMixed, NoNet
<1>3. CASE EditBoot \/ PowerOn \/ Check
  BY <1>3 DEF EditBoot, PowerOn, Check, Goto, Files, Sound, NeverMixed, files, machine, posts
<1>4. CASE Skip \/ Applied \/ ApplyFails
  BY <1>4 DEF Skip, Applied, ApplyFails, Serve, Files, Sound, NeverMixed, files, posts
<1>5. CASE Edit \/ ClearHash
  <2>1. /\ UNCHANGED <<net, pc, disk>> /\ phase # "up"
        /\ "torn" \in fs'.since
    <3>1. CASE Edit /\ phase = "ssid"
      <4>1. /\ UNCHANGED <<net, pc, disk>>
            /\ fs' = [fs EXCEPT !.hostapd.ssid = boot, !.since = @ \cup {"torn"}]
        BY <3>1 DEF Edit, Goto, posts
      <4>. QED
        BY <3>1, <4>1 DEF TypeOK, StoreSet
    <3>2. CASE ClearHash \/ (Edit /\ phase # "ssid")
      BY <3>2 DEF Edit, ClearHash, Goto, posts, Stage, TypeOK, StoreSet, Applying
    <3>. QED
      BY <1>5, <3>1, <3>2
  <2>2. Idle
    BY <2>1 DEF Stage
  <2>. QED
    BY <2>1, <2>2 DEF Files, Sound, NeverMixed, Idle
<1>6. CASE MarkHash
  <2>1. /\ UNCHANGED <<net, pc, disk>> /\ net = NoNet /\ Idle
        /\ fs.hostapd = Set(boot) /\ fs.toml = Set(boot)
        /\ fs' = [fs EXCEPT !.hash = boot, !.since = {}]
    BY <1>6 DEF MarkHash, Goto, posts, Stage, Applying
  <2>2. /\ fs'.hostapd = Set(boot) /\ fs'.toml = Set(boot) /\ fs'.hash = boot
    BY <2>1 DEF TypeOK, StoreSet
  <2>. QED
    BY <2>1, <2>2 DEF Files, Sound, NeverMixed, Idle, Set, NoNet
<1>7. ASSUME NEW h \in Handlers, Rewrite(h) PROVE Files'
  <2>1. UNCHANGED <<disk, net>> /\ chosen[h] \in Values
    BY <1>7 DEF Rewrite, machine, TypeOK
  <2>2. CASE pc[h] = "hostapd"
    <3>1. /\ fs' = [fs EXCEPT !.hostapd = Set(chosen[h]), !.since = @ \cup {"posted"}]
          /\ \A g \in Handlers \ {h} : pc'[g] = pc[g]
      BY <1>7, <2>2 DEF Rewrite, To, TypeOK
    <3>2. /\ fs'.hostapd = Set(chosen[h]) /\ "posted" \in fs'.since
          /\ "torn" \in fs'.since <=> "torn" \in fs.since
      BY <3>1 DEF TypeOK, StoreSet
    <3>. QED
      BY <2>1, <3>1, <3>2, SetType DEF Files, Sound, NeverMixed
  <2>3. CASE pc[h] = "toml"
    <3>1. /\ fs' = [fs EXCEPT !.toml = Set(chosen[h])]
          /\ \A g \in Handlers \ {h} : pc'[g] = pc[g]
      BY <1>7, <2>3 DEF Rewrite, To, TypeOK
    <3>2. "posted" \in fs.since
      BY <2>3 DEF Files
    <3>3. fs'.hostapd = fs.hostapd /\ fs'.since = fs.since
      BY <3>1 DEF TypeOK, StoreSet
    <3>. QED
      BY <2>1, <3>1, <3>2, <3>3 DEF Files, Sound, NeverMixed
  <2>. QED
    BY <1>7, <2>2, <2>3 DEF Rewrite
<1>8. ASSUME NEW h \in Handlers, Request(h), ~Rewrite(h) PROVE Files'
  <2>1. UNCHANGED fs /\ (net' = net \/ net' = fs.hostapd \/ net' = NoNet)
    BY <1>8 DEF Request, Post, RewriteFails, SyncDir, Restart, RestartFails, files, machine
  <2>2. \A g \in Handlers : pc'[g] \notin {"idle", "hostapd"} => pc[g] \notin {"idle", "hostapd"}
    BY <1>8 DEF Request, Post, RewriteFails, SyncDir, Restart, RestartFails, To, Over, TypeOK
  <2>3. disk' = disk \/ disk' = Committed(fs, lazy)
    BY <1>8 DEF Request, Post, RewriteFails, SyncDir, Restart, RestartFails, files
  <2>4. Sound(disk')
    BY <2>3, CommittedSound DEF Files, TypeOK
  <2>5. NeverMixed'
    BY <2>1 DEF Files, NeverMixed, NoNet, Sound
  <2>. QED
    BY <2>1, <2>2, <2>4, <2>5 DEF Files, Sound
<1>9. CASE WebDies \/ UNCHANGED vars
  BY <1>9 DEF WebDies, vars, Files, Sound, NeverMixed, files, machine, posts
<1>. QED
  BY <1>1, <1>2, <1>3, <1>4, <1>5, <1>6, <1>7, <1>8, <1>9 DEF Next, ConfigApply, Request

LEMMA FilesHold == Spec => []Files
<1>1. Init => Files
  BY DEF Init, Files, Sound, NeverMixed, Fresh, Set, NoNet
<1>. QED
  BY <1>1, FilesKept, StageHolds, TypesHold, PTL DEF Spec

\* hostapd never runs with half of one setting and half of another, unless an
\* application of the boot file was broken off.
THEOREM NetIsOfOnePiece == Spec => []NeverMixed
<1>1. Files => NeverMixed
  BY DEF Files
<1>. QED
  BY <1>1, FilesHold, PTL

\* A recorded hash, seen or on the disk, means that the files were set so.
THEOREM HashesAreTrue == Spec => []RecordedIsApplied
<1>1. Files => RecordedIsApplied
  BY DEF Files, Sound, RecordedIsApplied
<1>. QED
  BY <1>1, FilesHold, PTL

----------------------------------------------------------------------------
(* What hostapd runs with *)

\* A request that has changed hostapd's file and not yet restarted hostapd is one
\* that is past its first step.
NoneWrites == \A h \in Handlers : pc[h] \in {"idle", "hostapd"}
Running == (phase = "up" /\ NoneWrites /\ stale = FALSE) => net = fs.hostapd

LEMMA RunningKept == ASSUME TypeOK, Stage, Running, [Next]_vars PROVE Running'
<1>1. CASE Commit \/ UNCHANGED vars
  BY <1>1 DEF Commit, vars, Running, NoneWrites, files, machine, posts, history
<1>2. CASE PowerLoss \/ EditBoot \/ PowerOn
  BY <1>2 DEF PowerLoss, Down, EditBoot, PowerOn, Running, machine
<1>3. CASE Skip \/ Applied \/ ApplyFails
  BY <1>3 DEF Skip, Applied, ApplyFails, Serve, Running, files
<1>4. CASE Check \/ Edit \/ ClearHash \/ MarkHash
  BY <1>4 DEF Check, Edit, ClearHash, MarkHash, Goto, Running
<1>5. ASSUME NEW h \in Handlers, Request(h) PROVE Running'
  <2>1. CASE Post(h)
    <3>1. /\ UNCHANGED <<phase, net, fs, stale>>
          /\ pc[h] = "idle" /\ \A g \in Handlers \ {h} : pc'[g] = pc[g]
      BY <2>1 DEF Post, To, TypeOK, files, machine
    <3>. QED
      BY <3>1 DEF Running, NoneWrites
  <2>2. CASE Rewrite(h) \/ SyncDir(h)
    <3>1. pc'[h] \notin {"idle", "hostapd"}
      BY <2>2 DEF Rewrite, SyncDir, To, TypeOK
    <3>. QED
      BY <3>1 DEF Running, NoneWrites
  <2>3. CASE RewriteFails(h)
    <3>1. /\ UNCHANGED <<phase, net, fs, stale>>
          /\ \A g \in Handlers \ {h} : pc'[g] = pc[g]
          /\ pc[h] = "hostapd" \/ pc'[h] = "restart"
      BY <2>3 DEF RewriteFails, Over, To, TypeOK, files, machine, history
    <3>. QED
      BY <3>1 DEF Running, NoneWrites
  <2>4. CASE Restart(h) \/ RestartFails(h)
    <3>1. CASE Restart(h)
      BY <3>1 DEF Restart, Running, files
    <3>2. CASE RestartFails(h)
      BY <3>2 DEF RestartFails, Running
    <3>. QED
      BY <2>4, <3>1, <3>2
  <2>. QED
    BY <1>5, <2>1, <2>2, <2>3, <2>4 DEF Request
<1>6. CASE WebDies
  <2>1. UNCHANGED <<phase, net, fs>>
    BY <1>6 DEF WebDies, files, machine
  <2>2. CASE stale = FALSE /\ NoneWrites
    BY <2>1, <2>2 DEF Running
  <2>3. CASE stale = TRUE \/ ~NoneWrites
    <3>1. stale' = TRUE
      BY <1>6, <2>3, Zenon DEF WebDies, NoneWrites
    <3>. QED
      BY <3>1 DEF Running
  <2>. QED
    BY <2>2, <2>3 DEF TypeOK
<1>. QED
  BY <1>1, <1>2, <1>3, <1>4, <1>5, <1>6 DEF Next, ConfigApply

LEMMA RunningHolds == Spec => []Running
<1>1. Init => Running
  BY DEF Init, Running
<1>. QED
  BY <1>1, RunningKept, StageHolds, TypesHold, PTL DEF Spec

\* However many requests overlap, hostapd runs with its file when they are through.
THEOREM RestartsAreEnough == Spec => []RunsAsWritten
<1>1. ASSUME TypeOK, Running PROVE RunsAsWritten
  BY <1>1 DEF Running, RunsAsWritten, NoneWrites, Idle, TypeOK
<1>. QED
  BY <1>1, RunningHolds, TypesHold, PTL

----------------------------------------------------------------------------
(* What has been answered *)

\* A request that is served alone finds what it wrote; an answered setting is one
\* that the next boots leave alone.
Alone == sole = TRUE => \A g, h \in Handlers : pc[g] # "idle" /\ pc[h] # "idle" => g = h
Written == sole = TRUE => \A h \in Handlers :
               /\ pc[h] \notin {"idle", "hostapd"} => fs.hostapd = Set(chosen[h])
               /\ ("sync" \notin world /\ pc[h] \in {"toml", "tomlSync", "restart"}) =>
                      disk.hostapd = Set(chosen[h])
Kept == promise # "none" => Idle /\ phase \in {"off", "check", "up"} /\ Settled
Promised == Alone /\ Written /\ Kept /\ AnswerLasts

\* The environment and the script keep a promise.
LEMMA HostKeepsPromise ==
    ASSUME TypeOK, Stage, Promised,
           Commit \/ PowerLoss \/ EditBoot \/ PowerOn \/ ConfigApply \/ UNCHANGED vars
    PROVE  Promised'
<1>1. CASE Commit
  <2>1. /\ lazy' \in BOOLEAN /\ (lazy' = TRUE => lazy = TRUE)
        /\ disk' = Committed(fs, lazy')
        /\ UNCHANGED <<world, boot, fs, phase, net, pc, chosen, sole, promise>>
    BY <1>1 DEF Commit, TypeOK, machine, posts, history
  <2>2. disk'.hostapd = fs.hostapd
    BY <2>1, CommittedHash DEF TypeOK
  <2>3. (promise # "none" /\ boot \in Values) => disk'.hash = boot
    <3>. SUFFICES ASSUME promise # "none", boot \in Values PROVE disk'.hash = boot
      OBVIOUS
    <3>1. disk.hash = boot
      BY DEF Promised, Kept, Settled
    <3>2. lazy' = FALSE
      BY <2>1, <3>1 DEF Stage
    <3>3. fs.hash = boot
      BY <3>1 DEF Stage
    <3>. QED
      BY <2>1, <3>2, <3>3, CommittedHash DEF TypeOK
  <2>4. Alone' /\ Written' /\ AnswerLasts'
    BY <2>1, <2>2 DEF Promised, Alone, Written, AnswerLasts
  <2>5. Kept'
    BY <2>1, <2>3 DEF Promised, Kept, Settled, Idle
  <2>. QED
    BY <2>4, <2>5 DEF Promised
<1>2. CASE PowerLoss
  BY <1>2 DEF PowerLoss, Down, Promised, Alone, Written, Kept, AnswerLasts, Settled, Idle
<1>3. CASE EditBoot
  BY <1>3 DEF EditBoot, Promised, Alone, Written, Kept, AnswerLasts, files, machine, posts
<1>4. CASE PowerOn
  BY <1>4 DEF PowerOn, Promised, Alone, Written, Kept, AnswerLasts, Settled, Idle,
              files, posts, history
<1>5. CASE Check
  <2>1. promise = "none"
    BY <1>5 DEF Check, Promised, Kept, Settled, Stage
  <2>. QED
    BY <1>5, <2>1 DEF Check, Goto, Promised, Alone, Written, Kept, AnswerLasts, files, posts, history
<1>6. CASE Skip \/ Applied \/ ApplyFails
  <2>1. /\ phase' = "up" /\ net' = fs.hostapd
        /\ UNCHANGED <<world, boot, fs, disk, pc, chosen, sole, promise>>
    BY <1>6 DEF Skip, Applied, ApplyFails, Serve, files, posts, history
  <2>. QED
    BY <2>1 DEF Promised, Alone, Written, Kept, AnswerLasts, Settled, Idle
<1>7. CASE Edit \/ ClearHash \/ MarkHash
  <2>1. /\ UNCHANGED <<world, pc, chosen, sole, promise>>
        /\ phase \in Applying
    BY <1>7 DEF Edit, ClearHash, MarkHash, Goto, posts, history, Applying
  <2>2. promise = "none" /\ Idle
    BY <2>1 DEF Promised, Kept, Stage, Applying
  <2>. QED
    BY <2>1, <2>2 DEF Promised, Alone, Written, Kept, AnswerLasts, Idle
<1>8. CASE UNCHANGED vars
  BY <1>8 DEF vars, Promised, Alone, Written, Kept, AnswerLasts, Settled, Idle,
              files, machine, posts, history
<1>. QED
  BY <1>1, <1>2, <1>3, <1>4, <1>5, <1>6, <1>7, <1>8 DEF ConfigApply

\* So does the web server, which makes one with the last step of a request.
LEMMA WebKeepsPromise ==
    ASSUME TypeOK, Stage, Promised, WebDies \/ \E h \in Handlers : Request(h)
    PROVE  Promised'
<1>1. CASE WebDies
  BY <1>1 DEF WebDies, Promised, Alone, Written, Kept, AnswerLasts, Idle
<1>2. ASSUME NEW h \in Handlers, Request(h) PROVE Promised'
  <2>. USE DEF Promised
  <2>1. CASE Post(h)
    <3>1. /\ pc' = [pc EXCEPT ![h] = "hostapd"] /\ promise' = "none"
          /\ sole' = TRUE => Idle
      BY <2>1, Zenon DEF Post, To
    <3>. QED
      BY <3>1 DEF Alone, Written, Kept, AnswerLasts, Idle, TypeOK
  <2>2. ASSUME ~Post(h) PROVE Promised'
    <3>1. /\ pc[h] # "idle" /\ phase = "up" /\ promise = "none"
          /\ UNCHANGED <<world, boot, phase, sole>>
          /\ \A g \in Handlers \ {h} : pc'[g] = pc[g]
      BY <1>2, <2>2 DEF Request, Rewrite, RewriteFails, SyncDir, Restart, RestartFails, To, Over,
                        files, machine, history, Stage, Kept, Idle, TypeOK
    <3>2. Alone'
      BY <3>1 DEF Alone
    <3>3. sole = TRUE => \A g \in Handlers \ {h} : pc[g] = "idle"
      BY <3>1 DEF Alone
    <3>4. CASE Rewrite(h)
      <4>1. /\ UNCHANGED <<disk, chosen, promise>> /\ chosen[h] \in Values
        BY <3>4 DEF Rewrite, history, TypeOK
      <4>2. CASE pc[h] = "hostapd"
        <5>1. pc'[h] = "sync" /\ fs'.hostapd = Set(chosen[h])
          BY <3>4, <4>2 DEF Rewrite, To, TypeOK, StoreSet
        <5>. QED
          BY <3>1, <3>2, <3>3, <4>1, <5>1 DEF Written, Kept, AnswerLasts
      <4>3. CASE pc[h] = "toml"
        <5>1. pc'[h] = "tomlSync" /\ fs'.hostapd = fs.hostapd
          BY <3>4, <4>3 DEF Rewrite, To, TypeOK, StoreSet
        <5>. QED
          BY <3>1, <3>2, <3>3, <4>1, <4>3, <5>1 DEF Written, Kept, AnswerLasts
      <4>. QED
        BY <3>4, <4>2, <4>3 DEF Rewrite
    <3>5. CASE RewriteFails(h)
      BY <3>1, <3>2, <3>3, <3>5 DEF RewriteFails, Over, To, Written, Kept, AnswerLasts, files,
                                    history, TypeOK
    <3>6. CASE SyncDir(h)
      <4>1. /\ UNCHANGED <<fs, chosen, promise>>
            /\ pc[h] \in {"sync", "tomlSync"}
            /\ pc'[h] = IF pc[h] = "sync" THEN "toml" ELSE "restart"
            /\ disk' = Committed(fs, lazy) \/ ("sync" \in world /\ disk' = disk)
        <5>1. /\ UNCHANGED <<fs, chosen, promise>>
              /\ disk' = Committed(fs, lazy) \/ ("sync" \in world /\ disk' = disk)
          BY <3>6, Zenon DEF SyncDir, history
        <5>2. \/ pc[h] = "sync" /\ pc' = [pc EXCEPT ![h] = "toml"]
              \/ pc[h] = "tomlSync" /\ pc' = [pc EXCEPT ![h] = "restart"]
          BY <3>6, Zenon DEF SyncDir, To
        <5>. QED
          BY <5>1, <5>2 DEF TypeOK
      <4>2. "sync" \notin world => disk'.hostapd = fs.hostapd
        BY <4>1, CommittedHash DEF TypeOK
      <4>. QED
        BY <3>1, <3>2, <3>3, <4>1, <4>2 DEF Written, Kept, AnswerLasts
    <3>7. CASE Restart(h)
      <4>1. /\ UNCHANGED <<fs, disk>> /\ net' = fs.hostapd /\ pc[h] = "restart" /\ pc'[h] = "idle"
            /\ \A g \in Handlers \ {h} : chosen'[g] = chosen[g]
        BY <3>7 DEF Restart, Over, To, files, TypeOK
      <4>2. Written'
        BY <3>1, <3>3, <4>1 DEF Written
      <4>3. CASE Settled /\ sole = TRUE
        <5>1. promise' = chosen[h]
          BY <3>7, <4>3, Zenon DEF Restart
        <5>2. Idle' /\ Settled'
          BY <3>1, <3>3, <4>1, <4>3 DEF Idle, Settled
        <5>. QED
          BY <3>1, <3>2, <4>1, <4>2, <4>3, <5>1, <5>2 DEF Written, Kept, AnswerLasts
      <4>4. CASE ~(Settled /\ sole = TRUE)
        <5>1. promise' = "none"
          BY <3>7, <4>4, Zenon DEF Restart, TypeOK
        <5>. QED
          BY <3>2, <4>2, <5>1 DEF Kept, AnswerLasts
      <4>. QED
        BY <4>3, <4>4
    <3>8. CASE RestartFails(h)
      BY <3>1, <3>2, <3>3, <3>8 DEF RestartFails, Over, To, Written, Kept, AnswerLasts, files, TypeOK
    <3>. QED
      BY <1>2, <2>2, <3>4, <3>5, <3>6, <3>7, <3>8 DEF Request
  <2>. QED
    BY <2>1, <2>2
<1>. QED
  BY <1>1, <1>2

\* A setting that was answered with 200 lasts, over boots and power losses.
THEOREM AnswersLast == Spec => []AnswerLasts
<1>1. Init => Promised
  BY DEF Init, Promised, Alone, Written, Kept, AnswerLasts
<1>2. ASSUME TypeOK, Stage, Promised, [Next]_vars PROVE Promised'
  BY <1>2, HostKeepsPromise, WebKeepsPromise DEF Next
<1>3. Promised => AnswerLasts
  BY DEF Promised
<1>. QED
  BY <1>1, <1>2, <1>3, StageHolds, TypesHold, PTL DEF Spec
=============================================================================
