------------------------------ MODULE Settings ------------------------------
(***************************************************************************)
(* The settings of the hotspot: hostapd.conf, their copy in logfalcon.toml *)
(* and the file on the boot partition.  At boot config-apply.sh takes over *)
(* the boot file, if its hash is not the one it recorded the last time;    *)
(* then hostapd and the web server start, and POST /settings rewrites the  *)
(* two files and restarts hostapd.  Nothing is locked, and power goes when *)
(* it likes.                                                               *)
(*                                                                         *)
(* A setting is a value; a file has one for the name and one for the       *)
(* passphrase, so that a mixture shows.  `disk` is what a power loss       *)
(* leaves.  The journal of the file system keeps its operations in order,  *)
(* but the data of a file that was not fsynced may be missing: of all that *)
(* is written here that is the hash.                                       *)
(***************************************************************************)

CONSTANTS Values,    \* settings that may be chosen
          Factory,   \* ... among them the one in the image
          Handlers,  \* requests that the web server can serve at once
          Worlds     \* of subsets of WorldKinds

\* "two": requests may overlap; "fail": a call may fail, or the web server be
\* killed; "sync": the fsync of a directory may fail, which nobody looks at.
WorldKinds == {"two", "fail", "sync"}

\* The boot file may be missing, or hold nothing that can be used.
BootFiles == Values \cup {"none", "unusable"}

NoHash == "empty"
NoNet == [ssid |-> "down", pass |-> "down"]   \* hostapd is down

ASSUME SettingsAssumption ==
    /\ Factory \in Values
    /\ Values \cap {"none", "unusable", "empty", "down"} = {}
    /\ Worlds \subseteq SUBSET WorldKinds

VARIABLES world,
          boot,     \* the boot file
          fs,       \* hostapd.conf, logfalcon.toml and the recorded hash, as seen
          disk,     \* ... and as they are after a power loss
          lazy,     \* is the data of the hash only in memory?
          phase,    \* "off", the step of config-apply.sh, or "up"
          net,      \* what hostapd runs with
          pc,       \* step of each request, or "idle"
          chosen,   \* ... and what it sets
          stale,    \* history: has hostapd missed a restart?
          sole,     \* history: has one request been served since Idle, and no other?
          promise   \* history: the setting last answered with 200, or "none"

machine == <<phase, net>>
files   == <<fs, disk, lazy>>
posts   == <<pc, chosen>>
history == <<stale, sole, promise>>
vars == <<world, boot, files, machine, posts, history>>

\* A file with the setting v.
Set(v) == [ssid |-> v, pass |-> v]

\* `since` is history: who has written since the hash was recorded.  An application
\* that is broken off is "torn", until another comes to its end.
Fresh == [hostapd |-> Set(Factory), toml |-> Set(Factory), hash |-> NoHash, since |-> {}]

Init == /\ world \in Worlds
        /\ boot = Factory
        /\ fs = Fresh /\ disk = Fresh /\ lazy = FALSE
        /\ phase = "off" /\ net = NoNet
        /\ pc = [h \in Handlers |-> "idle"]
        /\ chosen = [h \in Handlers |-> Factory]
        /\ stale = FALSE /\ sole = FALSE
        /\ promise = "none"

Idle == \A h \in Handlers : pc[h] = "idle"

----------------------------------------------------------------------------
(* The file system and power *)

\* What a commit of the journal puts on the disk.
Committed(f, unwritten) == IF unwritten THEN [f EXCEPT !.hash = NoHash] ELSE f

\* The journal is committed, with or without the data of the hash.
Commit == /\ lazy' \in {lazy, FALSE}
          /\ disk' = Committed(fs, lazy')
          /\ <<disk', lazy'>> # <<disk, lazy>>
          /\ UNCHANGED <<world, boot, fs, machine, posts, history>>

Down == /\ phase' = "off"
        /\ net' = NoNet
        /\ pc' = [h \in Handlers |-> "idle"]
        /\ chosen' = [h \in Handlers |-> Factory]
        /\ stale' = FALSE /\ sole' = FALSE

PowerLoss == /\ phase # "off"
             /\ fs' = disk
             /\ lazy' = FALSE
             /\ Down
             /\ UNCHANGED <<world, boot, disk, promise>>

\* With the power off the card goes into a reader and the boot file is edited.
EditBoot == /\ phase = "off"
            /\ \E b \in BootFiles \ {boot} : boot' = b
            /\ promise' = "none"
            /\ UNCHANGED <<world, files, machine, posts, stale, sole>>

PowerOn == /\ phase = "off"
           /\ phase' = "check"
           /\ UNCHANGED <<world, boot, files, net, posts, history>>

----------------------------------------------------------------------------
(* config-apply.sh *)

Goto(p) == phase' = p /\ UNCHANGED <<world, boot, net, posts, history>>

\* hostapd and the web server are ordered after the script, however it ends.
Serve == /\ phase' = "up"
         /\ net' = fs.hostapd
         /\ UNCHANGED <<world, boot, files, posts, history>>

\* The hash is the recorded one, or there is nothing to apply.
Skip == /\ phase = "check"
        /\ fs.hash = boot \/ boot \notin Values
        /\ Serve

Check == /\ phase = "check"
         /\ fs.hash # boot /\ boot \in Values
         /\ Goto("ssid")
         /\ UNCHANGED files

\* Mutation: only the name is taken over.
EditName == /\ phase = "ssid" /\ Goto("clear")
            /\ fs' = [fs EXCEPT !.hostapd.ssid = boot, !.toml.ssid = boot,
                                   !.since = @ \cup {"torn"}]
            /\ UNCHANGED <<disk, lazy>>

\* Four runs of sed -i, each of which replaces a file.  Both files are taken to be
\* there: of one that is missing the script only warns.
Edit == /\ \/ /\ phase = "ssid" /\ Goto("pass")
              /\ fs' = [fs EXCEPT !.hostapd.ssid = boot, !.since = @ \cup {"torn"}]
           \/ /\ phase = "pass" /\ Goto("tomlSsid")
              /\ fs' = [fs EXCEPT !.hostapd.pass = boot]
           \/ /\ phase = "tomlSsid" /\ Goto("tomlPass")
              /\ fs' = [fs EXCEPT !.toml.ssid = boot]
           \/ /\ phase = "tomlPass" /\ Goto("clear")
              /\ fs' = [fs EXCEPT !.toml.pass = boot]
        /\ UNCHANGED <<disk, lazy>>

\* echo > STATE_FILE: the shell empties the file ...
ClearHash == /\ phase = "clear"
             /\ fs' = [fs EXCEPT !.hash = NoHash]
             /\ Goto("mark")
             /\ UNCHANGED <<disk, lazy>>

\* ... and echo fills it.
MarkHash == /\ phase = "mark"
            /\ fs' = [fs EXCEPT !.hash = boot, !.since = {}]
            /\ lazy' = TRUE
            /\ Goto("marked")
            /\ UNCHANGED disk

Applied == phase = "marked" /\ Serve

\* Mutation: the script goes on after a failure.
ApplyGoesOn == /\ "fail" \in world
               /\ \/ phase = "ssid" /\ Goto("pass")
                  \/ phase = "pass" /\ Goto("tomlSsid")
                  \/ phase = "tomlSsid" /\ Goto("tomlPass")
                  \/ phase = "tomlPass" /\ Goto("clear")
               /\ UNCHANGED files

\* set -e: the first failure ends the script.
ApplyFails == /\ "fail" \in world
              /\ phase \in {"ssid", "pass", "tomlSsid", "tomlPass", "clear", "mark"}
              /\ Serve

ConfigApply == Skip \/ Check \/ Edit \/ ClearHash \/ MarkHash \/ Applied \/ ApplyFails

----------------------------------------------------------------------------
(* POST /settings *)

To(h, step) == pc' = [pc EXCEPT ![h] = step]

\* The request is over and its values forgotten.
Over(h) == To(h, "idle") /\ chosen' = [chosen EXCEPT ![h] = Factory]

\* A request with the token and with a valid name and passphrase.
Post(h) == /\ phase = "up" /\ pc[h] = "idle"
           /\ "two" \in world \/ Idle
           /\ \E v \in Values : chosen' = [chosen EXCEPT ![h] = v]
           /\ To(h, "hostapd")
           /\ sole' = Idle
           /\ promise' = "none"
           /\ UNCHANGED <<world, boot, files, machine, stale>>

\* rewritePrefixedLines and atomicWriteFile up to the rename.
Rewrite(h) ==
    /\ \/ /\ pc[h] = "hostapd" /\ To(h, "sync")
          /\ fs' = [fs EXCEPT !.hostapd = Set(chosen[h]),
                                      !.since = @ \cup {"posted"}]
       \/ /\ pc[h] = "toml" /\ To(h, "tomlSync")
          /\ fs' = [fs EXCEPT !.toml = Set(chosen[h])]
    /\ UNCHANGED <<world, boot, disk, lazy, machine, chosen, history>>

\* It fails: for hostapd's file the answer is 500, for the other nobody asks.
RewriteFails(h) ==
    /\ "fail" \in world
    /\ \/ pc[h] = "hostapd" /\ Over(h)
       \/ pc[h] = "toml" /\ To(h, "restart") /\ UNCHANGED chosen
    /\ UNCHANGED <<world, boot, files, machine, history>>

\* Mutation: the rename is not waited for.
SyncNothing(h) ==
    /\ \/ pc[h] = "sync" /\ To(h, "toml")
       \/ pc[h] = "tomlSync" /\ To(h, "restart")
    /\ UNCHANGED <<world, boot, files, machine, chosen, history>>

\* The fsync of the directory; if it fails nobody asks.
SyncDir(h) ==
    /\ \/ pc[h] = "sync" /\ To(h, "toml")
       \/ pc[h] = "tomlSync" /\ To(h, "restart")
    /\ \/ disk' = Committed(fs, lazy)
       \/ "sync" \in world /\ UNCHANGED disk
    /\ UNCHANGED <<world, boot, fs, lazy, machine, chosen, history>>

\* Will the next boot leave the files alone, come what may?
Settled == boot \notin Values \/ disk.hash = boot

\* Mutation: a restart is left to the request that is still under way.
RestartCoalesced(h) ==
    /\ pc[h] = "restart"
    /\ net' = IF sole THEN fs.hostapd ELSE net
    /\ stale' = FALSE
    /\ Over(h)
    /\ promise' = IF Settled /\ sole THEN chosen[h] ELSE "none"
    /\ UNCHANGED <<world, boot, files, phase, sole>>

\* systemctl restart hostapd, and the answer 200.
Restart(h) == /\ pc[h] = "restart"
              /\ net' = fs.hostapd
              /\ stale' = FALSE
              /\ Over(h)
              /\ promise' = IF Settled /\ sole THEN chosen[h] ELSE "none"
              /\ UNCHANGED <<world, boot, files, phase, sole>>

\* hostapd goes on as it was, or not at all: "Settings saved, but Wi-Fi restart
\* failed. Reboot the Pi."
RestartFails(h) == /\ "fail" \in world
                   /\ pc[h] = "restart"
                   /\ net' \in {net, NoNet}
                   /\ stale' = TRUE
                   /\ Over(h)
                   /\ UNCHANGED <<world, boot, files, phase, sole, promise>>

Request(h) == \/ Post(h) \/ Rewrite(h) \/ RewriteFails(h) \/ SyncDir(h)
              \/ Restart(h) \/ RestartFails(h)

\* The web server is killed, and systemd starts it again.
WebDies == /\ "fail" \in world
           /\ ~Idle
           /\ stale' = (stale \/ \E h \in Handlers : pc[h] \notin {"idle", "hostapd"})
           /\ pc' = [h \in Handlers |-> "idle"]
           /\ chosen' = [h \in Handlers |-> Factory]
           /\ UNCHANGED <<world, boot, files, machine, sole, promise>>

Next == \/ Commit \/ PowerLoss \/ EditBoot \/ PowerOn
        \/ ConfigApply
        \/ \E h \in Handlers : Request(h)
        \/ WebDies

Spec == Init /\ [][Next]_vars

----------------------------------------------------------------------------
(* Properties *)

FileSet == [ssid : Values, pass : Values]
StoreSet == [hostapd : FileSet, toml : FileSet, hash : Values \cup {NoHash},
             since : SUBSET {"posted", "torn"}]

\* The types of the variables.
TypeOK == /\ world \in Worlds
          /\ boot \in BootFiles
          /\ fs \in StoreSet /\ disk \in StoreSet /\ lazy \in BOOLEAN
          /\ phase \in {"off", "check", "ssid", "pass", "tomlSsid", "tomlPass", "clear",
                        "mark", "marked", "up"}
          /\ net \in FileSet \cup {NoNet}
          /\ pc \in [Handlers -> {"idle", "hostapd", "sync", "toml", "tomlSync", "restart"}]
          /\ chosen \in [Handlers -> Values]
          /\ stale \in BOOLEAN /\ sole \in BOOLEAN
          /\ promise \in Values \cup {"none"}

\* hostapd runs with what its file says, however requests overlap, once they
\* are through and unless a restart failed or did not come: every rewrite has
\* a restart behind it.
RunsAsWritten == (phase = "up" /\ Idle /\ ~stale) => net = fs.hostapd

\* hostapd never runs with the name of one setting and the passphrase of another,
\* unless an application of the boot file was broken off and not made good since.
NeverMixed == "torn" \notin fs.since => net.ssid = net.pass

\* Whatever was cut off by power losses: a recorded hash, on the disk too, means
\* that both files were set as that boot file says, and a request came later or
\* they still are.
RecordedIsApplied ==
    \A f \in {fs, disk} : (f.hash # NoHash /\ f.since = {}) =>
        f.hostapd = Set(f.hash) /\ f.toml = Set(f.hash)

\* A setting that was answered with 200 is what hostapd runs with, now and after
\* any number of boots and power losses, until the next request or an edit of the
\* boot file; provided that no other request came in between and that the hash of
\* the boot file had been recorded durably.
AnswerLasts ==
    ("sync" \notin world /\ promise # "none") =>
        /\ fs.hostapd = Set(promise)
        /\ disk.hostapd = Set(promise)
        /\ phase = "up" => net = Set(promise)
=============================================================================
