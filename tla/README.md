# LogFalcon in TLA+

LogFalcon is a Raspberry Pi appliance that copies the blackbox log of a drone's
flight controller (FC) over USB to an SD card and then erases the FC's flash.
This directory models it in TLA+, model-checks the models with TLC and proves
theorems about them with TLAPS. Everything is translated from the source; the
sections below say what, how far, and what it shows.

## 1. The system

| Component | State it keeps | Operations | Talks to |
|---|---|---|---|
| Entry point and configuration (`cmd/logfalcon`, `internal/config`) | flags, `Config` | load, validate, override, start a sync or the web server | everything, once |
| Sync workflow (`internal/sync/orchestrator.go`, `Run`) | `currentStatus`, step, session directory, result | ten steps: open, identify, query, make room, prepare, read, verify, manifest, erase, signal | MSP client, storage, LED |
| Flash reader (`readFlash`) | address, error counter, one request in flight | pipelined `MSP_DATAFLASH_READ`, retry, give up | MSP client, `StreamWriter` |
| MSP client (`internal/msp/client.go`) | decoder, `pending` (one slot per code) | Send, Receive with deadline, typed queries | serial port |
| Framing, CRC, Huffman (`internal/msp`) | decoder state machine, canonical code table | decode byte by byte, decode chunks | client |
| FC detection (`internal/fc`) | none | identify, version policy, device type | client |
| Session storage (`internal/storage`, `internal/util`) | session directories: `raw_flash.bbl`, `manifest.json` | stream and hash, fsync, verify, atomic manifest, list, clean up | file system |
| LED controller (`internal/led`) | state, one-slot `changed` and `idle` channels | `SetState`, pattern loop, stop | goroutine, sysfs |
| Web server (`internal/web`) | session cache, last activity, CSRF token | list, download, delete, settings, idle shutdown | storage, systemd |
| systemd, udev, config-apply (`system/`) | units, hash of the applied configuration, the LED between processes | start a sync on plug-in, stop it on unplug or after ten minutes, hand the LED over, apply settings at boot | all processes |

A sync is a process of its own, started by udev when the FC appears and bound to
the device by systemd; it ends with the run. The web server is another process;
the two share the SD card, and through their units the one LED. The LED goroutine
is the only concurrency inside a sync; the web server runs a goroutine per request
and one for idle shutdown. What makes the system hard is the rest of the world: the serial
line loses, damages and delays; the FC is pulled out; power goes; the next sync
finds what the last one left.

What must be right, per component:

- *flash reader*: the copy is the flash, in order, each byte once, whatever is
  lost, late, repeated or swallowed; retries stay bounded; the reader returns.
- *sync workflow*: nothing is erased that is not durably saved; success means
  erased; the LED, the status and the result agree.
- *storage*: a manifest never vouches for bytes that are not on the disk; making
  room deletes the oldest, no more than needed, and no session in use.
- *framing, Huffman*: any byte stream leaves the decoder able to find the next
  whole frame; decoding inverts encoding and never reads past the input.
- *detection*: a flash is read in the format it is answered in; who can be read is not
  refused; no erase path for a device that is not dataflash.
- *LED*: the last state set is the one shown; a stop ends the goroutine.
- *web*: what is listed exists, what is downloaded is what was listed, what was
  deleted stays deleted; a setting that was answered with 200 is in force and stays.
- *units*: the steady light tells that the FC may be unplugged, and comes back; what it
  should do after a failed sync the documents do not agree on (section 4); every
  sync ends; the boot file is taken over whole or not at all.

`PROJECT.json` lists the hazards at their lines, each with the properties that
would catch it.

## 2. Modules

| Module | Models |
|---|---|
| `FlashCopy` | abstract: what step 6 promises to step 7 |
| `FlashRead` | `readFlash`, `Client.Receive`, the line, the FC's answers; proved to implement `FlashCopy` |
| `SafeTransfer` | abstract: what the appliance promises a pilot |
| `SyncSession` | `Orchestrator.Run` over many plug-ins, with the file system and the FC; checked to implement `SafeTransfer` |
| `SessionStore` | the session directory call by call: two syncs, the web server's list, delete and download |
| `Settings` | the hotspot's settings: `config-apply.sh` at boot, `POST /settings`, the file system under both |
| `Host` | the systemd units, the process around a sync, idle shutdown, and the LED they share |
| `Framing` | the MSP frame decoder with the real checksums, and the encoder |
| `Huffman` | `HuffmanDecode` over the real code table |
| `Detect` | identification, version policy, what steps 2 and 3 make of it |
| `Led` | the LED goroutine, its channels and its client |
| `*_proofs` | theorems about the module of that name, `Msp_proofs` about `Framing` and `Huffman` (section 5) |

The order is by what it costs when it is wrong: first the path a log takes from
the flash to the card and the erase behind it, then what else touches the same
directories, then the processes around it, then the decoder under it. Each `MC`
module gives the constants of its module their values for TLC.

The modules meet at four seams. `FlashRead` is proved to implement `FlashCopy`, and
step 6 of `SyncSession` does what `FlashCopy` allows, with durability added.
`FlashRead` takes a frame from the line as whole or as noise, which is what
`Framing` shows of the decoder. `SyncSession` takes session names to be fresh and
one sync to run at a time; `SessionStore` says what remains true without that. `Host`
has a sync as a process that plays patterns and ends, or does not: `SyncSession`
says what it does meanwhile, and its `Kill` and `PowerLoss` are the ends `Host` gives
it (`Unplug`, `Timeout`, `Shutdown`); the patterns are in `Led`.

### FlashRead and the code

| TLA+ | code |
|---|---|
| `SendFirst` | the request before the loop; a failed write ends the read |
| `LoopHead` | `for address < usedSize` and the check of the sync deadline |
| `Timeout`, `ReadNoise`, `ReadError` | `Client.Receive`: its deadline, bytes that complete no frame, an error of `port.Read` |
| `Malformed`, `AddressMismatch` | an error of `ReceiveFlashReadResponse`, `chunkAddr != address`; both go through `Retry` |
| `EndOfData`, `Accept` | the empty answer; the request for the next piece, then `writer.Write` |
| `Close`, `Panic` | `writer.Close`; the deferred `recover` that returns nil |
| `RequestSize` | `uint16(remaining)`, also on the comparison |
| `Answer`, `Unplug`, `Expire` | the FC, the cable, the clock (external) |

A byte is its flash address, so a faithful copy is `<<0, 1, 2, ...>>` and any
swap, gap or repeat shows. `toFC` and `fromFC` are the two directions of the
line. `Receive` keeps one slot per MSP code, so when one `port.Read` brings
several replies the last is returned and the earlier ones are gone: `Accept(n)`,
`Malformed(n)`... take reply n and drop those before it. A frame with a bad CRC and
the `!` replies the client ignores are "noise". `Timeout(n)` models the deadline
being looked at only *between* reads.

`Worlds` is a set of sets of faults, and `faults` is the one a behaviour lives in,
so that one run asks about several worlds and a property can say which it is
about. The fault "wakeup" lets a Read return although nothing arrived; the code
sets no read timeout, so that without it a Read returns only when something
arrives, and `Terminates` says nothing of a world that loses a reply: `client.go:76`
promises a timeout, but the deadline is looked at only after `port.Read`
(`client.go:89`). Worlds with "wakeup" have all behaviours of those without.

### SyncSession and the code

One action per step of `run`, each with the error paths of that step; `Fail` is
the code's *LED error, status error, ResultError*. Step 6 is at the level of
`FlashCopy`: pieces of a prefix (`WriteChunk`), a failure with the file removed or
left (`ReadFail`), the panic that returns nil (`ReadPanic`), or a hand-over of any
prefix (`CloseFile`). A log is a sequence of numbered units in the order flown. A
session directory holds its log file as a reader sees it (`cache`) and as a power
loss would leave it (`disk`), the hash of its manifest (`sum`, the bytes themselves)
and the manifest's erase fields, again as seen and as durable. `Start`, `Unplug`,
`Fly`, `FinishErase`, `Kill` and `PowerLoss` are the world: systemd may stop the
sync at any step (`BindsTo` the device, `TimeoutStartSec`, `MemoryMax`), and power
loss undoes what was not fsynced, file by file.

The erase command has no reply: it arrives or not. The summaries polled for it
queue up in `mail`, so that a late one may be read as the answer to a later poll.

### SessionStore and the code

A step is about one system call, because nothing locks the directory. `Removing`
is the same code twice, in `CleanupOldestSessions` and in `handleDeleteSession`:
`RemoveAll` entry by entry, then `ReadDir` of the FC directory, then `Remove` of it
if it looked empty. `MakeParent` and `MakeSession` are the two halves of
`MkdirAll`, between which a removal may take the parent; `CreateLog` is
`NewStreamWriter`, which makes the directories once more and truncates. `WriteTmp`
and `Rename` are `atomicJSONWrite`; `UpdateManifest` reads first. `BeginListing` to
`EndListing` run under the mutex of the cache, which `Invalidate` needs too. `Link`,
`StatLog`, `OpenLog` and `Leave` are one client of `GET /download`, who has the link from a
list, and whose download may be cut (`WriteTimeout`, a lost connection) and resumed by
range as often as it likes: `got` is every file it was told of or given. After the
`Open` an unlink does no harm, so that the streaming is one step with it.

A log is the number of the run that wrote it. Space is left out: a cleanup may
stop or go on at every turn, so that it also does what it would do for any amount
of free space. A world says whether syncs may overlap ("two") and whether the
clock may stand still or go back between two sessions ("clock").

### Settings and the code

| TLA+ | code |
|---|---|
| `Skip`, `Check` | the hash guard and the parsing of the boot file; `boot` is a setting, "none" or "unusable" |
| `Edit` | the four `sed -i`, each of which replaces a file |
| `ClearHash`, `MarkHash` | `echo > "$STATE_FILE"`: the shell truncates, then writes, and nothing syncs |
| `ApplyFails`, `Serve` | `set -e`; the units ordered after the script start however it ended |
| `Post`, `Over` | the accepted request; its answer (a refused one changes nothing) |
| `Rewrite`, `SyncDir`, `RewriteFails` | `atomicWriteFile` up to the rename; the sync of the directory, whose error is ignored; failure, which is looked at for hostapd's file only |
| `Restart`, `RestartFails` | `systemctl restart hostapd` and the answers 200 and 500 |
| `WebDies` | `MemoryMax`, `Restart=always` |

A file holds a name and a passphrase, each taken from some setting, so that a
mixture shows. `fs` is what processes see and `disk` what a power loss leaves; `Commit`
brings the journal to the disk at any time. `since`, `sole`, `stale` and `promise` are
history: who wrote since the hash was recorded, whether one request was served
alone, whether a restart is owed, and what was last promised by a 200. `Handlers` are
requests in progress; the server has no limit on them and no lock.

### Host and the code

A unit `logfalcon@p` is "inactive", at one of its commands ("pre", "settle", "program",
"post", "await") or "stopping": `Pre`, `Launch`, `Post` are its `ExecStartPre`, `ExecStart` and
`ExecStopPost` lines. `Finish` is `main` returning, with the deferred `Stop` of the LED, and
`Die` is `os.Exit(1)` or a signal, which skip it. `Unplug` is `BindsTo`: it stops the unit
wherever it is, and the lines of `ExecStopPost` run for a unit that was only starting
too. `light` is what was last written to the one LED, by `ready-led.sh`, `boot-led.sh`, the
LED goroutine or the kernel's trigger; nothing arbitrates. `overlap` and `failed` are
history: whether a sync started beside another, and the ports whose controller is still
plugged in after a sync that failed there. `MonitorTick` and `Shutdown`
are the loop of `idleShutdownMonitor`: the status it asks for is that of its own process,
where no sync ever runs, so that its timer is never set back.

### Framing, Huffman, Detect, Led and the code

`Framing` has one action per state of `process`, on real bytes; `xor`, the CRC table
and both checksums are computed as in the code. `seen` is history: the bytes since
the decoder last left idle. The stream is any bytes from a few samples, always
including the right checksum, so that whole frames and broken ones both happen.

`Huffman` reads one bit per step. In `rawTree` the codes of each length are
consecutive, so two numbers per length give the table; which byte a code stands
for is left out, and a decoded byte is its code.

`Detect` has one action per query, each of which may fail. A controller is an
identifier, an API version, a blackbox device and whether it has a flash chip.
`Format` and `ParsedAs` are what its answers look like and what the client takes
them for. A sync that ends here does so for what it has learnt (`Refuse`) or for want of
an answer (`NoAnswer`, also a flash that is busy, empty or too large); `excused` is
history and tells the two apart.

`Led` has the steps of `run`, `interruptibleSleep`, `stateChanged` and
`waitForChangeOrStop` as separate actions, because the client may act between
taking a token and putting it back. A channel with room for one is a Boolean.
Durations are left out: a sleep ends when it likes.

## 3. Assumptions

- The serial line is FIFO in each direction and the CRC catches damage.
- The FC answers requests in order and with no more bytes than asked for.
- SHA-256 is injective.
- `fsync` of a new file also makes its name and its new parent directories durable
  (ext4, which the image uses). The rename of the manifest may still be lost. What
  a cleanup has deleted stays deleted.
- `SyncSession` only: session names are fresh and grow, and one sync runs at a
  time. The code ensures neither: names have a resolution of one second of a clock
  without a battery, and `Conflicts=logfalcon@*.service` is no pattern to systemd.
  `SessionStore` drops both.
- While it is connected the FC's flash changes by an erase only, and what an
  accepted erase deletes is gone at once (`busy` until the FC says ready).
- The verifying read of step 7 may be served by the page cache: a medium that
  silently stores other bytes than it was given, after reading back right, is not
  modelled. A file system that stores wrong bytes and reads them back is (`Bad`).
- `Settings`: the journal (ext4, ordered) keeps file system operations in their order, so
  that a power loss leaves a prefix of them, but the data of a file that was not synced
  may be missing from a prefix that has its name. `sed -i` does not sync either; the
  data of the file it makes is on the disk before its rename is, which is what ext4
  does for a rename over a file (`auto_da_alloc`). The web server may write to
  `/etc/hostapd`; where that is owned by root alone, as the install scripts leave it
  (`scripts/install.sh:516`), `CreateTemp` fails and every `POST /settings` answers 500,
  which is `RewriteFails`.
- `Host` takes from systemd's manual: `BindsTo` stops a unit whose device is gone in any
  state; `ExecStopPost` runs however the unit ended, also if it was only starting; a
  stop cancels a start job that waits; a job that is no news does nothing;
  `TimeoutStartSec` covers the commands before the program and, for a oneshot unit, the
  program. The web unit's restarts and crashes are left out there.
- `Settings`: `hostapd.conf` and `logfalcon.toml` are there and have the lines that
  `config-apply.sh` edits, as the image and the install scripts leave them. Of a file that
  is missing the script only warns (`config-apply.sh:119-121`, `128-130`), goes on and
  records the hash (`:134`), so that the boot file counts as applied although one file
  was not edited: those branches are left out of `Edit`, and `RecordedIsApplied` is not
  claimed for them.
- The reply to `MSP_BLACKBOX_CONFIG` begins with the support byte and then the device
  (`LOGFALCON_REVIEW_2026-07-27.md:161`); the formats of `MSP_DATAFLASH_READ` are those
  of `versions.go:16-22`.

## 4. What is checked

| Run | Question | Bounds |
|---|---|---|
| `read` | In worlds from no fault to every fault at once: is what is written the flash, in order; do retries multiply; do echoes cost more errors than there were late answers; is a copy that is handed over complete; does `readFlash` return, with all of the flash where little goes wrong; is it an implementation of `FlashCopy`? | 7 bytes by 2 in a word of 8 (a short last chunk), 3 errors, 3 late answers, five worlds |
| `sync_safety` | Over two flights and three sessions in every mode, on a card that holds three units: is any log lost, does an erase come before a durable verified copy, do the oldest go first and no more than needed, do manifests, results, LED and status say what is true, is it an implementation of `SafeTransfer`? | 2 units, 3 sessions, 2 unread summaries, panics on, cleanup on |
| `store` | With one sync or two beside the web server: does a manifest match its log, does a sync erase with its log whole on the card (of a lone sync: unless the pilot deleted it; of two: or a removal took it), does a deleted session come back, does a listed one disappear, is a download of one whole log? | 2 runs by 2 processes, 2 seconds, 1 FC directory |
| `msp` | The two decoders of the client: is a frame reported exactly when its bytes are an encoded one, and how long can damage hold the decoder; does Huffman decoding invert encoding, is any input refused? | 8 sample bytes, 4 field bytes, 3 payload bytes; sizes 0, 1, 2, 36..88, 255, 256, 257; every compressed input of up to 2 bytes, up to 3 characters |
| `detect` | Is a flash only read in the format it is answered in, is a controller refused only for a reason, is untested firmware warned about? | API versions around both limits of both variants, four identifiers, four devices, with and without a chip |
| `led` | Is a change ever missed, does the last state show, does stop return and leave the LED alone? | none: the module is finite |
| `settings` | Across boots, overlapping requests, failing calls and power losses: does hostapd run with what its file says, ever with a mixture; is a recorded hash true; does an answered setting last? | 2 settings, 2 requests at once |
| `host` | With plugs, unplugs, hanging and dying syncs, boots and idle shutdown: is the steady light ever on over a sync, does it come back once syncs have ended and no controller is left plugged in after a failed one, does every sync end? | 2 ports, idle shutdown off or after 2 ticks |

Four runs end in a violation, which is their result:

- `read_truncated`: beyond 64 KiB a healthy copy is handed over incomplete
  (`uint16(remaining)`); step 7 then refuses it, so nothing is lost, but such a
  flash can never be copied. `sync_safety` shows that the refusal holds.
- `sync_panic`: a panic recovered in `Run` is returned as `ResultSuccess` under an
  error LED.
- `detect_sdcard`: a Betaflight controller that logs to an SD card passes
  detection, for the byte taken for the device says whether there is support.
- `store_two`: of two syncs at once, which `logfalcon@.service:11` means to exclude, the
  second makes room while the first is between the verification and the erase, and
  deletes the session the first has just verified; the first erases its FC all the
  same. That log is then nowhere, against `RELEASE_PLAN.md:20`. It is the run `store`
  with two syncs, where `ErasesBehindItsLog` lets a removal take the log.

*Why the bounds are enough.* A reader's state is an address, a counter and the
queue of echoes. Two chunks and a short one give every position relative to the
end; two late answers give a queue in which an echo is overtaken and swallowed;
the limit of 3 leaves a retry that succeeds between a first and a last error. The run
stays below the word, where `HealthyCopyIsFull` holds; `read_truncated` is beyond it. For
safety the theorems of section 5 remove the bounds altogether. In `SyncSession`
two units tell a prefix from the whole and an old log from a new one; two
sessions are the least in which a later run can go wrong over what an earlier one
left, and cleanup needs a third; with room for three units and one kept free it
runs in some behaviours and not in others. `FlashCap` is not below the units, so
that the refusal of a flash larger than `maxFlashUsedSize` is not exercised. In
`SessionStore` every race is between two processes over one directory, and the
third, the web server, is always there, with one client who downloads beside a single sync (`OneToDownload`: the second
run is left out there, as it could only delete what is downloaded, which the web
server does too); the order of cleanup over several FCs is in `SyncSession`. In `Settings` two settings, the one in
the image and another, tell a mixture from a whole and an old one from a new one, and
`EditBoot` goes back and forth between them; a third request at once does nothing that the
second does not. In `Host` a second port is what a controller gets that is
re-plugged before its old port is closed. `MCMsp` puts `Framing` and `Huffman` beside each
other, of which a behaviour runs one: `HuffmanDecode` is called with the data of a whole
reply, between two bytes from the line, and keeps nothing. In `Framing` the sizes are those at which a branch of the decoder
changes, and longer payloads repeat one byte.

*Fairness.* `FairSpec` of `FlashRead`: the Go runtime runs `readFlash` whenever it can
move, and a connected FC serves its queue. No fault is fair: lost replies,
unplugging and deadlines happen or not. `Terminates` and `HealthyCopyCompletes` name
the worlds they hold in. `FairLed`: a goroutine that can move does, `Stop` returns when
it can, and strong fairness of `SeeStop`, because a `select` with several ready cases
picks one at random; the client need not do anything. `FairSpec` of `Host`: weak
fairness of what systemd does by itself (a job it has queued, a timer that has run
out, the next command of a unit, a process that it has killed) and of nothing a
process or a person does, so that a sync may hang, and `EverySyncEnds` rests on
`TimeoutStartSec`. `ReadyReturns` supposes that in the end no sync is under way and no
controller is left plugged in after a failed one.
`SyncSession`, `SessionStore` and `Settings` state no liveness: whether a run ends
depends on `Receive` returning and on systemd, which is `Host`, and in the other two
nothing waits for anything but the mutex of the cache. `store` and `store_two` do not check for deadlock: after the last
run allowed by the bound nothing need be left to do.

*What came out beside the properties.* Where a property has a condition, it is
because the code does otherwise beyond it:

- The hash guard of `config-apply.sh` looks at what was applied last, not at what was
  begun. A change of the boot file that fails half-way and is then taken back is
  skipped, and the half of it stays, although the script is called idempotent
  (`logfalcon-config-apply.service:3`). `NeverMixed` excepts it ("torn").
- The hash is not synced. After a power loss the script may apply the boot file again,
  over a setting that was answered with 200. `AnswerLasts` is about settings answered
  after the hash had reached the disk (`Settled`).
- Of two overlapping requests each may be answered with its own name, while one of
  them is replaced, and `logfalcon.toml` may end up with the other one than
  `hostapd.conf`. A failure to write `logfalcon.toml` is not looked at
  (`server.go:452`), nor that of syncing the directory (`server.go:867`). Nothing reads the
  settings in `logfalcon.toml`.
- `sed` replaces lines that are there and adds none; `rewritePrefixedLines` adds what is
  missing. The shipped files have the lines, and the model takes them to (section 3).
- A controller that is re-plugged gets a new port while the old unit still ends. The
  ready light can then be started under the second sync or stay dark after it
  (`ReadyIsIdle` and `ReadyReturns` exclude `overlap`), for `Conflicts=logfalcon@*.service` is
  not a pattern.
- After a failed sync the steady ready light comes back although its controller is still
  plugged in: `ExecStopPost` (`logfalcon@.service:52`) runs however the sync ended. The
  repository disagrees with itself on whether that is right. `logfalcon@.service:51` says
  "after sync completes (success or failure)", and `PROJECT_STATUS.md:264` has the light
  return after a sync that completes. `RELEASE_PLAN.md:148-149` wants the error kept
  visible and the ready light not restored "after a failed transfer until acknowledged or
  disconnected"; `LOGFALCON_REVIEW_2026-07-27.md:143-145` (LF-007) lists it as a defect, and
  `docs/guide.html:92` as a current limitation. `ReadyReturns` takes no side: it says
  nothing of a controller that is left plugged in after a failed sync (`failed`).
- Idle shutdown never sees a sync (`server.go:737` asks the web server's own process).
  `NoNewPrivileges` in the web unit makes the `sudo` of `server.go:752` fail, in which
  case the monitor ends; both are in `Shutdown`.
- The product of `orchestrator.go:561` would overflow above 42 MB, which the 16-bit
  request size keeps out of reach.

## 5. What is proved

Every theorem is for all values of the constants that the module's named
assumption admits.

`FlashRead_proofs`, for every size of flash, chunk and word, every error limit and
every set of faults:

- `TypeCorrect`: requests and replies stay inside the flash, the error counter
  within its limit.
- `CopyIsTruncated`: `[]TruncationCap`. The strengthening `Bounded` says that the
  *reader* is bounded: the address never passes `UsedSize % Word`, because a request is
  no longer than `(UsedSize - a) % Word`, and a running reader has fewer than
  `MaxErrors` errors.
- `CopyIsFaithful`: `[]CopyMatchesFlash`, inductive given the types.
- `TrafficIsBounded` and `RepliesStayBehind`: `[]InFlightBounded` and
  `[]NoReplyFromTheFuture`. Together they are the pipeline's invariant: every
  retry consumes a message or a timeout before it sends one, and a request beyond
  the reader's address is only sent together with the step that moves the address.
- `HealthyCopiesAreFull`: `UsedSize < Word` implies `[]HealthyCopyIsFull`. The
  invariant `Complete` follows the empty answer back to its request: every request
  asks for `RequestSize` of its address, an empty answer answers a request for
  nothing, and below the word no request of a running reader is one.
- `ReadImplementsCopy`: every step of `FlashRead` is a step of `FlashCopy` or a
  stutter.
- `SlownessIsAlwaysForgiven`: `[]SlownessIsForgiven`. The measure (`Forgiven`) is the
  number k of messages under way after which all are of the reader's address: errors
  plus k never exceed the late answers. A mismatch takes at least one of the k and
  adds one error; accepted data clears the errors, and `InFlightBounded` bounds the k it
  starts over with.

`SyncSession_proofs`, for any number of flights, syncs, sessions and summaries, in
every mode, with or without cleanup and panics. The inductive invariant is built
in layers, each using those before it:

- `Typed` and `FlashKnown`: what was hashed is a prefix of what is on the flash while
  the run is reading (`TypeCorrect`).
- `CopyKept`: from `manifest` on, the file of this run's session is on disk, as
  hashed, and all of the used size; from `decide` on, its manifest says so. Whence
  `ErasesAreSafe`: `Spec => EraseOnlyArchived`.
- `Tidy` with `ManifestMeansComplete`: directories not yet made are blank, a durable
  manifest is a visible one (`ManifestsAreTrue`).
- `EveryUnitKept`: every recorded unit is on the FC, given up, or in a file whose
  cached and durable contents agree, which is what no power loss and no later run
  can change (`NothingIsLost`). `NothingLost` itself is not inductive: a unit in a
  file that is only cached counts for nothing.
- `SummariesTrue`: a summary "empty and ready" was true when sent, and since then the
  flash can only have been flown full again after an unplug (`ErasedIsGone`,
  `SuccessIsTrue`).
- `LogsKnown`: where the cached and the durable contents of a file differ in a unit, that
  unit is still on the FC, or a *later* session, which cleanup takes later, holds it for
  good. So a power loss decides on nothing that `SafeTransfer` could see, and every
  step is a `Record`, `Copy`, `Reclaim` or `Erase` of it, or a stutter
  (`SyncImplementsTransfer`), and none loses a unit (`NoStepLoses`: `NeverLost` of
  `SafeTransfer`).

- `Shown`: a run under way has no result yet and the LED does not say done. The three
  regular ends of a run then rest on the layers above: nothing found on what `Query` saw,
  a run not asked to erase on `FlashKnown` and `CopyKept`, one that erased on `CopyKept`
  and `SummariesTrue`. So the LED says done only where the copy stands and the FC is left
  as the run was to leave it (`OutcomeAlwaysShown`). That a panic shows an error while
  the result is success is outside it: `SuccessIsShown` says it, and is violated.

`OldestGoFirst` (an action property) needs the types only.

`Led_proofs`: `LedTypeCorrect`; `NoChangeIsMissed`, which is inductive as it stands
because it counts the token that `PutBack` is about to return; `StopIsQuiet`, inductive
because a goroutine that is gone takes no step and `Stop` waits until it is.

`Detect_proofs`, for all API versions: `TypeCorrect`, `FormatAlwaysMatches` and
`WarnedOfTheUntested`, from what is known after each query, and `NoneIsRefusedForNothing`
(`[]GoodOnesAreRead`), from what each refusal has learnt (`HasReason`): a version that is
too old is one whose answers cannot be parsed (`OldFormat`).

`Msp_proofs`, for payloads and inputs of any length, and every stream of bytes. The
loops of the source (both checksums, and in the specification `Encoded`) are recursive
functions over a sequence. Each is taken as the last value of a *run*, which exists
(`RunExists`) and is the only one (`RunUnique`); what a loop yields for one more element,
or for two parts one after the other (`DVBS2Concat`: the decoder computes the checksum of a
version 2 frame in two pieces), is proved along its run. The induction this needs is
`Induction`, over a set instead of a predicate, from the least element of what is not in
it. `xor` is defined by halving, and its laws go from m to 2m + 1 up to 255 (`Doubling`):
`XorZero`, `XorCommutes`, and `XorTwice`, whence no two bytes have the same exclusive or
with a third.

- `FramesAreWhatIsEncoded`: `[]DecodesWhatIsEncoded`. The property speaks of the bytes seen
  and of what is reported; `FramingInv` says of every state what the decoder has stored: the
  bytes seen are the preamble, the fields read so far in their order and the payload so
  far, the running checksum is that of the bytes after the direction, and between two
  attempts nothing is stored. There is one lemma per state of `process`; `V1Frame` and
  `V2Frame` say that bytes so laid out are a frame exactly when the last is the checksum, and
  `UnderWay` that no attempt goes on whose bytes are a frame already: they are fewer than
  they announce (`LengthV1`, `LengthV2`).
- `FramingTypeCorrect` and `AttemptsAreBounded` follow from the same invariant.
- `NoDamagedFrame`: a frame that an encoder made, of any length, with any one byte
  after the direction changed, is never reported. `ShiftInjective` makes the CRC table a
  permutation, so two runs of a checksum that part at the damaged byte never meet again
  (`ChecksumsDiffer`); a damaged length asks for another number of bytes than came. What
  is damaged twice may pass: a checksum has 8 bits.
- `DecodingInvertsEncoding`: `[]InvertsEncoding`. A bit read is one more of the code under
  way (`BitsOfNext`), and a code that is found moves from there to the output as it is.
- `EncodedIsDecoded`, the converse: if the bits read are the code of some bytes, those bytes
  are what was decoded, so no input can be read in two ways. `ReadsOneWay` says it of every
  point of the input, a code begun included: a bit read is the last of exactly one code
  or beginning of a code (`ComesFrom`), because what is open at a length is half of the
  codes up to the last of the next.
- `NoCodeIsInvalid` and `HuffmanTypeCorrect`: an unfinished code of each length stays below
  the first code of that length, which is what makes the table complete.

`SessionStore_proofs`, for any number of processes, FC directories, runs and seconds,
in every world. `TypeCorrect` has that files are in directories and those in FC
directories, over removals and creations that race. Then three arguments:

- `Archive`: with a clock that moves on, no two syncs ever have one name (`Distinct`),
  so that from the verification on nobody writes to a log but to remove it
  (`ArchivedLasts`). Whatever tells of a session, a manifest, a sync that has read one, a
  list or a link, tells of an archived one (`KnownIsArchived`), for it learned it from
  another that did (`NothingElseIsKnown`). Whence `ManifestsHaveLogs` and
  `DownloadsAreWhole`. `ManifestHasItsLog` alone is not inductive: a sync that has read a
  manifest may write it back.
- `Behind`: with one sync at a time its log is there from the verification on, or the
  pilot has removed it; no name need be fresh for that. With two, and a clock that
  moves on, `Archive` has that it is there or a removal took it. Both are `ErasesBehind`.
- `Deletions`: runs have numbers of their own and only the run itself writes a
  manifest with its number, in a directory it made (`Signed`). So a session is dead, with
  no manifest of that run and none to come, once the removal of its directory is
  through (`DeadLasts`), and a list in the making is waited for by the mutex
  (`AnsweredDeletesAreGone`). Neither holds if two syncs at once share a name.

`ListedTillDeleted` is an action property that needs the types only.

`Settings_proofs`, for any set of settings and any number of requests at once:
`TypeCorrect`; `Stage`, what the files hold at each step of the script and why the boot
file it applies is not the one whose hash is on the disk; `Sound`, that a hash with
nobody having written since means what it says, of `fs` and of `disk`, which every
commit and power loss keeps (`HashesAreTrue`, `NetIsOfOnePiece`); `Running`, that every
rewrite has a restart ahead (`RestartsAreEnough`); `Promised`, which follows a request that
is served alone until its answer, and the answer through every boot (`AnswersLast`).

`Host_proofs`, for any number of ports: `TypeCorrect`, and `SteadyIsIdle` from `Handover`: a sync
past its first command keeps the ready unit off, unless another ran beside it.

*Only model-checked*: liveness (`Terminates`, `HealthyCopyCompletes`, `LastStateIsShown`,
`StopCompletes`, `ReadyReturns`, `EverySyncEnds`), which is out of the prover's reach.
`NoDamagedFrame` and `EncodedIsDecoded` are the other way round: proved, and not checked, because
TLC cannot enumerate the frames and the bytes they are about.

## 6. Not modelled, and why

- Templates, logging and wording: layout. The pages, `GET /status`, `/events`, `/health` and
  the captive-portal answers: they read and change nothing. Progress figures
  (`SetStatusSync`): numbers nothing depends on.
- Checks of a request (token, path, length of a name) and the arithmetic of a byte
  range: pure functions of the request with unit tests. (`bytes=-N` is taken as
  `bytes=0-N`, `server.go:588`; what it returns is of the same log.)
- `config.Load`: a pure function of three files and the environment, with tests of its
  own (`config_test.go`). What it may hand over is covered: `SyncSession` runs in every
  mode, with and without cleanup, and its theorems are for all.
- The one-time Wi-Fi set-up (`logfalcon-wifi-init.service`), image build and install
  scripts: run once, before there is a system.
- Which byte a Huffman code stands for, UID and version text: no property is about
  them.
- The web server's own LED controller (`main.go:54` starts one in this mode too): its unit
  may not write to `/sys` (`ProtectKernelTunables`), so that it shows nothing.
- `WaitUntilIdle` is an action of `Led`, but only tests call it.

## 7. What is left

1. Composition: `SyncSession` over two controllers, with the cleanup of one beside
   the erase of the other, where `SessionStore` has the files only.
2. `Host` with the web unit crashing and restarting, and `Requires` stopping the ready
   light with it.
