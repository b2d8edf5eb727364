-------------------------------- MODULE Host --------------------------------
(***************************************************************************)
(* The units under systemd and the one LED they hand to each other: the    *)
(* heartbeat at boot, the steady light when the Pi is ready, and a sync,   *)
(* started by udev when a controller is plugged in, whose process plays    *)
(* patterns.  A unit is an instance for a port; a controller that comes    *)
(* back while its old port is still open gets another one.                 *)
(*                                                                         *)
(* What systemd does with a unit is external and taken from its manual;    *)
(* which units there are, their order and their commands are in system/.   *)
(* The process of a sync is main.go around Run; what Run does is in        *)
(* SyncSession, and the patterns are in Led.  It may hang (see FlashRead).  *)
(***************************************************************************)
EXTENDS Naturals

CONSTANTS Ports,   \* serial ports, ttyACM0 ...
          Limits   \* values of idle_shutdown_minutes; 0 disables

ASSUME HostAssumption == Limits \subseteq Nat

VARIABLES power,    \* is it on?
          plugged,  \* ports with a controller
          wanted,   \* ports with a start job that waits
          unit,     \* logfalcon@: "inactive", the command it is at, or "stopping"
          ready,    \* logfalcon-ready-led: "off", "queued" or "on"
          web,      \* is logfalcon-web up?
          light,    \* "heartbeat", "solid", "pattern", "dark" or the kernel's "mmc"
          limit,    \* cfg.IdleShutdownMinutes
          ticks,    \* ticks of the monitor so far; beyond the limit it has given up
          overlap,  \* history: has a sync started beside another, with none alone since?
          failed    \* history: ports whose controller is still there after a failed sync

usb == <<plugged, wanted>>
idle == <<limit, ticks>>
past == <<overlap, failed>>
vars == <<power, usb, unit, ready, web, light, idle, past>>

\* Booting: the heartbeat plays, the units of multi-user.target wait their turn,
\* and a controller that is plugged in already is found.
Booting == /\ wanted' = plugged'
           /\ unit' = [p \in Ports |-> "inactive"]
           /\ ready' = "queued"
           /\ web' = FALSE
           /\ light' = "heartbeat"
           /\ ticks' = 0
           /\ overlap' = FALSE
           /\ failed' = {}

Init == /\ power = TRUE
        /\ plugged \in SUBSET Ports
        /\ wanted = plugged
        /\ unit = [p \in Ports |-> "inactive"]
        /\ ready = "queued"
        /\ web = FALSE
        /\ light = "heartbeat"
        /\ limit \in Limits
        /\ ticks = 0
        /\ overlap = FALSE
        /\ failed = {}

To(p, s) == unit' = [unit EXCEPT ![p] = s]

\* No other sync is under way.
Alone(p) == \A q \in Ports \ {p} : unit[q] = "inactive"

\* A process of a sync is there and may write to the LED.
Alive(p) == unit[p] \in {"program", "stopping"}

----------------------------------------------------------------------------
(* USB and udev *)

\* 99-betaflight-fc.rules: the device wants its instance of the unit.
Plug(p) == /\ power /\ p \notin plugged
           /\ plugged' = plugged \cup {p}
           /\ wanted' = wanted \cup {p}
           /\ UNCHANGED <<power, unit, ready, web, light, idle, past>>

\* Mutation: ExecStop in the place of ExecStopPost, which a unit that has not
\* started its program does not run.
UnplugAtOnce(p) ==
    /\ p \in plugged
    /\ plugged' = plugged \ {p}
    /\ wanted' = wanted \ {p}
    /\ failed' = failed \ {p}
    /\ unit' = CASE unit[p] = "program"           -> [unit EXCEPT ![p] = "stopping"]
                 [] unit[p] \in {"pre", "settle"} -> [unit EXCEPT ![p] = "inactive"]
                 [] OTHER                         -> unit
    /\ UNCHANGED <<power, ready, web, light, idle, overlap>>

\* BindsTo: the device is gone, the unit is stopped, wherever it is.
Unplug(p) == /\ p \in plugged
             /\ plugged' = plugged \ {p}
             /\ wanted' = wanted \ {p}
             /\ failed' = failed \ {p}
             /\ unit' = CASE unit[p] = "program"           -> [unit EXCEPT ![p] = "stopping"]
                          [] unit[p] \in {"pre", "settle"} -> [unit EXCEPT ![p] = "post"]
                          [] OTHER                         -> unit
             /\ UNCHANGED <<power, ready, web, light, idle, overlap>>

----------------------------------------------------------------------------
(* logfalcon@.service *)

\* The start job runs, once the unit has stopped.  Conflicts=logfalcon@*.service
\* keeps no other instance away, as it is no pattern to systemd.
Start(p) == /\ power /\ p \in wanted /\ unit[p] = "inactive"
            /\ wanted' = wanted \ {p}
            /\ To(p, "pre")
            /\ overlap' = (overlap \/ ~Alone(p))
            /\ UNCHANGED <<power, plugged, ready, web, light, idle, failed>>

\* Mutation: a ready light that still waits for the web server is not stopped.
PreIfOn(p) == /\ unit[p] = "pre"
              /\ ready' = IF ready = "on" THEN "off" ELSE ready
              /\ light' = IF ready = "on" THEN "dark" ELSE light
              /\ To(p, "settle")
              /\ overlap' = (overlap /\ ~Alone(p))
              /\ UNCHANGED <<power, usb, web, idle, failed>>

\* ExecStartPre: systemctl stop logfalcon-ready-led.service, whether it is on or
\* waits to be started; its script puts the light out.
Pre(p) == /\ unit[p] = "pre"
          /\ ready' = "off"
          /\ light' = IF ready = "on" THEN "dark" ELSE light
          /\ To(p, "settle")
          /\ overlap' = (overlap /\ ~Alone(p))
          /\ UNCHANGED <<power, usb, web, idle, failed>>

\* ExecStartPre: sleep 3, then main: the LED controller is started and set to Busy.
Launch(p) == /\ unit[p] = "settle"
             /\ To(p, "program")
             /\ light' = "pattern"
             /\ UNCHANGED <<power, usb, ready, web, idle, past>>

\* The LED goroutine plays on.
Play(p) == /\ Alive(p)
           /\ light # "pattern"
           /\ light' = "pattern"
           /\ UNCHANGED <<power, usb, unit, ready, web, idle, past>>

\* Run returns and so does main, which stops the LED controller: the kernel gets
\* the light back.
Finish(p) == /\ Alive(p)
             /\ light' = "mmc"
             /\ To(p, "post")
             /\ UNCHANGED <<power, usb, ready, web, idle, past>>

\* After an error os.Exit skips the deferred Stop; a signal does so too.
Die(p) == /\ Alive(p)
          /\ To(p, "post")
          /\ failed' = IF p \in plugged \ wanted THEN failed \cup {p} ELSE failed
          /\ UNCHANGED <<power, usb, ready, web, light, idle, overlap>>

\* Mutation: only the commands before the program are timed.
TimeoutBefore(p) == /\ unit[p] \in {"pre", "settle"}
                    /\ To(p, "post")
                    /\ UNCHANGED <<power, usb, ready, web, light, idle, past>>

\* TimeoutStartSec.
Timeout(p) == /\ unit[p] \in {"pre", "settle", "program"}
              /\ To(p, IF unit[p] = "program" THEN "stopping" ELSE "post")
              /\ UNCHANGED <<power, usb, ready, web, light, idle, past>>

\* ExecStopPost: systemctl start logfalcon-ready-led.service; nothing happens if
\* that is on.
Post(p) == /\ unit[p] = "post"
           /\ ready' = IF ready = "off" THEN "queued" ELSE ready
           /\ To(p, "await")
           /\ UNCHANGED <<power, usb, web, light, idle, past>>

\* systemctl returns when its job is done or cancelled, or TimeoutStopSec ends it.
Stopped(p) == /\ unit[p] = "await"
              /\ To(p, "inactive")
              /\ UNCHANGED <<power, usb, ready, web, light, idle, past>>

Sync(p) == \/ Start(p) \/ Pre(p) \/ Launch(p) \/ Play(p) \/ Finish(p) \/ Die(p)
           \/ Timeout(p) \/ Post(p) \/ Stopped(p)

----------------------------------------------------------------------------
(* The other units *)

\* logfalcon-web comes up.  It conflicts with the heartbeat, which is stopped
\* first and gives the light back to the kernel.
StartWeb == /\ power /\ ~web
            /\ web' = TRUE
            /\ light' = "mmc"
            /\ UNCHANGED <<power, usb, unit, ready, idle, past>>

\* The heartbeat plays on, whoever else has written to the light.
Heartbeat == /\ power /\ ~web
             /\ light # "heartbeat"
             /\ light' = "heartbeat"
             /\ UNCHANGED <<power, usb, unit, ready, web, idle, past>>

\* logfalcon-ready-led is ordered after the web server.
StartReady == /\ power /\ web /\ ready = "queued"
              /\ ready' = "on"
              /\ light' = "solid"
              /\ UNCHANGED <<power, usb, unit, web, idle, past>>

PowerOff == /\ power' = FALSE
            /\ wanted' = {}
            /\ unit' = [p \in Ports |-> "inactive"]
            /\ ready' = "off"
            /\ web' = FALSE
            /\ light' = "dark"
            /\ ticks' = 0
            /\ overlap' = FALSE
            /\ failed' = {}
            /\ UNCHANGED <<plugged, limit>>

\* idleShutdownMonitor, once a minute.  The status it asks for is that of its own
\* process, which is always idle: lastActivity stays the start of the server.
MonitorTick == /\ web /\ limit > 0
               /\ ticks + 1 < limit
               /\ ticks' = ticks + 1
               /\ UNCHANGED <<power, usb, unit, ready, web, light, limit, past>>

\* sudo shutdown works, or it does not and the monitor ends.
Shutdown == /\ web /\ limit > 0
            /\ ticks + 1 = limit
            /\ \/ PowerOff
               \/ ticks' = limit
                  /\ UNCHANGED <<power, usb, unit, ready, web, light, limit, past>>

PullPower == power /\ PowerOff

Boot == /\ ~power
        /\ power' = TRUE
        /\ UNCHANGED <<plugged, limit>>
        /\ Booting

Others == StartWeb \/ Heartbeat \/ StartReady \/ MonitorTick \/ Shutdown \/ PullPower \/ Boot

Next == (\E p \in Ports : Plug(p) \/ Unplug(p) \/ Sync(p)) \/ Others

Spec == Init /\ [][Next]_vars

\* systemd runs its jobs and its timers, and a process that is sent a signal dies.
\* A process need not come to its end.
FairSpec == /\ Spec
            /\ \A p \in Ports : /\ WF_vars(Start(p)) /\ WF_vars(Pre(p)) /\ WF_vars(Launch(p))
                                /\ WF_vars(Timeout(p)) /\ WF_vars(unit[p] = "stopping" /\ Die(p))
                                /\ WF_vars(Post(p)) /\ WF_vars(Stopped(p))
            /\ WF_vars(StartWeb) /\ WF_vars(StartReady)

----------------------------------------------------------------------------
(* Properties *)

\* The types of the variables.
TypeOK == /\ power \in BOOLEAN
          /\ plugged \subseteq Ports /\ wanted \subseteq plugged
          /\ unit \in [Ports -> {"inactive", "pre", "settle", "program", "stopping",
                                 "post", "await"}]
          /\ ready \in {"off", "queued", "on"}
          /\ web \in BOOLEAN
          /\ light \in {"heartbeat", "solid", "pattern", "dark", "mmc"}
          /\ limit \in Limits /\ ticks \in 0..limit
          /\ overlap \in BOOLEAN
          /\ failed \subseteq plugged

\* As long as no sync starts beside another, the steady light means that none is
\* under way that a pilot could disturb: logfalcon-ready-led.service:2 "stopped
\* during sync".
ReadyIsIdle == (light = "solid" /\ ~overlap) =>
                   \A p \in Ports : unit[p] \notin {"settle", "program", "stopping"}

Quiet == power /\ \A p \in Ports : unit[p] = "inactive"

\* Whatever way a sync ends, and also if it is stopped while it starts, the steady
\* light comes back when nothing more goes on, as long as no sync started beside
\* another.  Of a controller that is still plugged in after a failed sync this says
\* nothing: logfalcon@.service:51 wants the light back then ("success or failure"),
\* RELEASE_PLAN.md:149 does not ("until acknowledged or disconnected").
ReadyReturns == <>[](Quiet /\ failed = {}) => <>[](light = "solid" \/ overlap)

\* Every sync ends, also one that hangs.
EverySyncEnds == \A p \in Ports : unit[p] # "inactive" ~> unit[p] = "inactive"
=============================================================================
