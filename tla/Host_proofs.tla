---------------------------- MODULE Host_proofs ----------------------------
(***************************************************************************)
(* Theorems about Host, for any number of ports and any idle limit.        *)
(***************************************************************************)
EXTENDS Host, TLAPS

Where == {"inactive", "pre", "settle", "program", "stopping", "post", "await"}

\* The types of the variables always hold, and only a device that is there is waited
\* for.
THEOREM TypeCorrect == Spec => []TypeOK
<1>1. Init => TypeOK
  <2>. SUFFICES ASSUME Init PROVE TypeOK
    OBVIOUS
  <2>1. power \in BOOLEAN /\ web \in BOOLEAN /\ overlap \in BOOLEAN
    BY Zenon DEF Init
  <2>2. 0 \in 0..limit
    BY HostAssumption DEF Init
  <2>. QED
    BY <2>1, <2>2 DEF Init, TypeOK
<1>2. ASSUME TypeOK, [Next]_vars PROVE TypeOK'
  <2>. USE <1>2, HostAssumption DEF TypeOK
  <2>1. ASSUME NEW p \in Ports, Plug(p) PROVE TypeOK'
    BY <2>1 DEF Plug, idle, past
  <2>2. ASSUME NEW p \in Ports, Unplug(p) PROVE TypeOK'
    <3>1. unit' \in [Ports -> Where]
      BY <2>2 DEF Unplug, Where
    <3>. QED
      BY <2>2, <3>1 DEF Unplug, idle, Where
  <2>3. ASSUME NEW p \in Ports, Start(p) PROVE TypeOK'
    <3>1. overlap' \in BOOLEAN
      BY <2>3, Zenon DEF Start
    <3>. QED
      BY <2>3, <3>1 DEF Start, To, idle
  <2>4. ASSUME NEW p \in Ports, Pre(p) PROVE TypeOK'
    <3>1. overlap' \in BOOLEAN
      BY <2>4, Zenon DEF Pre
    <3>. QED
      BY <2>4, <3>1 DEF Pre, To, idle, usb
  <2>5. ASSUME NEW p \in Ports, Launch(p) \/ Play(p) \/ Finish(p) \/ Die(p) \/ Timeout(p)
                                \/ Post(p) \/ Stopped(p)
        PROVE  TypeOK'
    BY <2>5 DEF Launch, Play, Finish, Die, Timeout, Post, Stopped, To, idle, usb, past
  <2>6. CASE StartWeb \/ Heartbeat \/ StartReady
    BY <2>6 DEF StartWeb, Heartbeat, StartReady, idle, usb, past
  <2>7. ASSUME PowerOff PROVE TypeOK'
    <3>1. power' \in BOOLEAN /\ web' \in BOOLEAN /\ overlap' \in BOOLEAN
      BY <2>7, Zenon DEF PowerOff
    <3>2. limit' = limit /\ ticks' = 0
      BY <2>7 DEF PowerOff
    <3>3. ticks' \in 0..limit'
      BY <3>2
    <3>. QED
      BY <2>7, <3>1, <3>2, <3>3 DEF PowerOff
  <2>8. CASE MonitorTick \/ Shutdown
    BY <2>7, <2>8 DEF MonitorTick, Shutdown, usb, past
  <2>9. CASE PullPower \/ Boot
    <3>1. CASE Boot
      <4>1. power' \in BOOLEAN /\ web' \in BOOLEAN /\ overlap' \in BOOLEAN
        BY <3>1, Zenon DEF Boot, Booting
      <4>2. limit' = limit /\ ticks' = 0
        BY <3>1 DEF Boot, Booting
      <4>3. ticks' \in 0..limit'
        BY <4>2
      <4>. QED
        BY <3>1, <4>1, <4>2, <4>3 DEF Boot, Booting
    <3>. QED
      BY <2>7, <2>9, <3>1 DEF PullPower
  <2>10. CASE UNCHANGED vars
    BY <2>10 DEF vars, usb, idle, past
  <2>. QED
    BY <1>2, <2>1, <2>2, <2>3, <2>4, <2>5, <2>6, <2>8, <2>9, <2>10 DEF Next, Sync, Others
<1>. QED
  BY <1>1, <1>2, PTL DEF Spec

\* The steps at which the pilot must not unplug.
Busy == {"settle", "program", "stopping"}

\* Without an overlap one unit at most is under way, and the ready light is stopped
\* while it is busy; the light is steady only while the ready unit is on.
Handover ==
    /\ light = "solid" => ready = "on"
    /\ overlap = FALSE =>
          /\ \A p, q \in Ports : unit[p] # "inactive" /\ unit[q] # "inactive" => p = q
          /\ \A p \in Ports : unit[p] \in Busy => ready = "off"

\* A step of a unit that is under way, before or after its program, moves only
\* that unit.
LEMMA UnitKeeps ==
    ASSUME TypeOK, Handover, NEW p \in Ports, unit[p] # "inactive",
           unit' \in [Ports -> Where], \A q \in Ports \ {p} : unit'[q] = unit[q],
           overlap' = overlap, light' = "solid" => ready' = "on",
           unit'[p] \in Busy => ready' = "off"
    PROVE  Handover'
<1>1. ASSUME overlap' = FALSE
      PROVE  /\ \A q, r \in Ports : unit'[q] # "inactive" /\ unit'[r] # "inactive" => q = r
             /\ \A q \in Ports : unit'[q] \in Busy => ready' = "off"
  <2>1. \A q \in Ports \ {p} : unit'[q] = "inactive"
    BY <1>1 DEF Handover
  <2>. QED
    BY <2>1 DEF Busy
<1>. QED
  BY <1>1 DEF Handover

LEMMA HandoverKept == ASSUME TypeOK, Handover, [Next]_vars PROVE Handover'
<1>. USE DEF TypeOK
<1>1. ASSUME NEW p \in Ports, Plug(p) PROVE Handover'
  BY <1>1 DEF Plug, Handover, past
<1>2. ASSUME NEW p \in Ports, Unplug(p) PROVE Handover'
  <2>1. CASE unit[p] \in {"pre", "settle", "program"}
    <3>1. /\ UNCHANGED <<ready, light, overlap>>
          /\ unit' \in [Ports -> Where] /\ \A q \in Ports \ {p} : unit'[q] = unit[q]
          /\ unit'[p] \in Busy => unit[p] \in Busy
      BY <1>2, <2>1 DEF Unplug, Where, Busy
    <3>2. light' = "solid" => ready' = "on"
      BY <3>1 DEF Handover
    <3>3. CASE overlap = FALSE
      <4>1. unit'[p] \in Busy => ready' = "off"
        BY <3>1, <3>3 DEF Handover
      <4>. QED
        BY <2>1, <3>1, <3>2, <4>1, UnitKeeps
    <3>. QED
      BY <3>1, <3>2, <3>3 DEF Handover
  <2>2. CASE unit[p] \notin {"pre", "settle", "program"}
    <3>1. UNCHANGED <<ready, light, overlap, unit>>
      BY <1>2, <2>2 DEF Unplug
    <3>. QED
      BY <3>1 DEF Handover
  <2>. QED
    BY <2>1, <2>2
<1>3. ASSUME NEW p \in Ports, Start(p) PROVE Handover'
  <2>1. /\ UNCHANGED <<ready, light>>
        /\ unit' = [unit EXCEPT ![p] = "pre"]
    BY <1>3 DEF Start, To
  <2>2. overlap' = FALSE => \A q \in Ports \ {p} : unit[q] = "inactive"
    BY <1>3, Zenon DEF Start, Alone
  <2>. QED
    BY <2>1, <2>2 DEF Handover, Busy
<1>4. ASSUME NEW p \in Ports, Pre(p) PROVE Handover'
  <2>1. /\ unit[p] = "pre" /\ unit' = [unit EXCEPT ![p] = "settle"]
        /\ ready' = "off"
        /\ light' = IF ready = "on" THEN "dark" ELSE light
    BY <1>4 DEF Pre, To
  <2>2. light' # "solid"
    BY <2>1 DEF Handover
  <2>3. overlap' = FALSE => overlap = FALSE \/ Alone(p)
    BY <1>4, Zenon DEF Pre
  <2>4. overlap' = FALSE => \A q \in Ports \ {p} : unit[q] = "inactive"
    BY <2>1, <2>3 DEF Alone, Handover
  <2>. QED
    BY <2>1, <2>2, <2>4 DEF Handover
<1>5. ASSUME NEW p \in Ports, Launch(p) \/ Finish(p) \/ Die(p) \/ Timeout(p) \/ Stopped(p)
      PROVE  Handover'
  <2>1. /\ UNCHANGED <<ready, overlap>> /\ unit[p] # "inactive"
        /\ unit' \in [Ports -> Where] /\ \A q \in Ports \ {p} : unit'[q] = unit[q]
        /\ unit'[p] \in Busy => unit[p] \in Busy
        /\ light' = "solid" => light = "solid"
    BY <1>5 DEF Launch, Finish, Die, Timeout, Stopped, To, Where, Busy, Alive, past
  <2>2. light' = "solid" => ready' = "on"
    BY <2>1 DEF Handover
  <2>3. CASE overlap = FALSE
    <3>1. unit'[p] \in Busy => ready' = "off"
      BY <2>1, <2>3 DEF Handover
    <3>. QED
      BY <2>1, <2>2, <3>1, UnitKeeps
  <2>. QED
    BY <2>1, <2>2, <2>3 DEF Handover
<1>6. ASSUME NEW p \in Ports, Post(p) PROVE Handover'
  <2>1. /\ UNCHANGED <<light, overlap>> /\ unit[p] # "inactive"
        /\ unit' \in [Ports -> Where] /\ \A q \in Ports \ {p} : unit'[q] = unit[q]
        /\ unit'[p] \notin Busy
        /\ ready = "on" => ready' = "on"
    BY <1>6 DEF Post, To, Where, Busy, past
  <2>2. light' = "solid" => ready' = "on"
    BY <2>1 DEF Handover
  <2>. QED
    BY <2>1, <2>2, UnitKeeps
<1>7. ASSUME NEW p \in Ports, Play(p) PROVE Handover'
  BY <1>7 DEF Play, Handover, past
<1>8. CASE StartWeb \/ Heartbeat \/ MonitorTick
  BY <1>8 DEF StartWeb, Heartbeat, MonitorTick, Handover, past
<1>9. CASE StartReady
  BY <1>9 DEF StartReady, Handover, past
<1>10. ASSUME light' # "solid", \A p \in Ports : unit'[p] = "inactive" PROVE Handover'
  BY <1>10 DEF Handover, Busy
<1>11. ASSUME PowerOff PROVE Handover'
  BY <1>10, <1>11 DEF PowerOff
<1>12. CASE Shutdown \/ PullPower
  <2>1. PowerOff \/ UNCHANGED <<light, unit, ready, overlap>>
    BY <1>12 DEF Shutdown, PullPower, past
  <2>. QED
    BY <1>11, <2>1 DEF Handover
<1>13. CASE Boot
  BY <1>10, <1>13 DEF Boot, Booting
<1>14. CASE UNCHANGED vars
  BY <1>14 DEF vars, Handover, past
<1>. QED
  BY <1>1, <1>2, <1>3, <1>4, <1>5, <1>6, <1>7, <1>8, <1>9, <1>12, <1>13, <1>14
     DEF Next, Sync, Others

\* The steady light is never on while a sync is busy, unless syncs overlapped.
THEOREM SteadyIsIdle == Spec => []ReadyIsIdle
<1>1. Init => Handover
  BY DEF Init, Handover, Busy
<1>2. ASSUME TypeOK, Handover PROVE ReadyIsIdle
  BY <1>2 DEF TypeOK, Handover, ReadyIsIdle, Busy
<1>. QED
  BY <1>1, <1>2, HandoverKept, TypeCorrect, PTL DEF Spec
=============================================================================
