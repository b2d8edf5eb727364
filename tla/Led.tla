-------------------------------- MODULE Led --------------------------------
(***************************************************************************)
(* led.Controller: a goroutine that plays the pattern of a state on the    *)
(* LED, and the client that sets the state.  The two share the state,      *)
(* under a mutex, and two channels with room for one token: `changed`      *)
(* (there may be a new state) and `idle` (a pattern has been played out).  *)
(*                                                                         *)
(* A sleep ends when it likes: durations are left out.  The two halves of  *)
(* a pattern's step are told apart by what the LED shows.                  *)
(***************************************************************************)
EXTENDS Naturals

VARIABLES state,    \* the state last set
          changed,  \* is there a token in c.changed?
          idle,     \* is there a token in c.idle?
          stop,     \* is c.stop closed?
          pc,       \* where the goroutine is
          st,       \* the state it has read
          step,     \* the step of the pattern it plays
          on,       \* the backend: is the LED on?
          trigger,  \* the backend: who drives the LED, "none" or "mmc0"
          client    \* "new", "running", "stopping" or "stopped"

goroutine == <<pc, st, step>>
led == <<on, trigger>>
ledVars == <<state, changed, idle, stop, goroutine, led, client>>

States == {"Off", "Booting", "Ready", "Busy", "Done", "Error"}

\* patterns
Steps == [Off |-> 0, Booting |-> 1, Ready |-> 0, Busy |-> 1, Done |-> 6, Error |-> 10]
Repeat == {"Booting", "Ready", "Busy", "Error"}

LedInit == /\ state = "Off"
           /\ changed = FALSE
           /\ idle = FALSE
           /\ stop = FALSE
           /\ pc = "none"
           /\ st = "Off"
           /\ step = 0
           /\ on = FALSE
           /\ trigger = "mmc0"
           /\ client = "new"

----------------------------------------------------------------------------
(* The goroutine: run *)

\* The next round: read the state, start its pattern.
Begin == /\ pc = "head"
         /\ st' = state
         /\ IF Steps[state] = 0
            THEN /\ on' = (state \in Repeat)
                 /\ step' = 0
                 /\ pc' = "rest"
            ELSE /\ on' = TRUE
                 /\ step' = 1
                 /\ pc' = "sleep"
         /\ UNCHANGED <<state, changed, idle, stop, trigger, client>>

\* Mutation: an interrupted sleep does not put the token back.
WakeKeepingToken ==
    /\ pc = "sleep"
    /\ changed
    /\ changed' = FALSE
    /\ pc' = "check"
    /\ UNCHANGED <<state, idle, stop, st, step, led, client>>

\* interruptibleSleep takes the token ...
Wake == /\ pc = "sleep"
        /\ changed
        /\ changed' = FALSE
        /\ pc' = "back"
        /\ UNCHANGED <<state, idle, stop, st, step, led, client>>

\* ... and puts it back, unless there is a new one by now.
PutBack == /\ pc = "back"
           /\ changed' = TRUE
           /\ pc' = "check"
           /\ UNCHANGED <<state, idle, stop, st, step, led, client>>

SleepEnds == /\ pc = "sleep"
             /\ pc' = "check"
             /\ UNCHANGED <<state, changed, idle, stop, st, step, led, client>>

\* stateChanged says yes: the pattern is interrupted.
Interrupted == /\ pc = "check"
               /\ changed
               /\ changed' = FALSE
               /\ pc' = "head"
               /\ UNCHANGED <<state, idle, stop, st, step, led, client>>

\* Mutation: after the last step the pattern starts again whatever it is.
PlayForEver ==
    /\ pc = "check"
    /\ ~changed
    /\ CASE on -> on' = FALSE /\ pc' = "sleep" /\ UNCHANGED step
         [] ~on /\ step < Steps[st] -> on' = TRUE /\ step' = step + 1 /\ pc' = "sleep"
         [] OTHER -> pc' = "head" /\ UNCHANGED <<on, step>>
    /\ UNCHANGED <<state, changed, idle, stop, st, trigger, client>>

\* stateChanged says no: the second half of the step, the next step, the next
\* round, or the end of a pattern that is played once.
Play == /\ pc = "check"
        /\ ~changed
        /\ \/ /\ on
              /\ on' = FALSE
              /\ pc' = "sleep"
              /\ UNCHANGED <<step, idle>>
           \/ /\ ~on /\ step < Steps[st]
              /\ on' = TRUE
              /\ step' = step + 1
              /\ pc' = "sleep"
              /\ UNCHANGED idle
           \/ /\ ~on /\ step = Steps[st] /\ st \in Repeat
              /\ pc' = "head"
              /\ UNCHANGED <<on, step, idle>>
           \/ /\ ~on /\ step = Steps[st] /\ st \notin Repeat
              /\ idle' = TRUE
              /\ pc' = "rest"
              /\ UNCHANGED <<on, step>>
        /\ UNCHANGED <<state, changed, stop, st, trigger, client>>

\* waitForChangeOrStop: a change.
Resume == /\ pc = "rest"
          /\ changed
          /\ changed' = FALSE
          /\ pc' = "head"
          /\ UNCHANGED <<state, idle, stop, st, step, led, client>>

\* Mutation: only a goroutine at rest looks at c.stop.
SeeStopAtRest == /\ pc = "rest"
                 /\ stop
                 /\ pc' = "gone"
                 /\ UNCHANGED <<state, changed, idle, stop, st, step, led, client>>

\* The stop case of either select; c.done is closed.
SeeStop == /\ pc \in {"sleep", "rest"}
           /\ stop
           /\ pc' = "gone"
           /\ UNCHANGED <<state, changed, idle, stop, st, step, led, client>>

Run == \/ Begin \/ Wake \/ PutBack \/ SleepEnds \/ Interrupted \/ Play
       \/ Resume \/ SeeStop

----------------------------------------------------------------------------
(* The client: one goroutine calls all of these *)

Start == /\ client \in {"new", "stopped"}
         /\ client' = "running"
         /\ stop' = FALSE
         /\ trigger' = "none"
         /\ pc' = "head"
         /\ UNCHANGED <<state, changed, idle, st, step, on>>

SetState(s) == /\ client # "stopping"
               /\ state' = s
               /\ changed' = TRUE
               /\ UNCHANGED <<idle, stop, goroutine, led, client>>

\* WaitUntilIdle returns true.  (When it times out nothing changes.)
WaitUntilIdle == /\ client # "stopping"
                 /\ idle
                 /\ idle' = FALSE
                 /\ UNCHANGED <<state, changed, stop, goroutine, led, client>>

\* Stop closes c.stop ...
StopCalled == /\ client = "running"
              /\ client' = "stopping"
              /\ stop' = TRUE
              /\ UNCHANGED <<state, changed, idle, goroutine, led>>

\* Mutation: Stop does not wait for c.done.
StopAtOnce == /\ client = "stopping"
              /\ client' = "stopped"
              /\ on' = FALSE
              /\ trigger' = "mmc0"
              /\ UNCHANGED <<state, changed, idle, stop, goroutine>>

\* ... and returns once the goroutine has ended.
StopReturns == /\ client = "stopping"
               /\ pc = "gone"
               /\ client' = "stopped"
               /\ on' = FALSE
               /\ trigger' = "mmc0"
               /\ UNCHANGED <<state, changed, idle, stop, goroutine>>

Client == \/ Start
          \/ \E s \in States : SetState(s)
          \/ WaitUntilIdle
          \/ StopCalled \/ StopReturns

LedNext == Run \/ Client

LedSpec == LedInit /\ [][LedNext]_ledVars

\* The Go scheduler runs a goroutine that can move, timers go off, Stop returns
\* when it can.  A select that finds c.stop closed again and again takes that
\* case in the end: it chooses among the ready cases at random.  The client
\* need not do anything.
LedFairness == /\ WF_ledVars(Run)
               /\ SF_ledVars(SeeStop)
               /\ WF_ledVars(StopReturns)

FairLed == LedSpec /\ LedFairness

----------------------------------------------------------------------------
(* Properties *)

\* The types of the variables; a step in play is one of the pattern's.
LedTypeOK ==
    /\ state \in States
    /\ changed \in BOOLEAN
    /\ idle \in BOOLEAN
    /\ stop \in BOOLEAN
    /\ pc \in {"none", "head", "sleep", "back", "check", "rest", "gone"}
    /\ st \in States
    /\ step \in 0..10
    /\ pc \in {"sleep", "back", "check"} => step \in 1..Steps[st]
    /\ on \in BOOLEAN
    /\ trigger \in {"none", "mmc0"}
    /\ client \in {"new", "running", "stopping", "stopped"}

\* The one-slot channel and its non-blocking sends lose tokens but never the
\* last change: a goroutine that plays an old state has a token to find, or has
\* it in its hand.
NoChangeMissed ==
    (pc \in {"sleep", "back", "check", "rest"} /\ st # state)
        => changed \/ pc = "back"

\* After Stop has returned nothing drives the LED any more: it stays off, and
\* the kernel has it back (controller_test.go:84).
QuietAfterStop ==
    client = "stopped" => pc = "gone" /\ ~on /\ trigger = "mmc0"

\* From some time on the state is s, and is not set again.
Settled(s) == /\ <>[](state = s /\ client = "running")
              /\ <>[][\A t \in States : ~SetState(t)]_ledVars

\* The state set last, and no other, is what the LED ends up showing: it is
\* off, solid on, blinks in its pattern for ever, or has blinked it once.
LastStateIsShown ==
    /\ Settled("Off") => <>[](~on)
    /\ Settled("Ready") => <>[](on)
    /\ Settled("Done") => <>[](pc = "rest" /\ st = "Done" /\ ~on)
    /\ \A s \in {"Booting", "Busy", "Error"} :
          Settled(s) => []<>(st = s /\ on) /\ []<>(st = s /\ ~on)

\* Stop returns, whatever pattern is played and however often the state was
\* changed just before.
StopCompletes == client = "stopping" ~> client = "stopped"
=============================================================================
