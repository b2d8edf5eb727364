----------------------------- MODULE Led_proofs -----------------------------
(***************************************************************************)
(* Theorems about Led: any sequence of calls of the client, at any point   *)
(* of any pattern, with starts and stops.                                  *)
(***************************************************************************)
EXTENDS Led, TLAPS

\* A step number is one of the pattern's.
LEMMA StepsAre == \A s \in States : Steps[s] \in {0, 1, 6, 10}
BY DEF States, Steps

\* The types, and that a step in play is one of the pattern's, always hold.
THEOREM LedTypeCorrect == LedSpec => []LedTypeOK
<1>1. LedInit => LedTypeOK
  <2>1. LedInit => step \in 0..10
    BY DEF LedInit
  <2>. QED
    BY <2>1, Zenon DEF LedInit, LedTypeOK, States
<1>2. ASSUME LedTypeOK, [LedNext]_ledVars PROVE LedTypeOK'
  <2>. USE <1>2, StepsAre DEF LedTypeOK
  <2>1. CASE Begin
    <3>1. /\ pc' \in {"rest", "sleep"} /\ step' \in 0..1
          /\ pc' = "sleep" => step' = 1 /\ Steps[state] # 0
          /\ st' = state
      BY <2>1 DEF Begin
    <3>2. on' = TRUE \/ on' = (state \in Repeat)
      BY <2>1, Zenon DEF Begin
    <3>3. on' \in BOOLEAN
      <4>1. CASE state \in Repeat
        BY <3>2, <4>1, Zenon
      <4>2. CASE state \notin Repeat
        <5>1. on' = TRUE \/ on' = FALSE
          BY <3>2, <4>2, SMT
        <5>. QED
          BY <5>1, Zenon
      <4>. QED
        BY <4>1, <4>2
    <3>4. pc' = "sleep" => step' \in 1..Steps[st']
      BY <3>1
    <3>. QED
      BY <2>1, <3>1, <3>3, <3>4 DEF Begin
  <2>2. CASE Wake \/ PutBack \/ SleepEnds \/ Interrupted \/ Resume \/ SeeStop
    BY <2>2 DEF Wake, PutBack, SleepEnds, Interrupted, Resume, SeeStop, led
  <2>3. CASE Play
    <3>1. step \in 1..Steps[st] /\ Steps[st] \in {0, 1, 6, 10}
      BY <2>3 DEF Play
    <3>2. /\ step' \in 0..10
          /\ step' \in 1..Steps[st]
          /\ st' = st /\ pc' \in {"sleep", "head", "rest"}
      BY <2>3, <3>1 DEF Play
    <3>3. idle' \in BOOLEAN /\ on' \in BOOLEAN
      <4>1. /\ idle' = idle \/ idle' = TRUE
            /\ on' = on \/ on' = TRUE \/ on' = FALSE
        BY <2>3, Zenon DEF Play
      <4>. QED
        BY <4>1, Zenon
    <3>. QED
      BY <2>3, <3>2, <3>3 DEF Play
  <2>4. CASE Client
    <3>1. UNCHANGED <<st, step>> /\ (pc' = pc \/ pc' = "head")
      BY <2>4 DEF Client, Start, SetState, WaitUntilIdle, StopCalled, StopReturns,
                  goroutine
    <3>2. /\ state' \in States
          /\ client' \in {"new", "running", "stopping", "stopped"}
          /\ trigger' \in {"none", "mmc0"}
      BY <2>4 DEF Client, Start, SetState, WaitUntilIdle, StopCalled, StopReturns, led
    <3>3. /\ changed' = changed \/ changed' = TRUE
          /\ idle' = idle \/ idle' = FALSE
          /\ stop' = stop \/ stop' = TRUE \/ stop' = FALSE
          /\ on' = on \/ on' = FALSE
      BY <2>4, Zenon DEF Client, Start, SetState, WaitUntilIdle, StopCalled, StopReturns, led
    <3>4. changed' \in BOOLEAN /\ idle' \in BOOLEAN /\ stop' \in BOOLEAN /\ on' \in BOOLEAN
      BY <3>3, Zenon
    <3>. QED
      BY <3>1, <3>2, <3>4
  <2>5. CASE UNCHANGED ledVars
    BY <2>5 DEF ledVars, goroutine, led
  <2>. QED
    BY <2>1, <2>2, <2>3, <2>4, <2>5 DEF LedNext, Run
<1>. QED
  BY <1>1, <1>2, PTL DEF LedSpec

\* No change of state is missed: while the goroutine plays another state than
\* the one set there is a token in the channel, or in its hand.  A sleep that
\* is interrupted hands the token on, and stateChanged, which takes it for good,
\* goes back to read the state.
THEOREM NoChangeIsMissed == LedSpec => []NoChangeMissed
<1>1. LedInit => NoChangeMissed
  BY DEF LedInit, NoChangeMissed
<1>2. ASSUME NoChangeMissed, [LedNext]_ledVars PROVE NoChangeMissed'
  <2>. USE <1>2 DEF NoChangeMissed
  <2>1. CASE Begin
    BY <2>1 DEF Begin
  <2>2. CASE Wake \/ PutBack \/ Interrupted \/ Resume \/ SeeStop
    BY <2>2 DEF Wake, PutBack, Interrupted, Resume, SeeStop, led
  <2>3. CASE SleepEnds \/ Play
    BY <2>3 DEF SleepEnds, Play, led
  <2>4. CASE Client
    BY <2>4 DEF Client, Start, SetState, WaitUntilIdle, StopCalled, StopReturns,
                goroutine, led
  <2>5. CASE UNCHANGED ledVars
    BY <2>5 DEF ledVars, goroutine, led
  <2>. QED
    BY <2>1, <2>2, <2>3, <2>4, <2>5 DEF LedNext, Run
<1>. QED
  BY <1>1, <1>2, PTL DEF LedSpec

\* Once Stop has returned nothing writes to the LED: a goroutine that is gone
\* takes no step, and Stop waits until it is.
THEOREM StopIsQuiet == LedSpec => []QuietAfterStop
<1>1. LedInit => QuietAfterStop
  BY DEF LedInit, QuietAfterStop
<1>2. ASSUME QuietAfterStop, [LedNext]_ledVars PROVE QuietAfterStop'
  <2>. USE <1>2 DEF QuietAfterStop
  <2>1. CASE Run
    BY <2>1 DEF Run, Begin, Wake, PutBack, SleepEnds, Interrupted, Play, Resume,
                SeeStop, led
  <2>2. CASE Client
    BY <2>2 DEF Client, Start, SetState, WaitUntilIdle, StopCalled, StopReturns,
                goroutine, led
  <2>3. CASE UNCHANGED ledVars
    BY <2>3 DEF ledVars, goroutine, led
  <2>. QED
    BY <2>1, <2>2, <2>3 DEF LedNext
<1>. QED
  BY <1>1, <1>2, PTL DEF LedSpec
=============================================================================
