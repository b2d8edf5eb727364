---------------------------- MODULE SafeTransfer ----------------------------
(***************************************************************************)
(* What a pilot expects of the whole appliance: a recorded log is on the   *)
(* flight controller, or durably on the SD card, or it was given up on     *)
(* purpose to make room.  The flight controller is emptied only when all   *)
(* that is on it is on the card.                                           *)
(***************************************************************************)
CONSTANT Units      \* pieces of log a flight may record

VARIABLES onFC,      \* units on the flash of the flight controller
          archived,  \* units durably on the SD card
          reclaimed  \* units once deleted from the card to make room

transferVars == <<onFC, archived, reclaimed>>

TransferInit == onFC = {} /\ archived = {} /\ reclaimed = {}

\* A flight.
Record == /\ \E u \in Units \ (onFC \cup archived \cup reclaimed) : onFC' = onFC \cup {u}
          /\ UNCHANGED <<archived, reclaimed>>

\* A copy is made, replaced or dropped: of what is on the FC, anything may
\* become archived or cease to be; what is not on the FC is not touched.
Copy == /\ \E S \in SUBSET onFC : archived' = (archived \ onFC) \cup S
        /\ UNCHANGED <<onFC, reclaimed>>

Reclaim == /\ \E T \in SUBSET archived :
                 /\ reclaimed' = reclaimed \cup T
                 /\ archived' \in {archived \ S : S \in SUBSET T}
           /\ UNCHANGED onFC

Erase == /\ onFC \subseteq archived
         /\ onFC' = {}
         /\ UNCHANGED <<archived, reclaimed>>

TransferNext == Record \/ Copy \/ Reclaim \/ Erase

TransferSpec == TransferInit /\ [][TransferNext]_transferVars

----------------------------------------------------------------------------
\* No unit is lost: once recorded it is somewhere, or was given up on purpose.
Recorded == onFC \cup archived \cup reclaimed

NeverLost == [][Recorded \subseteq Recorded']_transferVars
=============================================================================
