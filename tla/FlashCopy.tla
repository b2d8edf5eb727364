----------------------------- MODULE FlashCopy -----------------------------
(***************************************************************************)
(* What step 6 of a sync (Orchestrator.readFlash) promises to the steps    *)
(* after it, with no serial line, no timeouts and no retries: the copy     *)
(* grows by whole pieces of the flash, in order and from its beginning,    *)
(* until readFlash either hands it over or gives up.  Nothing is promised  *)
(* about how much is handed over: step 7 compares the sizes.               *)
(*                                                                         *)
(* The byte stored at flash address a is written a: a copy is faithful     *)
(* when its i-th byte is the address i - 1.                                *)
(***************************************************************************)
EXTENDS Integers, Sequences

CONSTANT Size        \* bytes in use on the flash

VARIABLES copied,    \* the bytes handed to the output file
          status     \* "copying", "handed" (readFlash returned nil) or "failed"

copyVars == <<copied, status>>

FlashPrefix(n) == [i \in 1..n |-> i - 1]

CopyInit == /\ copied = <<>>
            /\ status = "copying"

Extend == /\ status = "copying"
          /\ \E n \in Len(copied) + 1 .. Size : copied' = FlashPrefix(n)
          /\ UNCHANGED status

HandOver == /\ status = "copying"
            /\ status' = "handed"
            /\ UNCHANGED copied

GiveUp == /\ status = "copying"
          /\ status' = "failed"
          /\ UNCHANGED copied

CopyNext == Extend \/ HandOver \/ GiveUp

CopySpec == CopyInit /\ [][CopyNext]_copyVars
=============================================================================
