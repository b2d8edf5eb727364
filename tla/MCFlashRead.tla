---------------------------- MODULE MCFlashRead ----------------------------
(***************************************************************************)
(* Instances of FlashRead for TLC.  The flash holds a handful of bytes and *)
(* the 16-bit word is scaled down with it: what matters is whether the     *)
(* flash is smaller than the word or not.                                  *)
(***************************************************************************)
EXTENDS FlashRead

\* Everything at once.
Everything == {FaultKinds}

\* Every request still gets an answer that the client can see.
Answered == {"malformed", "unplug", "write", "close", "slow"}

\* Answers may take long, and so may the file system.
Slow == {"slow", "write", "close", "wakeup"}

LossyLine == {"lost", "noise", "malformed", "wakeup"}

AllWorlds == Everything \cup {{}, Answered, Slow, LossyLine}

\* Nothing goes wrong; no wakeup, as the code sets no read timeout.
NoFault == {{}}
=============================================================================
