------------------------------- MODULE MCLed -------------------------------
(***************************************************************************)
(* Led for TLC.  It has no constants: the six states and their patterns are *)
(* the code's.                                                             *)
(***************************************************************************)
EXTENDS Led
=============================================================================
