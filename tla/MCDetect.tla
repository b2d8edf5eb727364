----------------------------- MODULE MCDetect -----------------------------
(***************************************************************************)
(* Detect for TLC: versions around every bound of the policy.              *)
(***************************************************************************)
EXTENDS Detect

SomeMajors == {0, 1, 2}
SomeMinors == {0, 39, 40, 41, 46, 47, 48}
=============================================================================
