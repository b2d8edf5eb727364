------------------------------- MODULE MCHost -------------------------------
(* An instance of Host for TLC. *)
EXTENDS Host

CONSTANTS acm0, acm1

TwoPorts == {acm0, acm1}
SomeLimits == {0, 2}
=============================================================================
