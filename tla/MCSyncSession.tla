--------------------------- MODULE MCSyncSession ---------------------------
(***************************************************************************)
(* Instances of SyncSession for TLC.                                       *)
(***************************************************************************)
EXTENDS SyncSession

AllModes == {"erase", "keep", "dry"}
=============================================================================
