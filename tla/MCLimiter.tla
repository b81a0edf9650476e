------------------------------ MODULE MCLimiter ------------------------------
(***************************************************************************)
(* SpeedLimiter for TLC.                                                   *)
(***************************************************************************)
EXTENDS SpeedLimiter
CONSTANTS v
MCWorkers == {v}
==============================================================================
