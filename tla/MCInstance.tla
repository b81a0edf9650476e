------------------------------ MODULE MCInstance ------------------------------
(***************************************************************************)
(* DesktopInstance for TLC.                                                *)
(***************************************************************************)
EXTENDS DesktopInstance

CONSTANTS a, b, c, f1
MCLaunches == {a, b, c}
MCHasUrl == {b}
MCFiles == {f1}
==============================================================================
