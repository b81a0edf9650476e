---------------------------- MODULE MCDownloader ----------------------------
(***************************************************************************)
(* ResilientDownloader for TLC.                                            *)
(***************************************************************************)
EXTENDS ResilientDownloader
=============================================================================
