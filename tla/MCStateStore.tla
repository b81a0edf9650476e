---------------------------- MODULE MCStateStore ----------------------------
(***************************************************************************)
(* StateStore for TLC: one task identifier (a transaction touches no other *)
(* row) and two interchangeable callers.                                   *)
(***************************************************************************)
EXTENDS StateStore, TLC

CONSTANTS c1, c2

MCCallers == {c1, c2}

\* Callers are interchangeable.
MCSymmetry == Permutations(MCCallers)
=============================================================================
