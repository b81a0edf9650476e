---------------------------- MODULE MCRegistration ----------------------------
(***************************************************************************)
(* BrowserRegistration for TLC.  The two browsers are alike, and so are    *)
(* the two callers.                                                        *)
(***************************************************************************)
EXTENDS BrowserRegistration, TLC

CONSTANTS chrome, brave, custom, a, b
MCStandard == {chrome, brave}
MCCustom == {custom}
MCCallers == {a, b}
MCSymmetry == Permutations({chrome, brave}) \cup Permutations({a, b})
==============================================================================
