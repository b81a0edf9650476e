--------------------------- MODULE MCDurableInbox --------------------------
(* Instances of DurableInbox for TLC.                                        *)
EXTENDS DurableInbox

CONSTANTS r1, r2, r3

\* Two requests share a key, and the third has one of its own.
TwoKeys == [r \in Requests |-> IF r = r3 THEN r3 ELSE r1]
============================================================================
