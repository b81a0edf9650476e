-------------------------- MODULE MCBrowserHandoff -------------------------
(* Instances of BrowserHandoff for TLC.                                      *)
EXTENDS BrowserHandoff

CONSTANT d1

\* Downloads of one browser have different ids and so different keys.
OwnKeys == [d \in Requests |-> d]
============================================================================
