--------------------------- MODULE TaskLifecycle ---------------------------
(***************************************************************************)
(* What the task table promises about one task, without rows, versions,    *)
(* copies or transactions: the phases of its life, and that it completes   *)
(* only after its file was finalized.                                      *)
(***************************************************************************)
CONSTANT Ids

VARIABLES
  phase,      \* phase[i]: where task i is in its life
  finalized   \* the tasks whose file is durably in place

vars == <<phase, finalized>>

Phases == {"absent", "legacy", "pending", "downloading", "paused", "failed",
           "completed", "retired"}

Init ==
  /\ phase \in [Ids -> {"absent", "legacy"}]
  /\ finalized = {}

Move(i, to) ==
  /\ phase' = [phase EXCEPT ![i] = to]
  /\ UNCHANGED finalized

\* Tasks of an older engine are not trusted.
Upgrade ==
  /\ phase' = [i \in Ids |-> IF phase[i] = "legacy" THEN "failed" ELSE phase[i]]
  /\ UNCHANGED finalized

Begin(i)    == phase[i] = "absent" /\ Move(i, "pending")
Claim(i)    == phase[i] \in {"pending", "paused"} /\ Move(i, "downloading")
Park(i)     == /\ phase[i] \in {"pending", "downloading"}
               /\ i \notin finalized
               /\ Move(i, "paused")
Fail(i)     == /\ phase[i] \in {"pending", "downloading", "paused"}
               /\ i \notin finalized
               /\ Move(i, "failed")
Retry(i)    == phase[i] = "failed" /\ Move(i, "pending")
Finalize(i) == /\ phase[i] = "downloading"
               /\ finalized' = finalized \cup {i}
               /\ UNCHANGED phase
Finish(i)   == /\ phase[i] = "downloading"
               /\ i \in finalized
               /\ Move(i, "completed")
Retire(i)   == /\ phase[i] \in {"completed", "failed"}
               /\ phase' = [phase EXCEPT ![i] = "retired"]
               /\ finalized' = finalized \ {i}

Next ==
  \/ Upgrade
  \/ \E i \in Ids : \/ Begin(i) \/ Claim(i) \/ Park(i) \/ Fail(i) \/ Retry(i)
                    \/ Finalize(i) \/ Finish(i) \/ Retire(i)

Spec == Init /\ [][Next]_vars
=============================================================================
