--------------------------- MODULE HandoffPromise --------------------------
(* What a browser handoff promises, whatever fails on the way: at any time a *)
(* download is kept by the browser, by the inbox or by Barq's list, and one  *)
(* of them lets go of it only when the next one has it.  This is ADR-003 and *)
(* ADR-004 of protocol/compatibility.md without the protocol.                *)
CONSTANT Requests

VARIABLE keepers   \* [Requests -> SUBSET {"browser", "inbox", "list"}]

Init == keepers = [d \in Requests |-> {"browser"}]

Becomes(d, kept) == keepers'[d] = kept

\* The host has made the envelope durable.
Publish(d) == Becomes(d, keepers[d] \union {"inbox"})

\* The extension cancels the browser's download.
Withdraw(d) ==
    /\ {"inbox", "list"} \intersect keepers[d] # {}
    /\ Becomes(d, keepers[d] \ {"browser"})

\* The desktop application adds a row for the envelope it has claimed.
Deliver(d) ==
    /\ "inbox" \in keepers[d]
    /\ Becomes(d, keepers[d] \union {"list"})

\* It removes the envelope.
Clear(d) ==
    /\ "list" \in keepers[d]
    /\ Becomes(d, keepers[d] \ {"inbox"})

Step(d) == Publish(d) \/ Withdraw(d) \/ Deliver(d) \/ Clear(d)

\* One envelope may stand for several downloads, so several may step at once.
Next ==
    /\ keepers' \in [Requests -> SUBSET {"browser", "inbox", "list"}]
    /\ \A d \in Requests : Becomes(d, keepers[d]) \/ Step(d)

Spec == Init /\ [][Next]_keepers
============================================================================
