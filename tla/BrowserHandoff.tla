--------------------------- MODULE BrowserHandoff --------------------------
(* The whole way of a browser download into Barq: the extension's capture    *)
(* coordinator and the durable inbox, joined by the native port.             *)
EXTENDS CaptureCoordinator, DurableInbox

handoffVars == <<port, faults, captureVars, inboxVars>>

HandoffType == PortType /\ CaptureType /\ InboxType

HandoffInit == PortInit /\ CaptureInit /\ InboxInit

HandoffNext ==
    \/ CaptureStep /\ UNCHANGED inboxVars
    \/ InboxStep /\ UNCHANGED captureVars

HandoffSpec == HandoffInit /\ [][HandoffNext]_handoffVars

\* The service worker runs the continuations of its calls, the browser answers
\* a pause, the recovery alarm goes off each minute, the host serves what it has
\* read, and the desktop's timer drains the inbox.  A download need not finish
\* in the browser and no call need ever fail.
HandoffFairness ==
    /\ \A d \in Requests :
         /\ WF_handoffVars(Proceed(d) /\ UNCHANGED inboxVars)
         /\ WF_handoffVars(ProceedLate(d) /\ UNCHANGED inboxVars)
         /\ WF_handoffVars(ProceedRescue(d) /\ UNCHANGED inboxVars)
         /\ WF_handoffVars(BrowserPauses(d) /\ UNCHANGED inboxVars)
         /\ WF_handoffVars(Serve(d) /\ UNCHANGED captureVars)
         /\ WF_handoffVars(Drain(d) /\ UNCHANGED captureVars)

FairHandoffSpec == HandoffSpec /\ HandoffFairness

----------------------------------------------------------------------------
(* Properties *)

\* The transfer the inbox has on record for a download.
TransferOf(d) == record[KeyOf[d]]

\* Barq has the download: its envelope is on disk, or a row that is still listed.
Has(d) ==
    /\ TransferOf(d) # NoTransfer
    /\ \/ envelope[TransferOf(d)] \in Kept
       \/ gone[TransferOf(d)] < rows[TransferOf(d)]

\* A download that has been cancelled in the browser is in Barq's hands, unless
\* the user has removed it there since: nothing the worker, the host, the watcher
\* or the user's browser does in between may lose it (coordinator.ts, inbox.rs).
NeverLost ==
    \A d \in Requests : browser[d] = "cancelled" => Has(d) \/ d \in disposed

\* Nobody is at work on a download that the browser keeps paused, and no marker
\* tells recover() of it: it stays paused until the user notices.
Stranded(d) ==
    /\ browser[d] = "paused"
    /\ marker[d] = "none"
    /\ ~Busy(d)
    /\ rescue[d] = AtRest

\* Whatever call fails and wherever the service worker ends, a paused download is
\* known to recover(), as long as no recover() has run during the capture itself.
StrandedOnlyByOverlap ==
    \A d \in Requests : Stranded(d) => overlapped[d]

Keepers ==
    [d \in Requests |->
        {k \in {"browser", "inbox", "list"} :
            \/ k = "browser" /\ browser[d] # "cancelled"
            \/ /\ TransferOf(d) # NoTransfer
               /\ \/ k = "inbox" /\ envelope[TransferOf(d)] \in Kept
                  \/ k = "list" /\ rows[TransferOf(d)] > 0}]

Promise == INSTANCE HandoffPromise WITH keepers <- Keepers

\* The coordinator, the host and the watcher together keep the promise: each of
\* browser, inbox and list lets go only of what the next one has.
KeepsPromise == Promise!Spec

\* A marker is a debt: recover() or capture() always settles it in the end.
MarkersClear ==
    \A d \in Requests : marker[d] # "none" ~> marker[d] = "none"

\* A download does not stay paused for ever once capture() has paused it.
StallsEnd ==
    \A d \in Requests :
        browser[d] = "paused" ~> (browser[d] # "paused" \/ overlapped[d])

\* What the browser has given up is listed by the desktop application in the
\* end, or has been put into quarantine.
HandedOffArrives ==
    \A d \in Requests :
        browser[d] = "cancelled"
            ~> \E t \in Requests : /\ t = TransferOf(d)
                                   /\ rows[t] > 0 \/ envelope[t] = "quarantined"
============================================================================
