------------------------- MODULE CaptureCoordinator ------------------------
(* The extension's side of a handoff: CaptureCoordinator of                  *)
(* packages/browser-core/src/capture/coordinator.ts with the marker it keeps *)
(* in storage.local, the downloads of the browser, and the life of the       *)
(* service worker that runs it (apps/extension/entrypoints/background.ts).   *)
(* A request of the port is named for its download.  One action is the code  *)
(* between two awaits with the effect of the call it ends in, so that calls  *)
(* take effect in the order they are made; the answer may take any time.     *)
EXTENDS NativePort

VARIABLES
    browser,     \* [Requests -> BrowserStates], the browser's download
    pausing,     \* [Requests -> PauseStates], the call downloads.pause
    marker,      \* [Requests -> Markers], the pending capture in storage.local
    capture,     \* [Requests -> CaptureStates], where capture() is
    late,        \* [Requests -> LateStates], resumeWhenLatePauseCompletes
    rescue,      \* [Requests -> RescueStates], where recover() is
    overlapped   \* history: did recover() list it while capture() was at work?

captureVars ==
    <<browser, pausing, marker, capture, late, rescue, overlapped>>

BrowserStates == {"running", "paused", "interrupted", "complete",
                  "cancelled", "erased"}
Active == {"running", "paused"}

\* "pending" until the browser acts, then its result until the code sees it.
PauseStates == {"none", "pending", "done", "failed"}
Markers == {"none", "observed", "paused", "accepted"}

Working == {"observing", "pausing", "clearing", "journaling", "connecting",
            "asked", "accepting", "cancelling marked", "cancelling unmarked",
            "remarking", "forgetting", "resuming", "unmarking"}
Outcomes == {"handed off", "cancel pending", "fallback", "resume failed"}
CaptureStates == Working \union Outcomes \union {"idle", "dead"}
LateStates == {"none", "awaiting", "resuming", "clearing"}

AtRest == [at |-> "idle", seen |-> "none"]
RescueStates ==
    [at : {"listed", "cancelling", "resuming", "removing"},
     seen : Markers \ {"none"}] \union {AtRest}

CaptureType ==
    /\ browser \in [Requests -> BrowserStates]
    /\ pausing \in [Requests -> PauseStates]
    /\ marker \in [Requests -> Markers]
    /\ capture \in [Requests -> CaptureStates]
    /\ late \in [Requests -> LateStates]
    /\ rescue \in [Requests -> RescueStates]
    /\ overlapped \in [Requests -> BOOLEAN]

CaptureInit ==
    /\ browser = [d \in Requests |-> "running"]
    /\ pausing = [d \in Requests |-> "none"]
    /\ marker = [d \in Requests |-> "none"]
    /\ capture = [d \in Requests |-> "idle"]
    /\ late = [d \in Requests |-> "none"]
    /\ rescue = [d \in Requests |-> AtRest]
    /\ overlapped = [d \in Requests |-> FALSE]

----------------------------------------------------------------------------
(* What the calls do *)

Continue(d, place) == capture' = [capture EXCEPT ![d] = place]

Save(d, state) == marker' = [marker EXCEPT ![d] = state]

Remove(d) == Save(d, "none")

\* downloads.resume: an error unless the download is in progress.
Resumes(d) ==
    /\ browser[d] \in Active
    /\ browser' = [browser EXCEPT ![d] = "running"]
    /\ UNCHANGED faults

ResumeFails(d) ==
    /\ \/ browser[d] \notin Active /\ UNCHANGED faults
       \/ Fault
    /\ UNCHANGED browser

\* downloads.cancel: no error and no effect when it is not in progress.
Cancels(d) ==
    /\ browser' = [browser EXCEPT ![d] = IF @ \in Active THEN "cancelled" ELSE @]
    /\ UNCHANGED faults

----------------------------------------------------------------------------
(* capture() *)

\* onCreated: auto-capture is enabled and the download eligible.
Observe(d) ==
    /\ capture[d] = "idle"
    /\ browser[d] = "running"
    /\ Continue(d, "observing")
    /\ UNCHANGED <<port, faults, browser, pausing, marker, late, rescue,
                   overlapped>>

\* A mutant of MarkObserved: the download is paused before any marker is saved.
PauseUnmarked(d) ==
    /\ capture[d] = "observing"
    /\ pausing' = [pausing EXCEPT ![d] = "pending"]
    /\ Continue(d, "pausing")
    /\ UNCHANGED <<port, faults, browser, marker, late, rescue, overlapped>>

\* The marker is saved and the pause called, or saving fails.
MarkObserved(d) ==
    /\ capture[d] = "observing"
    /\ \/ /\ Save(d, "observed")
          /\ pausing' = [pausing EXCEPT ![d] = "pending"]
          /\ Continue(d, "pausing")
          /\ UNCHANGED faults
       \/ /\ Fault
          /\ Continue(d, "clearing")
          /\ UNCHANGED <<marker, pausing>>
    /\ UNCHANGED <<port, browser, late, rescue, overlapped>>

PauseSucceeds(d) ==
    /\ capture[d] = "pausing"
    /\ pausing[d] = "done"
    /\ pausing' = [pausing EXCEPT ![d] = "none"]
    /\ Continue(d, "journaling")
    /\ UNCHANGED <<port, faults, browser, marker, late, rescue, overlapped>>

PauseFails(d) ==
    /\ capture[d] = "pausing"
    /\ pausing[d] = "failed"
    /\ pausing' = [pausing EXCEPT ![d] = "none"]
    /\ Continue(d, "clearing")
    /\ UNCHANGED <<port, faults, browser, marker, late, rescue, overlapped>>

\* 600 ms have passed: resumeWhenLatePauseCompletes is left to wait.
PauseTimesOut(d) ==
    /\ capture[d] = "pausing"
    /\ Continue(d, "fallback")
    /\ late' = [late EXCEPT ![d] = "awaiting"]
    /\ UNCHANGED <<port, faults, browser, pausing, marker, rescue, overlapped>>

\* clearUnacceptedCapture: a failure to remove the marker is ignored.
ClearUnaccepted(d) ==
    /\ capture[d] = "clearing"
    /\ \/ Remove(d) /\ UNCHANGED faults
       \/ Fault /\ UNCHANGED marker
    /\ Continue(d, "fallback")
    /\ UNCHANGED <<port, browser, pausing, late, rescue, overlapped>>

\* The paused marker is saved, or the browser gets its download back.
MarkPaused(d) ==
    /\ capture[d] = "journaling"
    /\ \/ Save(d, "paused") /\ Continue(d, "connecting") /\ UNCHANGED faults
       \/ Fault /\ Continue(d, "resuming") /\ UNCHANGED marker
    /\ UNCHANGED <<port, browser, pausing, late, rescue, overlapped>>

\* The envelope is assembled, the host has greeted back, the request is posted.
SendRequest(d) ==
    /\ capture[d] = "connecting"
    /\ Post(d)
    /\ Continue(d, "asked")
    /\ UNCHANGED <<faults, browser, pausing, marker, late, rescue, overlapped>>

\* No envelope, no host, no greeting within a second, or limits exceeded.
ConnectFails(d) ==
    /\ capture[d] = "connecting"
    /\ Fault
    /\ Continue(d, "resuming")
    /\ UNCHANGED <<port, browser, pausing, marker, late, rescue, overlapped>>

HostAccepts(d) ==
    /\ capture[d] = "asked"
    /\ port[d] = "accepted"
    /\ Continue(d, "accepting")
    /\ UNCHANGED <<port, faults, browser, pausing, marker, late, rescue,
                   overlapped>>

HostRejects(d) ==
    /\ capture[d] = "asked"
    /\ port[d] = "rejected"
    /\ Continue(d, "resuming")
    /\ UNCHANGED <<port, faults, browser, pausing, marker, late, rescue,
                   overlapped>>

\* A mutant of GiveUp: a response that does not come is taken for acceptance.
GiveUpAccepting(d) ==
    /\ capture[d] = "asked"
    /\ Continue(d, "accepting")
    /\ UNCHANGED <<port, faults, browser, pausing, marker, late, rescue,
                   overlapped>>

\* The response took more than 1.5 s, or the port has been disconnected.
GiveUp(d) ==
    /\ capture[d] = "asked"
    /\ Continue(d, "resuming")
    /\ UNCHANGED <<port, faults, browser, pausing, marker, late, rescue,
                   overlapped>>

\* saveAcceptedMarker, before the download is cancelled.
MarkAccepted(d) ==
    /\ capture[d] = "accepting"
    /\ \/ /\ Save(d, "accepted")
          /\ Continue(d, "cancelling marked")
          /\ UNCHANGED faults
       \/ Fault /\ Continue(d, "cancelling unmarked") /\ UNCHANGED marker
    /\ UNCHANGED <<port, browser, pausing, late, rescue, overlapped>>

Cancel(d) ==
    /\ capture[d] \in {"cancelling marked", "cancelling unmarked"}
    /\ Cancels(d)
    /\ Continue(d, "forgetting")
    /\ UNCHANGED <<port, pausing, marker, late, rescue, overlapped>>

\* A failed cancel is left to recover() if the accepted marker is saved.
CancelFails(d) ==
    /\ \/ capture[d] = "cancelling marked" /\ Continue(d, "cancel pending")
       \/ capture[d] = "cancelling unmarked" /\ Continue(d, "remarking")
    /\ Fault
    /\ UNCHANGED <<port, browser, pausing, marker, late, rescue, overlapped>>

\* saveAcceptedMarker once more; without it the browser gets its download back.
MarkAgain(d) ==
    /\ capture[d] = "remarking"
    /\ \/ Save(d, "accepted") /\ Continue(d, "cancel pending") /\ UNCHANGED faults
       \/ Fault /\ Continue(d, "resuming") /\ UNCHANGED marker
    /\ UNCHANGED <<port, browser, pausing, late, rescue, overlapped>>

\* clearAcceptedCapture: a failure to remove the marker is ignored.
ClearAccepted(d) ==
    /\ capture[d] = "forgetting"
    /\ \/ Remove(d) /\ UNCHANGED faults
       \/ Fault /\ UNCHANGED marker
    /\ Continue(d, "handed off")
    /\ UNCHANGED <<port, browser, pausing, late, rescue, overlapped>>

\* resumeBrowser
ResumeBrowser(d) ==
    /\ capture[d] = "resuming"
    /\ \/ Resumes(d) /\ Continue(d, "unmarking")
       \/ ResumeFails(d) /\ Continue(d, "resume failed")
    /\ UNCHANGED <<port, pausing, marker, late, rescue, overlapped>>

Unmark(d) ==
    /\ capture[d] = "unmarking"
    /\ \/ Remove(d) /\ UNCHANGED faults
       \/ Fault /\ UNCHANGED marker
    /\ Continue(d, "fallback")
    /\ UNCHANGED <<port, browser, pausing, late, rescue, overlapped>>

----------------------------------------------------------------------------
(* resumeWhenLatePauseCompletes() *)

LatePause(d) ==
    /\ late[d] = "awaiting"
    /\ \/ /\ pausing[d] = "done"
          /\ late' = [late EXCEPT ![d] = "resuming"]
       \/ /\ pausing[d] = "failed"
          /\ late' = [late EXCEPT ![d] = "clearing"]
    /\ pausing' = [pausing EXCEPT ![d] = "none"]
    /\ UNCHANGED <<port, faults, browser, marker, capture, rescue, overlapped>>

\* If it cannot be resumed now, the marker stays for recover().
LateResume(d) ==
    /\ late[d] = "resuming"
    /\ \/ Resumes(d) /\ late' = [late EXCEPT ![d] = "clearing"]
       \/ ResumeFails(d) /\ late' = [late EXCEPT ![d] = "none"]
    /\ UNCHANGED <<port, pausing, marker, capture, rescue, overlapped>>

LateClear(d) ==
    /\ late[d] = "clearing"
    /\ \/ Remove(d) /\ UNCHANGED faults
       \/ Fault /\ UNCHANGED marker
    /\ late' = [late EXCEPT ![d] = "none"]
    /\ UNCHANGED <<port, browser, pausing, capture, rescue, overlapped>>

----------------------------------------------------------------------------
(* recover(), at startup, at installation and at an alarm each minute *)

Rescue(d, place) ==
    rescue' = [rescue EXCEPT ![d] = [at |-> place, seen |-> @.seen]]

EndRescue(d) == rescue' = [rescue EXCEPT ![d] = AtRest]

\* capture() or what it has left behind is still at work on the download.
Busy(d) ==
    \/ capture[d] \in Working
    \/ late[d] # "none"
    \/ pausing[d] # "none"

\* list(): the marker it reads now decides later.
List(d) ==
    /\ rescue[d] = AtRest
    /\ marker[d] # "none"
    /\ rescue' = [rescue EXCEPT ![d] = [at |-> "listed", seen |-> marker[d]]]
    /\ overlapped' = [overlapped EXCEPT ![d] = @ \/ Busy(d)]
    /\ UNCHANGED <<port, faults, browser, pausing, marker, capture, late>>

\* A mutant of Find: the branch is named by the state of the download.
FindState(d) ==
    /\ rescue[d].at = "listed"
    /\ Rescue(d, browser[d])
    /\ UNCHANGED <<port, faults, browser, pausing, marker, capture, late,
                   overlapped>>

\* A mutant of Find: only accepted captures are recovered.
FindAccepted(d) ==
    /\ rescue[d].at = "listed"
    /\ Rescue(d, IF rescue[d].seen = "accepted" THEN "cancelling" ELSE "removing")
    /\ UNCHANGED <<port, faults, browser, pausing, marker, capture, late,
                   overlapped>>

\* find(): gone, accepted, paused in progress, or anything else.
Find(d) ==
    /\ rescue[d].at = "listed"
    /\ Rescue(d, IF rescue[d].seen = "accepted" /\ browser[d] # "erased"
                 THEN "cancelling"
                 ELSE IF browser[d] = "paused" THEN "resuming" ELSE "removing")
    /\ UNCHANGED <<port, faults, browser, pausing, marker, capture, late,
                   overlapped>>

RescueCancels(d) ==
    /\ rescue[d].at = "cancelling"
    /\ Cancels(d)
    /\ Rescue(d, "removing")
    /\ UNCHANGED <<port, pausing, marker, capture, late, overlapped>>

RescueResumes(d) ==
    /\ rescue[d].at = "resuming"
    /\ \/ Resumes(d) /\ Rescue(d, "removing")
       \/ ResumeFails(d) /\ EndRescue(d)
    /\ UNCHANGED <<port, pausing, marker, capture, late, overlapped>>

\* A mutant of RescueRemoves: the marker stays.
RescueKeeps(d) ==
    /\ rescue[d].at = "removing"
    /\ EndRescue(d)
    /\ UNCHANGED <<port, faults, browser, pausing, marker, capture, late,
                   overlapped>>

RescueRemoves(d) ==
    /\ rescue[d].at = "removing"
    /\ Remove(d)
    /\ EndRescue(d)
    /\ UNCHANGED <<port, faults, browser, pausing, capture, late, overlapped>>

\* Any call of recoverCapture may fail: the marker stays.
RescueFails(d) ==
    /\ rescue[d] # AtRest
    /\ Fault
    /\ EndRescue(d)
    /\ UNCHANGED <<port, browser, pausing, marker, capture, late, overlapped>>

----------------------------------------------------------------------------
(* The browser and the service worker *)

\* The result of a pause, which is dropped if the worker that asked has ended.
Result(d, result) ==
    IF capture[d] = "pausing" \/ late[d] = "awaiting" THEN result ELSE "none"

\* The browser pauses the download, or reports that it cannot.
BrowserPauses(d) ==
    /\ pausing[d] = "pending"
    /\ \/ /\ browser[d] \in Active
          /\ browser' = [browser EXCEPT ![d] = "paused"]
          /\ pausing' = [pausing EXCEPT ![d] = Result(d, "done")]
          /\ UNCHANGED faults
       \/ /\ \/ browser[d] \notin Active /\ UNCHANGED faults
             \/ Fault
          /\ pausing' = [pausing EXCEPT ![d] = Result(d, "failed")]
          /\ UNCHANGED browser
    /\ UNCHANGED <<port, marker, capture, late, rescue, overlapped>>

Completes(d) ==
    /\ browser[d] = "running"
    /\ browser' = [browser EXCEPT ![d] = "complete"]
    /\ UNCHANGED <<port, faults, pausing, marker, capture, late, rescue,
                   overlapped>>

\* The user clears a finished download from the browser's list.
Erase(d) ==
    /\ browser[d] = "complete"
    /\ browser' = [browser EXCEPT ![d] = "erased"]
    /\ UNCHANGED <<port, faults, pausing, marker, capture, late, rescue,
                   overlapped>>

\* The service worker ends: only the markers and the pause call survive it.
Stops(calls) ==
    /\ pausing' = calls
    /\ capture' = [d \in Requests |->
                      IF capture[d] \in Working THEN "dead" ELSE capture[d]]
    /\ late' = [d \in Requests |-> "none"]
    /\ rescue' = [d \in Requests |-> AtRest]
    /\ UNCHANGED <<port, marker, overlapped>>

\* A result nobody waits for any more is dropped.
Forgotten ==
    [d \in Requests |-> IF pausing[d] = "pending" THEN "pending" ELSE "none"]

WorkerDies ==
    /\ Fault
    /\ Stops(Forgotten)
    /\ UNCHANGED browser

\* The browser ends with it: what was in progress is interrupted.
BrowserRestarts ==
    /\ Fault
    /\ Stops([d \in Requests |-> "none"])
    /\ browser' = [d \in Requests |->
                      IF browser[d] \in Active THEN "interrupted" ELSE browser[d]]

----------------------------------------------------------------------------
\* The steps capture() takes, given the answers to its calls.
Proceed(d) ==
    \/ Observe(d) \/ MarkObserved(d)
    \/ PauseSucceeds(d) \/ PauseFails(d) \/ PauseTimesOut(d)
    \/ ClearUnaccepted(d) \/ MarkPaused(d) \/ SendRequest(d)
    \/ HostAccepts(d) \/ HostRejects(d) \/ GiveUp(d)
    \/ MarkAccepted(d) \/ Cancel(d) \/ MarkAgain(d) \/ ClearAccepted(d)
    \/ ResumeBrowser(d) \/ Unmark(d)

ProceedLate(d) == LatePause(d) \/ LateResume(d) \/ LateClear(d)

ProceedRescue(d) ==
    \/ List(d) \/ Find(d)
    \/ RescueCancels(d) \/ RescueResumes(d) \/ RescueRemoves(d)

CaptureStep ==
    \/ \E d \in Requests :
         \/ Proceed(d) \/ ConnectFails(d) \/ CancelFails(d)
         \/ ProceedLate(d)
         \/ ProceedRescue(d) \/ RescueFails(d)
         \/ BrowserPauses(d) \/ Completes(d) \/ Erase(d)
    \/ WorkerDies
    \/ BrowserRestarts
============================================================================
