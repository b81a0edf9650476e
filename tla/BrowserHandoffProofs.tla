------------------------ MODULE BrowserHandoffProofs -----------------------
(* Proofs about BrowserHandoff for any downloads, keys and number of faults. *)
EXTENDS BrowserHandoff, DurableInboxProofs

\* The directory's files are its envelopes and the scans they have overtaken.
USE DEF inbox

----------------------------------------------------------------------------
(* The inductive invariant: the inbox's, and four parts for the handoff *)

\* capture() acts on an acceptance it has been given.
Convinced == {"accepting", "cancelling marked", "cancelling unmarked",
              "remarking", "forgetting", "cancel pending", "handed off"}

\* Whatever says that a download has been accepted goes back to the host's word.
WordOf(d) ==
    /\ \/ capture[d] \in Convinced
       \/ marker[d] = "accepted"
       \/ rescue[d].seen = "accepted"
       \/ browser[d] = "cancelled"
       => port[d] = "accepted"
    /\ rescue[d].at = "cancelling" => rescue[d].seen = "accepted"

WordInv == \A d \in Requests : WordOf(d)

\* A pause is waited for by capture() or by what capture() leaves behind, and
\* outlives them only while it is pending.
PauseOf(d) ==
    /\ capture[d] \in {"idle", "observing"} =>
         marker[d] = "none" /\ rescue[d] = AtRest
    /\ capture[d] \in (Working \ {"pausing"}) \union {"idle"} =>
         pausing[d] = "none"
    /\ capture[d] \in Working \union {"idle"} => late[d] = "none"
    /\ late[d] \in {"resuming", "clearing"} => pausing[d] = "none"

PauseInv == \A d \in Requests : PauseOf(d)

\* Where the code is about to forget a download, the browser does not hold it.
LetGo(d) ==
    \/ capture[d] \in {"idle", "observing", "clearing", "unmarking", "forgetting"}
    \/ late[d] = "clearing"
    \/ pausing[d] \in {"pending", "failed"}

LetGoOf(d) == LetGo(d) => browser[d] # "paused"

LetGoInv == \A d \in Requests : LetGoOf(d)

\* A recover() that has begun after capture() has ended works alone, and a
\* download that is paused, or will be, has its marker.
DebtOf(d) ==
    ~overlapped[d] =>
        /\ rescue[d] # AtRest => ~Busy(d)
        /\ rescue[d].at = "removing" => browser[d] # "paused"
        /\ browser[d] = "paused" \/ pausing[d] = "pending"
           => marker[d] # "none"

DebtInv == \A d \in Requests : DebtOf(d)

HandoffInv ==
    /\ IInv /\ CaptureType
    /\ WordInv /\ PauseInv /\ LetGoInv /\ DebtInv

\* Rows come from claimed files, and the user removes no more than there are.
RowInv ==
    \A t \in Requests :
        /\ rows[t] > 0 => envelope[t] \in {"claimed", "quarantined", "unlinked"}
        /\ gone[t] <= rows[t]

\* No two requests are of one key, or the user removes no rows.
Separate ==
    \/ ~UserRemoves
    \/ \A r, s \in Requests : KeyOf[r] = KeyOf[s] => r = s

\* Then a host never meets the record of another request ...
SoleInv ==
    UserRemoves =>
        \A r \in Requests :
            /\ host[r] \in {"idle", "locking", "looking", "scanning", "staging"} =>
                 envelope[r] = "none" /\ record[KeyOf[r]] = NoTransfer
            /\ host[r] = "recording" => transfer[r] = r
            /\ host[r] # "ensuring"

\* ... and what the user has removed was there when the host accepted it.
RemovedInv ==
    /\ ~UserRemoves => \A t \in Requests : gone[t] = 0
    /\ \A r \in Requests :
         /\ Granted(r)
         /\ rows[transfer[r]] > 0
         /\ gone[transfer[r]] = rows[transfer[r]]
         => r \in disposed

KeptInv == RowInv /\ SoleInv /\ RemovedInv

----------------------------------------------------------------------------
(* The steps of the extension and the browser *)

\* A step that is about one download.
Own(d) ==
    \/ Proceed(d) \/ ConnectFails(d) \/ CancelFails(d)
    \/ ProceedLate(d) \/ ProceedRescue(d) \/ RescueFails(d)
    \/ BrowserPauses(d) \/ Completes(d) \/ Erase(d)

\* What recover() has at work on a download.
LEMMA Seen ==
    ASSUME CaptureType, NEW d \in Requests, rescue[d] # AtRest
    PROVE  /\ rescue[d].at \in {"listed", "cancelling", "resuming", "removing"}
           /\ rescue[d].seen \in Markers \ {"none"}
BY DEF CaptureType, RescueStates

LEMMA AtRestFields == AtRest.at = "idle" /\ AtRest.seen = "none"
BY DEF AtRest

\* Where it goes on, only its own download moves, and it keeps what it has seen.
LEMMA RescueMoves ==
    ASSUME CaptureType, NEW d \in Requests, rescue[d] # AtRest,
           NEW place \in {"cancelling", "resuming", "removing"},
           Rescue(d, place)
    PROVE  /\ rescue' \in [Requests -> RescueStates]
           /\ rescue'[d] # AtRest
           /\ rescue'[d].at = place /\ rescue'[d].seen = rescue[d].seen
           /\ \A e \in Requests : e # d => rescue'[e] = rescue[e]
<1> DEFINE next == [at |-> place, seen |-> rescue[d].seen]
<1>1. next \in RescueStates /\ next # AtRest
  BY Seen DEF RescueStates, AtRest
<1>2. rescue' = [rescue EXCEPT ![d] = next]
  BY DEF Rescue
<1>3. rescue \in [Requests -> RescueStates]
  BY DEF CaptureType
<1>4. next.at = place /\ next.seen = rescue[d].seen
  OBVIOUS
<1> HIDE DEF next
<1>5. rescue'[d] = next /\ \A e \in Requests : e # d => rescue'[e] = rescue[e]
  BY <1>2, <1>3
<1> QED BY <1>1, <1>2, <1>3, <1>4, <1>5

LEMMA RescueEnds ==
    ASSUME CaptureType, NEW d \in Requests, EndRescue(d)
    PROVE  /\ rescue' \in [Requests -> RescueStates]
           /\ rescue'[d] = AtRest
           /\ \A e \in Requests : e # d => rescue'[e] = rescue[e]
BY DEF CaptureType, EndRescue, RescueStates

\* list() finds a marker.
LEMMA RescueBegins ==
    ASSUME CaptureType, NEW d \in Requests, List(d)
    PROVE  /\ rescue' \in [Requests -> RescueStates]
           /\ rescue'[d] # AtRest
           /\ rescue'[d].at = "listed" /\ rescue'[d].seen = marker[d]
           /\ \A e \in Requests : e # d => rescue'[e] = rescue[e]
<1> DEFINE next == [at |-> "listed", seen |-> marker[d]]
<1>1. next \in RescueStates /\ next # AtRest
  BY DEF List, CaptureType, RescueStates, AtRest
<1>2. rescue' = [rescue EXCEPT ![d] = next]
  BY DEF List
<1>3. rescue \in [Requests -> RescueStates]
  BY DEF CaptureType
<1>4. next.at = "listed" /\ next.seen = marker[d]
  OBVIOUS
<1> HIDE DEF next
<1>5. rescue'[d] = next /\ \A e \in Requests : e # d => rescue'[e] = rescue[e]
  BY <1>2, <1>3
<1> QED BY <1>1, <1>2, <1>3, <1>4, <1>5

\* find() decides by what list() has seen and by what the browser says now.
LEMMA RescueFinds ==
    ASSUME CaptureType, NEW d \in Requests, Find(d)
    PROVE  /\ rescue[d] # AtRest /\ rescue'[d] # AtRest
           /\ rescue' \in [Requests -> RescueStates]
           /\ \A e \in Requests : e # d => rescue'[e] = rescue[e]
           /\ rescue'[d].seen = rescue[d].seen
           /\ rescue'[d].at \in {"cancelling", "resuming", "removing"}
           /\ rescue'[d].at = "cancelling" => rescue[d].seen = "accepted"
           /\ rescue'[d].at = "removing" => browser[d] # "paused"
<1>1. rescue[d] # AtRest
  BY AtRestFields DEF Find
<1>2. PICK place \in {"cancelling", "resuming", "removing"} :
        /\ Rescue(d, place)
        /\ place = "cancelling" => rescue[d].seen = "accepted"
        /\ place = "removing" => browser[d] # "paused"
  BY Zenon DEF Find
<1> QED BY <1>1, <1>2, RescueMoves

\* Whatever recover() does, it does to the download it is at work on.
LEMMA RescueSteps ==
    ASSUME CaptureType, NEW d \in Requests,
           \/ Find(d) \/ RescueCancels(d) \/ RescueResumes(d)
           \/ RescueRemoves(d) \/ RescueFails(d)
    PROVE  /\ rescue[d] # AtRest
           /\ rescue' \in [Requests -> RescueStates]
           /\ \A e \in Requests : e # d => rescue'[e] = rescue[e]
<1>1. rescue[d] # AtRest
  BY AtRestFields DEF Find, RescueCancels, RescueResumes, RescueRemoves,
     RescueFails
<1>2. CASE Find(d)
  BY <1>2, RescueFinds
<1>3. CASE ~Find(d)
  <2>1. Rescue(d, "removing") \/ EndRescue(d)
    BY <1>3 DEF RescueCancels, RescueResumes, RescueRemoves, RescueFails
  <2> QED BY <1>1, <2>1, RescueMoves, RescueEnds
<1> QED BY <1>2, <1>3

\* The steps of the extension and of the browser keep the types.
LEMMA CaptureTypes ==
    ASSUME CaptureType, CaptureStep
    PROVE  CaptureType'
<1> USE DEF CaptureType, BrowserStates, PauseStates, Markers, Working, Outcomes,
        CaptureStates, LateStates
<1>1. ASSUME NEW d \in Requests, Observe(d) PROVE CaptureType'
  BY <1>1 DEF Observe, Continue
<1>2. ASSUME NEW d \in Requests, MarkObserved(d) PROVE CaptureType'
  BY <1>2 DEF MarkObserved, Save, Continue
<1>3. ASSUME NEW d \in Requests, PauseSucceeds(d) PROVE CaptureType'
  BY <1>3 DEF PauseSucceeds, Continue
<1>4. ASSUME NEW d \in Requests, PauseFails(d) PROVE CaptureType'
  BY <1>4 DEF PauseFails, Continue
<1>5. ASSUME NEW d \in Requests, PauseTimesOut(d) PROVE CaptureType'
  BY <1>5 DEF PauseTimesOut, Continue
<1>6. ASSUME NEW d \in Requests, ClearUnaccepted(d) PROVE CaptureType'
  BY <1>6 DEF ClearUnaccepted, Remove, Save, Continue
<1>7. ASSUME NEW d \in Requests, MarkPaused(d) PROVE CaptureType'
  BY <1>7 DEF MarkPaused, Save, Continue
<1>8. ASSUME NEW d \in Requests, SendRequest(d) PROVE CaptureType'
  BY <1>8 DEF SendRequest, Post, Continue
<1>9. ASSUME NEW d \in Requests, HostAccepts(d) PROVE CaptureType'
  BY <1>9 DEF HostAccepts, Continue
<1>10. ASSUME NEW d \in Requests, HostRejects(d) PROVE CaptureType'
  BY <1>10 DEF HostRejects, Continue
<1>11. ASSUME NEW d \in Requests, GiveUp(d) PROVE CaptureType'
  BY <1>11 DEF GiveUp, Continue
<1>12. ASSUME NEW d \in Requests, MarkAccepted(d) PROVE CaptureType'
  BY <1>12 DEF MarkAccepted, Save, Continue
<1>13. ASSUME NEW d \in Requests, Cancel(d) PROVE CaptureType'
  BY <1>13 DEF Cancel, Cancels, Continue
<1>14. ASSUME NEW d \in Requests, MarkAgain(d) PROVE CaptureType'
  BY <1>14 DEF MarkAgain, Save, Continue
<1>15. ASSUME NEW d \in Requests, ClearAccepted(d) PROVE CaptureType'
  BY <1>15 DEF ClearAccepted, Remove, Save, Continue
<1>16. ASSUME NEW d \in Requests, ResumeBrowser(d) PROVE CaptureType'
  BY <1>16 DEF ResumeBrowser, Resumes, ResumeFails, Continue
<1>17. ASSUME NEW d \in Requests, Unmark(d) PROVE CaptureType'
  BY <1>17 DEF Unmark, Remove, Save, Continue
<1>18. ASSUME NEW d \in Requests, ConnectFails(d) PROVE CaptureType'
  BY <1>18 DEF ConnectFails, Continue
<1>19. ASSUME NEW d \in Requests, CancelFails(d) PROVE CaptureType'
  BY <1>19 DEF CancelFails, Continue
<1>20. ASSUME NEW d \in Requests, LatePause(d) PROVE CaptureType'
  BY <1>20 DEF LatePause
<1>21. ASSUME NEW d \in Requests, LateResume(d) PROVE CaptureType'
  BY <1>21 DEF LateResume, Resumes, ResumeFails
<1>22. ASSUME NEW d \in Requests, LateClear(d) PROVE CaptureType'
  BY <1>22 DEF LateClear, Remove, Save
<1>23. ASSUME NEW d \in Requests, List(d) PROVE CaptureType'
  <2>1. rescue' \in [Requests -> RescueStates]
    BY <1>23, RescueBegins
  <2> QED BY <1>23, <2>1 DEF List
<1>24. ASSUME NEW d \in Requests, Find(d) PROVE CaptureType'
  <2>1. rescue' \in [Requests -> RescueStates]
    BY <1>24, RescueSteps
  <2> QED BY <1>24, <2>1 DEF Find
<1>25. ASSUME NEW d \in Requests, RescueCancels(d) PROVE CaptureType'
  <2>1. rescue' \in [Requests -> RescueStates]
    BY <1>25, RescueSteps
  <2> QED BY <1>25, <2>1 DEF RescueCancels, Cancels
<1>26. ASSUME NEW d \in Requests, RescueResumes(d) PROVE CaptureType'
  <2>1. rescue' \in [Requests -> RescueStates]
    BY <1>26, RescueSteps
  <2> QED BY <1>26, <2>1 DEF RescueResumes, Resumes, ResumeFails
<1>27. ASSUME NEW d \in Requests, RescueRemoves(d) PROVE CaptureType'
  <2>1. rescue' \in [Requests -> RescueStates]
    BY <1>27, RescueSteps
  <2> QED BY <1>27, <2>1 DEF RescueRemoves, Remove, Save
<1>28. ASSUME NEW d \in Requests, RescueFails(d) PROVE CaptureType'
  <2>1. rescue' \in [Requests -> RescueStates]
    BY <1>28, RescueSteps
  <2> QED BY <1>28, <2>1 DEF RescueFails
<1>29. ASSUME NEW d \in Requests, BrowserPauses(d) PROVE CaptureType'
  BY <1>29 DEF BrowserPauses, Result
<1>30. ASSUME NEW d \in Requests, Completes(d) PROVE CaptureType'
  BY <1>30 DEF Completes
<1>31. ASSUME NEW d \in Requests, Erase(d) PROVE CaptureType'
  BY <1>31 DEF Erase
<1>32. ASSUME WorkerDies PROVE CaptureType'
  BY <1>32 DEF WorkerDies, Stops, Forgotten, RescueStates
<1>33. ASSUME BrowserRestarts PROVE CaptureType'
  BY <1>33 DEF BrowserRestarts, Stops, RescueStates
<1> QED BY <1>1, <1>2, <1>3, <1>4, <1>5, <1>6, <1>7, <1>8, <1>9, <1>10, <1>11,
     <1>12, <1>13, <1>14, <1>15, <1>16, <1>17, <1>18, <1>19, <1>20, <1>21,
     <1>22, <1>23, <1>24, <1>25, <1>26, <1>27, <1>28, <1>29, <1>30, <1>31,
     <1>32, <1>33
     DEF CaptureStep, Proceed, ProceedLate, ProceedRescue

\* ... and such a step leaves every other download alone.
LEMMA OthersStay ==
    ASSUME CaptureType, NEW d \in Requests, Own(d), NEW e \in Requests, e # d
    PROVE  /\ browser'[e] = browser[e] /\ pausing'[e] = pausing[e]
           /\ marker'[e] = marker[e] /\ capture'[e] = capture[e]
           /\ late'[e] = late[e] /\ rescue'[e] = rescue[e]
           /\ overlapped'[e] = overlapped[e]
<1> USE DEF CaptureType
<1> DEFINE Stay ==
       /\ browser'[e] = browser[e] /\ pausing'[e] = pausing[e]
       /\ marker'[e] = marker[e] /\ capture'[e] = capture[e]
       /\ late'[e] = late[e] /\ rescue'[e] = rescue[e]
       /\ overlapped'[e] = overlapped[e]
<1>1. CASE Observe(d)
  BY <1>1 DEF Observe, Continue
<1>2. CASE MarkObserved(d)
  BY <1>2 DEF MarkObserved, Save, Continue
<1>3. CASE PauseSucceeds(d)
  BY <1>3 DEF PauseSucceeds, Continue
<1>4. CASE PauseFails(d)
  BY <1>4 DEF PauseFails, Continue
<1>5. CASE PauseTimesOut(d)
  BY <1>5 DEF PauseTimesOut, Continue
<1>6. CASE ClearUnaccepted(d)
  BY <1>6 DEF ClearUnaccepted, Remove, Save, Continue
<1>7. CASE MarkPaused(d)
  BY <1>7 DEF MarkPaused, Save, Continue
<1>8. CASE SendRequest(d)
  BY <1>8 DEF SendRequest, Post, Continue
<1>9. CASE HostAccepts(d)
  BY <1>9 DEF HostAccepts, Continue
<1>10. CASE HostRejects(d)
  BY <1>10 DEF HostRejects, Continue
<1>11. CASE GiveUp(d)
  BY <1>11 DEF GiveUp, Continue
<1>12. CASE MarkAccepted(d)
  BY <1>12 DEF MarkAccepted, Save, Continue
<1>13. CASE Cancel(d)
  BY <1>13 DEF Cancel, Cancels, Continue
<1>14. CASE MarkAgain(d)
  BY <1>14 DEF MarkAgain, Save, Continue
<1>15. CASE ClearAccepted(d)
  BY <1>15 DEF ClearAccepted, Remove, Save, Continue
<1>16. CASE ResumeBrowser(d)
  BY <1>16 DEF ResumeBrowser, Resumes, ResumeFails, Continue
<1>17. CASE Unmark(d)
  BY <1>17 DEF Unmark, Remove, Save, Continue
<1>18. CASE ConnectFails(d)
  BY <1>18 DEF ConnectFails, Continue
<1>19. CASE CancelFails(d)
  BY <1>19 DEF CancelFails, Continue
<1>20. CASE LatePause(d)
  BY <1>20 DEF LatePause
<1>21. CASE LateResume(d)
  BY <1>21 DEF LateResume, Resumes, ResumeFails
<1>22. CASE LateClear(d)
  BY <1>22 DEF LateClear, Remove, Save
<1>23. CASE List(d)
  BY <1>23, RescueBegins DEF List
<1>24. CASE Find(d)
  BY <1>24, RescueSteps DEF Find
<1>25. CASE RescueCancels(d)
  BY <1>25, RescueSteps DEF RescueCancels, Cancels
<1>26. CASE RescueResumes(d)
  BY <1>26, RescueSteps DEF RescueResumes, Resumes, ResumeFails
<1>27. CASE RescueRemoves(d)
  BY <1>27, RescueSteps DEF RescueRemoves, Remove, Save
<1>28. CASE RescueFails(d)
  BY <1>28, RescueSteps DEF RescueFails
<1>29. CASE BrowserPauses(d)
  BY <1>29 DEF BrowserPauses
<1>30. CASE Completes(d)
  BY <1>30 DEF Completes
<1>31. CASE Erase(d)
  BY <1>31 DEF Erase
<1> QED BY <1>1, <1>2, <1>3, <1>4, <1>5, <1>6, <1>7, <1>8, <1>9, <1>10, <1>11,
     <1>12, <1>13, <1>14, <1>15, <1>16, <1>17, <1>18, <1>19, <1>20, <1>21,
     <1>22, <1>23, <1>24, <1>25, <1>26, <1>27, <1>28, <1>29, <1>30, <1>31
     DEF Own, Proceed, ProceedLate, ProceedRescue

\* The extension's only step on the port is to ask.
LEMMA PortMoves ==
    ASSUME PortType, NEW d \in Requests, Own(d), NEW e \in Requests
    PROVE  port[e] = "accepted" => port'[e] = "accepted"
<1> USE DEF PortType
<1>1. CASE SendRequest(d)
  BY <1>1 DEF SendRequest, Post
<1>2. CASE ~SendRequest(d)
  BY <1>2 DEF Own, Proceed, ProceedLate, ProceedRescue, Observe, MarkObserved,
     PauseSucceeds, PauseFails, PauseTimesOut, ClearUnaccepted, MarkPaused,
     HostAccepts, HostRejects, GiveUp, MarkAccepted, Cancel, MarkAgain,
     ClearAccepted, ResumeBrowser, Unmark, ConnectFails, CancelFails,
     LatePause, LateResume, LateClear, List, Find, RescueCancels,
     RescueResumes, RescueRemoves, RescueFails, BrowserPauses, Completes, Erase
<1> QED BY <1>1, <1>2

\* They act on acceptance only where the host has accepted.
LEMMA WordKept ==
    ASSUME HandoffInv, NEW d \in Requests, Own(d)
    PROVE  WordOf(d)'
<1>0. CaptureType /\ WordOf(d) /\ PortType
  BY DEF HandoffInv, IInv, TypeOK, WordInv
<1> USE <1>0 DEF PortType, CaptureType, BrowserStates, PauseStates, Markers,
        Working, Outcomes, CaptureStates, LateStates, WordOf, Convinced, Active
<1>1. CASE Observe(d)
  BY <1>1 DEF Observe, Continue
<1>2. CASE MarkObserved(d)
  <2>1. CASE /\ Save(d, "observed") /\ Continue(d, "pausing")
            /\ pausing' = [pausing EXCEPT ![d] = "pending"]
    <3>1. /\ capture'[d] = "pausing" /\ marker'[d] = "observed"
          /\ UNCHANGED <<rescue, browser, port>>
      BY <1>2, <2>1 DEF MarkObserved, Save, Continue
    <3> QED BY <3>1
  <2>2. CASE Continue(d, "clearing") /\ UNCHANGED <<marker, pausing>>
    BY <1>2, <2>2 DEF MarkObserved, Save, Continue
  <2> QED BY <1>2, <2>1, <2>2 DEF MarkObserved
<1>3. CASE PauseSucceeds(d)
  BY <1>3 DEF PauseSucceeds, Continue
<1>4. CASE PauseFails(d)
  BY <1>4 DEF PauseFails, Continue
<1>5. CASE PauseTimesOut(d)
  BY <1>5 DEF PauseTimesOut, Continue
<1>6. CASE ClearUnaccepted(d)
  BY <1>6 DEF ClearUnaccepted, Remove, Save, Continue
<1>7. CASE MarkPaused(d)
  <2>1. CASE Save(d, "paused") /\ Continue(d, "connecting")
    BY <1>7, <2>1 DEF MarkPaused, Save, Continue
  <2>2. CASE Continue(d, "resuming") /\ UNCHANGED marker
    BY <1>7, <2>2 DEF MarkPaused, Save, Continue
  <2> QED BY <1>7, <2>1, <2>2 DEF MarkPaused
<1>8. CASE SendRequest(d)
  BY <1>8 DEF SendRequest, Post, Continue
<1>9. CASE HostAccepts(d)
  BY <1>9 DEF HostAccepts, Continue
<1>10. CASE HostRejects(d)
  BY <1>10 DEF HostRejects, Continue
<1>11. CASE GiveUp(d)
  BY <1>11 DEF GiveUp, Continue
<1>12. CASE MarkAccepted(d)
  <2>1. CASE Save(d, "accepted") /\ Continue(d, "cancelling marked")
    BY <1>12, <2>1 DEF MarkAccepted, Save, Continue
  <2>2. CASE Continue(d, "cancelling unmarked") /\ UNCHANGED marker
    BY <1>12, <2>2 DEF MarkAccepted, Save, Continue
  <2> QED BY <1>12, <2>1, <2>2 DEF MarkAccepted
<1>13. CASE Cancel(d)
  BY <1>13 DEF Cancel, Cancels, Continue
<1>14. CASE MarkAgain(d)
  <2>1. CASE Save(d, "accepted") /\ Continue(d, "cancel pending")
    BY <1>14, <2>1 DEF MarkAgain, Save, Continue
  <2>2. CASE Continue(d, "resuming") /\ UNCHANGED marker
    BY <1>14, <2>2 DEF MarkAgain, Save, Continue
  <2> QED BY <1>14, <2>1, <2>2 DEF MarkAgain
<1>15. CASE ClearAccepted(d)
  BY <1>15 DEF ClearAccepted, Remove, Save, Continue
<1>16. CASE ResumeBrowser(d)
  <2>1. CASE Resumes(d) /\ Continue(d, "unmarking")
    BY <1>16, <2>1 DEF ResumeBrowser, Resumes, ResumeFails, Continue
  <2>2. CASE ResumeFails(d) /\ Continue(d, "resume failed")
    BY <1>16, <2>2 DEF ResumeBrowser, Resumes, ResumeFails, Continue
  <2> QED BY <1>16, <2>1, <2>2 DEF ResumeBrowser
<1>17. CASE Unmark(d)
  BY <1>17 DEF Unmark, Remove, Save, Continue
<1>18. CASE ConnectFails(d)
  BY <1>18 DEF ConnectFails, Continue
<1>19. CASE CancelFails(d)
  <2>1. CASE capture[d] = "cancelling marked" /\ Continue(d, "cancel pending")
    BY <1>19, <2>1 DEF CancelFails, Continue
  <2>2. CASE capture[d] = "cancelling unmarked" /\ Continue(d, "remarking")
    BY <1>19, <2>2 DEF CancelFails, Continue
  <2> QED BY <1>19, <2>1, <2>2 DEF CancelFails
<1>20. CASE LatePause(d)
  <2>1. CASE pausing[d] = "done" /\ late' = [late EXCEPT ![d] = "resuming"]
    BY <1>20, <2>1 DEF LatePause
  <2>2. CASE pausing[d] = "failed" /\ late' = [late EXCEPT ![d] = "clearing"]
    BY <1>20, <2>2 DEF LatePause
  <2> QED BY <1>20, <2>1, <2>2 DEF LatePause
<1>21. CASE LateResume(d)
  <2>1. CASE Resumes(d) /\ late' = [late EXCEPT ![d] = "clearing"]
    BY <1>21, <2>1 DEF LateResume, Resumes, ResumeFails
  <2>2. CASE ResumeFails(d) /\ late' = [late EXCEPT ![d] = "none"]
    BY <1>21, <2>2 DEF LateResume, Resumes, ResumeFails
  <2> QED BY <1>21, <2>1, <2>2 DEF LateResume
<1>22. CASE LateClear(d)
  BY <1>22 DEF LateClear, Remove, Save
<1>23. CASE List(d)
  BY <1>23, RescueBegins DEF List, Busy
<1>24. CASE Find(d)
  <2>1. /\ rescue[d] # AtRest /\ rescue'[d] # AtRest
        /\ rescue'[d].seen = rescue[d].seen
        /\ rescue'[d].at \in {"cancelling", "resuming", "removing"}
        /\ rescue'[d].at = "cancelling" => rescue[d].seen = "accepted"
        /\ rescue'[d].at = "removing" => browser[d] # "paused"
    BY <1>24, RescueFinds
  <2>2. /\ browser' = browser /\ pausing' = pausing /\ marker' = marker
        /\ capture' = capture /\ late' = late /\ port' = port
        /\ overlapped' = overlapped
    BY <1>24 DEF Find
  <2> QED BY <2>1, <2>2
<1>25. CASE RescueCancels(d)
  <2>1. /\ rescue[d] # AtRest /\ rescue'[d] # AtRest
        /\ rescue'[d].seen = rescue[d].seen
        /\ rescue'[d].at \in {"removing"}
    <3>1. rescue[d] # AtRest
      BY <1>25, RescueSteps
    <3> QED BY <1>25, <3>1, RescueMoves DEF RescueCancels
  <2> QED BY <1>25, <2>1, Seen DEF RescueCancels, Cancels
<1>26. CASE RescueResumes(d)
  <2>1. rescue[d] # AtRest
    BY <1>26, RescueSteps
  <2>2. CASE Resumes(d) /\ Rescue(d, "removing")
    <3>1. /\ rescue'[d] # AtRest /\ rescue'[d].at = "removing"
          /\ rescue'[d].seen = rescue[d].seen
      BY <2>1, <2>2, RescueMoves
    <3> QED BY <1>26, <2>1, <2>2, <3>1 DEF RescueResumes, Resumes
  <2>3. CASE ResumeFails(d) /\ EndRescue(d)
    <3>1. rescue'[d] = AtRest
      BY <2>3, RescueEnds
    <3> QED BY <1>26, <2>1, <2>3, <3>1, AtRestFields
         DEF RescueResumes, ResumeFails
  <2> QED BY <1>26, <2>2, <2>3 DEF RescueResumes
<1>27. CASE RescueRemoves(d)
  <2>1. rescue'[d] = AtRest
    BY <1>27, RescueEnds DEF RescueRemoves
  <2> QED BY <1>27, <2>1, AtRestFields DEF RescueRemoves, Remove, Save
<1>28. CASE RescueFails(d)
  <2>1. rescue'[d] = AtRest
    BY <1>28, RescueEnds DEF RescueFails
  <2> QED BY <1>28, <2>1, AtRestFields DEF RescueFails
<1>29. CASE BrowserPauses(d)
  <2>1. CASE /\ browser[d] \in Active /\ browser' = [browser EXCEPT ![d] = "paused"]
            /\ pausing' = [pausing EXCEPT ![d] = Result(d, "done")]
    <3>1. browser'[d] = "paused" /\ pausing'[d] \in {"done", "none"}
      BY <1>29, <2>1 DEF BrowserPauses, Result
    <3>2. /\ marker' = marker /\ capture' = capture /\ late' = late
          /\ port' = port /\ rescue' = rescue /\ overlapped' = overlapped
      BY <1>29 DEF BrowserPauses
    <3>3. pausing[d] = "pending"
      BY <1>29 DEF BrowserPauses
    <3> QED BY <3>1, <3>2, <3>3, AtRestFields
  <2>2. CASE /\ pausing' = [pausing EXCEPT ![d] = Result(d, "failed")]
            /\ UNCHANGED browser
    BY <1>29, <2>2 DEF BrowserPauses, Result
  <2> QED BY <1>29, <2>1, <2>2 DEF BrowserPauses
<1>30. CASE Completes(d)
  BY <1>30 DEF Completes
<1>31. CASE Erase(d)
  BY <1>31 DEF Erase
<1> HIDE DEF HandoffInv, IInv, TypeOK, PortType, CaptureType, BrowserStates,
        PauseStates, Markers, Working, Outcomes, CaptureStates, LateStates,
        WordInv, WordOf, Convinced, Active
<1> QED BY <1>1, <1>2, <1>3, <1>4, <1>5, <1>6, <1>7, <1>8, <1>9, <1>10, <1>11,
     <1>12, <1>13, <1>14, <1>15, <1>16, <1>17, <1>18, <1>19, <1>20, <1>21,
     <1>22, <1>23, <1>24, <1>25, <1>26, <1>27, <1>28, <1>29, <1>30, <1>31
     DEF Own, Proceed, ProceedLate, ProceedRescue

LEMMA WordStep ==
    ASSUME HandoffInv, CaptureStep
    PROVE  WordInv'
<1>1. ASSUME NEW d \in Requests, Own(d) PROVE WordInv'
  <2>1. WordOf(d)'
    BY <1>1, WordKept
  <2>2. ASSUME NEW e \in Requests, e # d PROVE WordOf(e)'
    <3>1. WordOf(e)
      BY DEF HandoffInv, WordInv
    <3> QED BY <1>1, <2>2, <3>1, OthersStay, PortMoves
         DEF HandoffInv, IInv, TypeOK, WordOf
  <2> QED BY <2>1, <2>2 DEF WordInv
<1>2. ASSUME WorkerDies PROVE WordInv'
  BY <1>2, AtRestFields DEF WorkerDies, Stops, Forgotten, HandoffInv, IInv,
     TypeOK, PortType, CaptureType, BrowserStates, PauseStates, Markers,
     Working, Outcomes, CaptureStates, LateStates, WordInv, WordOf, Convinced,
     Active
<1>3. ASSUME BrowserRestarts PROVE WordInv'
  BY <1>3, AtRestFields DEF BrowserRestarts, Stops, HandoffInv, IInv, TypeOK,
     PortType, CaptureType, BrowserStates, PauseStates, Markers, Working,
     Outcomes, CaptureStates, LateStates, WordInv, WordOf, Convinced, Active
<1> QED BY <1>1, <1>2, <1>3 DEF CaptureStep, Own

\* They leave no pause behind.
LEMMA PauseKept ==
    ASSUME HandoffInv, NEW d \in Requests, Own(d)
    PROVE  PauseOf(d)'
<1> USE DEF HandoffInv, CaptureType, BrowserStates, PauseStates, Markers,
        Working, Outcomes, CaptureStates, LateStates, PauseInv, PauseOf
<1>1. CASE Observe(d)
  BY <1>1 DEF Observe, Continue
<1>2. CASE MarkObserved(d)
  <2>1. CASE /\ Save(d, "observed") /\ Continue(d, "pausing")
            /\ pausing' = [pausing EXCEPT ![d] = "pending"]
    BY <1>2, <2>1 DEF MarkObserved, Save, Continue
  <2>2. CASE Continue(d, "clearing") /\ UNCHANGED <<marker, pausing>>
    BY <1>2, <2>2 DEF MarkObserved, Save, Continue
  <2> QED BY <1>2, <2>1, <2>2 DEF MarkObserved
<1>3. CASE PauseSucceeds(d)
  BY <1>3 DEF PauseSucceeds, Continue
<1>4. CASE PauseFails(d)
  BY <1>4 DEF PauseFails, Continue
<1>5. CASE PauseTimesOut(d)
  BY <1>5 DEF PauseTimesOut, Continue
<1>6. CASE ClearUnaccepted(d)
  BY <1>6 DEF ClearUnaccepted, Remove, Save, Continue
<1>7. CASE MarkPaused(d)
  <2>1. CASE Save(d, "paused") /\ Continue(d, "connecting")
    BY <1>7, <2>1 DEF MarkPaused, Save, Continue
  <2>2. CASE Continue(d, "resuming") /\ UNCHANGED marker
    BY <1>7, <2>2 DEF MarkPaused, Save, Continue
  <2> QED BY <1>7, <2>1, <2>2 DEF MarkPaused
<1>8. CASE SendRequest(d)
  BY <1>8 DEF SendRequest, Post, Continue
<1>9. CASE HostAccepts(d)
  BY <1>9 DEF HostAccepts, Continue
<1>10. CASE HostRejects(d)
  BY <1>10 DEF HostRejects, Continue
<1>11. CASE GiveUp(d)
  BY <1>11 DEF GiveUp, Continue
<1>12. CASE MarkAccepted(d)
  <2>1. CASE Save(d, "accepted") /\ Continue(d, "cancelling marked")
    BY <1>12, <2>1 DEF MarkAccepted, Save, Continue
  <2>2. CASE Continue(d, "cancelling unmarked") /\ UNCHANGED marker
    BY <1>12, <2>2 DEF MarkAccepted, Save, Continue
  <2> QED BY <1>12, <2>1, <2>2 DEF MarkAccepted
<1>13. CASE Cancel(d)
  BY <1>13 DEF Cancel, Cancels, Continue
<1>14. CASE MarkAgain(d)
  <2>1. CASE Save(d, "accepted") /\ Continue(d, "cancel pending")
    BY <1>14, <2>1 DEF MarkAgain, Save, Continue
  <2>2. CASE Continue(d, "resuming") /\ UNCHANGED marker
    BY <1>14, <2>2 DEF MarkAgain, Save, Continue
  <2> QED BY <1>14, <2>1, <2>2 DEF MarkAgain
<1>15. CASE ClearAccepted(d)
  BY <1>15 DEF ClearAccepted, Remove, Save, Continue
<1>16. CASE ResumeBrowser(d)
  <2>1. CASE Resumes(d) /\ Continue(d, "unmarking")
    BY <1>16, <2>1 DEF ResumeBrowser, Resumes, ResumeFails, Continue
  <2>2. CASE ResumeFails(d) /\ Continue(d, "resume failed")
    BY <1>16, <2>2 DEF ResumeBrowser, Resumes, ResumeFails, Continue
  <2> QED BY <1>16, <2>1, <2>2 DEF ResumeBrowser
<1>17. CASE Unmark(d)
  BY <1>17 DEF Unmark, Remove, Save, Continue
<1>18. CASE ConnectFails(d)
  BY <1>18 DEF ConnectFails, Continue
<1>19. CASE CancelFails(d)
  <2>1. CASE capture[d] = "cancelling marked" /\ Continue(d, "cancel pending")
    BY <1>19, <2>1 DEF CancelFails, Continue
  <2>2. CASE capture[d] = "cancelling unmarked" /\ Continue(d, "remarking")
    BY <1>19, <2>2 DEF CancelFails, Continue
  <2> QED BY <1>19, <2>1, <2>2 DEF CancelFails
<1>20. CASE LatePause(d)
  <2>1. CASE pausing[d] = "done" /\ late' = [late EXCEPT ![d] = "resuming"]
    BY <1>20, <2>1 DEF LatePause
  <2>2. CASE pausing[d] = "failed" /\ late' = [late EXCEPT ![d] = "clearing"]
    BY <1>20, <2>2 DEF LatePause
  <2> QED BY <1>20, <2>1, <2>2 DEF LatePause
<1>21. CASE LateResume(d)
  <2>1. CASE Resumes(d) /\ late' = [late EXCEPT ![d] = "clearing"]
    BY <1>21, <2>1 DEF LateResume, Resumes, ResumeFails
  <2>2. CASE ResumeFails(d) /\ late' = [late EXCEPT ![d] = "none"]
    BY <1>21, <2>2 DEF LateResume, Resumes, ResumeFails
  <2> QED BY <1>21, <2>1, <2>2 DEF LateResume
<1>22. CASE LateClear(d)
  BY <1>22 DEF LateClear, Remove, Save
<1>23. CASE List(d)
  BY <1>23, RescueBegins DEF List, Busy
<1>24. CASE Find(d)
  <2>1. /\ rescue[d] # AtRest /\ rescue'[d] # AtRest
        /\ rescue'[d].seen = rescue[d].seen
        /\ rescue'[d].at \in {"cancelling", "resuming", "removing"}
        /\ rescue'[d].at = "cancelling" => rescue[d].seen = "accepted"
        /\ rescue'[d].at = "removing" => browser[d] # "paused"
    BY <1>24, RescueFinds
  <2>2. /\ browser' = browser /\ pausing' = pausing /\ marker' = marker
        /\ capture' = capture /\ late' = late /\ port' = port
        /\ overlapped' = overlapped
    BY <1>24 DEF Find
  <2> QED BY <2>1, <2>2
<1>25. CASE RescueCancels(d)
  <2>1. /\ rescue[d] # AtRest /\ rescue'[d] # AtRest
        /\ rescue'[d].seen = rescue[d].seen
        /\ rescue'[d].at \in {"removing"}
    <3>1. rescue[d] # AtRest
      BY <1>25, RescueSteps
    <3> QED BY <1>25, <3>1, RescueMoves DEF RescueCancels
  <2> QED BY <1>25, <2>1, Seen DEF RescueCancels, Cancels
<1>26. CASE RescueResumes(d)
  <2>1. rescue[d] # AtRest
    BY <1>26, RescueSteps
  <2>2. CASE Resumes(d) /\ Rescue(d, "removing")
    <3>1. /\ rescue'[d] # AtRest /\ rescue'[d].at = "removing"
          /\ rescue'[d].seen = rescue[d].seen
      BY <2>1, <2>2, RescueMoves
    <3> QED BY <1>26, <2>1, <2>2, <3>1 DEF RescueResumes, Resumes
  <2>3. CASE ResumeFails(d) /\ EndRescue(d)
    <3>1. rescue'[d] = AtRest
      BY <2>3, RescueEnds
    <3> QED BY <1>26, <2>1, <2>3, <3>1, AtRestFields
         DEF RescueResumes, ResumeFails
  <2> QED BY <1>26, <2>2, <2>3 DEF RescueResumes
<1>27. CASE RescueRemoves(d)
  <2>1. rescue'[d] = AtRest
    BY <1>27, RescueEnds DEF RescueRemoves
  <2> QED BY <1>27, <2>1, AtRestFields DEF RescueRemoves, Remove, Save
<1>28. CASE RescueFails(d)
  <2>1. rescue'[d] = AtRest
    BY <1>28, RescueEnds DEF RescueFails
  <2> QED BY <1>28, <2>1, AtRestFields DEF RescueFails
<1>29. CASE BrowserPauses(d)
  <2>1. CASE /\ browser[d] \in Active /\ browser' = [browser EXCEPT ![d] = "paused"]
            /\ pausing' = [pausing EXCEPT ![d] = Result(d, "done")]
    <3>1. browser'[d] = "paused" /\ pausing'[d] \in {"done", "none"}
      BY <1>29, <2>1 DEF BrowserPauses, Result
    <3>2. /\ marker' = marker /\ capture' = capture /\ late' = late
          /\ port' = port /\ rescue' = rescue /\ overlapped' = overlapped
      BY <1>29 DEF BrowserPauses
    <3>3. pausing[d] = "pending"
      BY <1>29 DEF BrowserPauses
    <3> QED BY <3>1, <3>2, <3>3, AtRestFields
  <2>2. CASE /\ pausing' = [pausing EXCEPT ![d] = Result(d, "failed")]
            /\ UNCHANGED browser
    BY <1>29, <2>2 DEF BrowserPauses, Result
  <2> QED BY <1>29, <2>1, <2>2 DEF BrowserPauses
<1>30. CASE Completes(d)
  BY <1>30 DEF Completes
<1>31. CASE Erase(d)
  BY <1>31 DEF Erase
<1> HIDE DEF HandoffInv, CaptureType, BrowserStates, PauseStates, Markers,
        Working, Outcomes, CaptureStates, LateStates, PauseInv, PauseOf
<1> QED BY <1>1, <1>2, <1>3, <1>4, <1>5, <1>6, <1>7, <1>8, <1>9, <1>10, <1>11,
     <1>12, <1>13, <1>14, <1>15, <1>16, <1>17, <1>18, <1>19, <1>20, <1>21,
     <1>22, <1>23, <1>24, <1>25, <1>26, <1>27, <1>28, <1>29, <1>30, <1>31
     DEF Own, Proceed, ProceedLate, ProceedRescue

LEMMA PauseStep ==
    ASSUME HandoffInv, CaptureStep
    PROVE  PauseInv'
<1>1. ASSUME NEW d \in Requests, Own(d) PROVE PauseInv'
  <2>1. PauseOf(d)'
    BY <1>1, PauseKept
  <2>2. ASSUME NEW e \in Requests, e # d PROVE PauseOf(e)'
    <3>1. PauseOf(e)
      BY DEF HandoffInv, PauseInv
    <3> QED BY <1>1, <2>2, <3>1, OthersStay, PortMoves
         DEF HandoffInv, IInv, TypeOK, PauseOf
  <2> QED BY <2>1, <2>2 DEF PauseInv
<1>2. ASSUME WorkerDies PROVE PauseInv'
  BY <1>2, AtRestFields DEF WorkerDies, Stops, Forgotten, HandoffInv,
     CaptureType, BrowserStates, PauseStates, Markers, Working, Outcomes,
     CaptureStates, LateStates, PauseInv, PauseOf
<1>3. ASSUME BrowserRestarts PROVE PauseInv'
  BY <1>3, AtRestFields DEF BrowserRestarts, Stops, HandoffInv, CaptureType,
     BrowserStates, PauseStates, Markers, Working, Outcomes, CaptureStates,
     LateStates, PauseInv, PauseOf
<1> QED BY <1>1, <1>2, <1>3 DEF CaptureStep, Own

\* They forget no download that is paused.
LEMMA LetGoKept ==
    ASSUME HandoffInv, NEW d \in Requests, Own(d)
    PROVE  LetGoOf(d)'
<1> USE DEF HandoffInv, CaptureType, BrowserStates, PauseStates, Markers,
        Working, Outcomes, CaptureStates, LateStates, PauseInv, PauseOf,
        LetGoInv, LetGoOf, LetGo, Active
<1>1. CASE Observe(d)
  BY <1>1 DEF Observe, Continue
<1>2. CASE MarkObserved(d)
  <2>1. CASE /\ Save(d, "observed") /\ Continue(d, "pausing")
            /\ pausing' = [pausing EXCEPT ![d] = "pending"]
    BY <1>2, <2>1 DEF MarkObserved, Save, Continue
  <2>2. CASE Continue(d, "clearing") /\ UNCHANGED <<marker, pausing>>
    BY <1>2, <2>2 DEF MarkObserved, Save, Continue
  <2> QED BY <1>2, <2>1, <2>2 DEF MarkObserved
<1>3. CASE PauseSucceeds(d)
  BY <1>3 DEF PauseSucceeds, Continue
<1>4. CASE PauseFails(d)
  BY <1>4 DEF PauseFails, Continue
<1>5. CASE PauseTimesOut(d)
  BY <1>5 DEF PauseTimesOut, Continue
<1>6. CASE ClearUnaccepted(d)
  BY <1>6 DEF ClearUnaccepted, Remove, Save, Continue
<1>7. CASE MarkPaused(d)
  <2>1. CASE Save(d, "paused") /\ Continue(d, "connecting")
    BY <1>7, <2>1 DEF MarkPaused, Save, Continue
  <2>2. CASE Continue(d, "resuming") /\ UNCHANGED marker
    BY <1>7, <2>2 DEF MarkPaused, Save, Continue
  <2> QED BY <1>7, <2>1, <2>2 DEF MarkPaused
<1>8. CASE SendRequest(d)
  BY <1>8 DEF SendRequest, Post, Continue
<1>9. CASE HostAccepts(d)
  BY <1>9 DEF HostAccepts, Continue
<1>10. CASE HostRejects(d)
  BY <1>10 DEF HostRejects, Continue
<1>11. CASE GiveUp(d)
  BY <1>11 DEF GiveUp, Continue
<1>12. CASE MarkAccepted(d)
  <2>1. CASE Save(d, "accepted") /\ Continue(d, "cancelling marked")
    BY <1>12, <2>1 DEF MarkAccepted, Save, Continue
  <2>2. CASE Continue(d, "cancelling unmarked") /\ UNCHANGED marker
    BY <1>12, <2>2 DEF MarkAccepted, Save, Continue
  <2> QED BY <1>12, <2>1, <2>2 DEF MarkAccepted
<1>13. CASE Cancel(d)
  BY <1>13 DEF Cancel, Cancels, Continue
<1>14. CASE MarkAgain(d)
  <2>1. CASE Save(d, "accepted") /\ Continue(d, "cancel pending")
    BY <1>14, <2>1 DEF MarkAgain, Save, Continue
  <2>2. CASE Continue(d, "resuming") /\ UNCHANGED marker
    BY <1>14, <2>2 DEF MarkAgain, Save, Continue
  <2> QED BY <1>14, <2>1, <2>2 DEF MarkAgain
<1>15. CASE ClearAccepted(d)
  BY <1>15 DEF ClearAccepted, Remove, Save, Continue
<1>16. CASE ResumeBrowser(d)
  <2>1. CASE Resumes(d) /\ Continue(d, "unmarking")
    BY <1>16, <2>1 DEF ResumeBrowser, Resumes, ResumeFails, Continue
  <2>2. CASE ResumeFails(d) /\ Continue(d, "resume failed")
    BY <1>16, <2>2 DEF ResumeBrowser, Resumes, ResumeFails, Continue
  <2> QED BY <1>16, <2>1, <2>2 DEF ResumeBrowser
<1>17. CASE Unmark(d)
  BY <1>17 DEF Unmark, Remove, Save, Continue
<1>18. CASE ConnectFails(d)
  BY <1>18 DEF ConnectFails, Continue
<1>19. CASE CancelFails(d)
  <2>1. CASE capture[d] = "cancelling marked" /\ Continue(d, "cancel pending")
    BY <1>19, <2>1 DEF CancelFails, Continue
  <2>2. CASE capture[d] = "cancelling unmarked" /\ Continue(d, "remarking")
    BY <1>19, <2>2 DEF CancelFails, Continue
  <2> QED BY <1>19, <2>1, <2>2 DEF CancelFails
<1>20. CASE LatePause(d)
  <2>1. CASE pausing[d] = "done" /\ late' = [late EXCEPT ![d] = "resuming"]
    BY <1>20, <2>1 DEF LatePause
  <2>2. CASE pausing[d] = "failed" /\ late' = [late EXCEPT ![d] = "clearing"]
    BY <1>20, <2>2 DEF LatePause
  <2> QED BY <1>20, <2>1, <2>2 DEF LatePause
<1>21. CASE LateResume(d)
  <2>1. CASE Resumes(d) /\ late' = [late EXCEPT ![d] = "clearing"]
    BY <1>21, <2>1 DEF LateResume, Resumes, ResumeFails
  <2>2. CASE ResumeFails(d) /\ late' = [late EXCEPT ![d] = "none"]
    BY <1>21, <2>2 DEF LateResume, Resumes, ResumeFails
  <2> QED BY <1>21, <2>1, <2>2 DEF LateResume
<1>22. CASE LateClear(d)
  BY <1>22 DEF LateClear, Remove, Save
<1>23. CASE List(d)
  BY <1>23, RescueBegins DEF List, Busy
<1>24. CASE Find(d)
  <2>1. /\ rescue[d] # AtRest /\ rescue'[d] # AtRest
        /\ rescue'[d].seen = rescue[d].seen
        /\ rescue'[d].at \in {"cancelling", "resuming", "removing"}
        /\ rescue'[d].at = "cancelling" => rescue[d].seen = "accepted"
        /\ rescue'[d].at = "removing" => browser[d] # "paused"
    BY <1>24, RescueFinds
  <2>2. /\ browser' = browser /\ pausing' = pausing /\ marker' = marker
        /\ capture' = capture /\ late' = late /\ port' = port
        /\ overlapped' = overlapped
    BY <1>24 DEF Find
  <2> QED BY <2>1, <2>2
<1>25. CASE RescueCancels(d)
  <2>1. /\ rescue[d] # AtRest /\ rescue'[d] # AtRest
        /\ rescue'[d].seen = rescue[d].seen
        /\ rescue'[d].at \in {"removing"}
    <3>1. rescue[d] # AtRest
      BY <1>25, RescueSteps
    <3> QED BY <1>25, <3>1, RescueMoves DEF RescueCancels
  <2> QED BY <1>25, <2>1, Seen DEF RescueCancels, Cancels
<1>26. CASE RescueResumes(d)
  <2>1. rescue[d] # AtRest
    BY <1>26, RescueSteps
  <2>2. CASE Resumes(d) /\ Rescue(d, "removing")
    <3>1. /\ rescue'[d] # AtRest /\ rescue'[d].at = "removing"
          /\ rescue'[d].seen = rescue[d].seen
      BY <2>1, <2>2, RescueMoves
    <3> QED BY <1>26, <2>1, <2>2, <3>1 DEF RescueResumes, Resumes
  <2>3. CASE ResumeFails(d) /\ EndRescue(d)
    <3>1. rescue'[d] = AtRest
      BY <2>3, RescueEnds
    <3> QED BY <1>26, <2>1, <2>3, <3>1, AtRestFields
         DEF RescueResumes, ResumeFails
  <2> QED BY <1>26, <2>2, <2>3 DEF RescueResumes
<1>27. CASE RescueRemoves(d)
  <2>1. rescue'[d] = AtRest
    BY <1>27, RescueEnds DEF RescueRemoves
  <2> QED BY <1>27, <2>1, AtRestFields DEF RescueRemoves, Remove, Save
<1>28. CASE RescueFails(d)
  <2>1. rescue'[d] = AtRest
    BY <1>28, RescueEnds DEF RescueFails
  <2> QED BY <1>28, <2>1, AtRestFields DEF RescueFails
<1>29. CASE BrowserPauses(d)
  <2>1. CASE /\ browser[d] \in Active /\ browser' = [browser EXCEPT ![d] = "paused"]
            /\ pausing' = [pausing EXCEPT ![d] = Result(d, "done")]
    <3>1. browser'[d] = "paused" /\ pausing'[d] \in {"done", "none"}
      BY <1>29, <2>1 DEF BrowserPauses, Result
    <3>2. /\ marker' = marker /\ capture' = capture /\ late' = late
          /\ port' = port /\ rescue' = rescue /\ overlapped' = overlapped
      BY <1>29 DEF BrowserPauses
    <3>3. pausing[d] = "pending"
      BY <1>29 DEF BrowserPauses
    <3> QED BY <3>1, <3>2, <3>3, AtRestFields
  <2>2. CASE /\ pausing' = [pausing EXCEPT ![d] = Result(d, "failed")]
            /\ UNCHANGED browser
    BY <1>29, <2>2 DEF BrowserPauses, Result
  <2> QED BY <1>29, <2>1, <2>2 DEF BrowserPauses
<1>30. CASE Completes(d)
  BY <1>30 DEF Completes
<1>31. CASE Erase(d)
  BY <1>31 DEF Erase
<1> HIDE DEF HandoffInv, CaptureType, BrowserStates, PauseStates, Markers,
        Working, Outcomes, CaptureStates, LateStates, PauseInv, PauseOf,
        LetGoInv, LetGoOf, LetGo, Active
<1> QED BY <1>1, <1>2, <1>3, <1>4, <1>5, <1>6, <1>7, <1>8, <1>9, <1>10, <1>11,
     <1>12, <1>13, <1>14, <1>15, <1>16, <1>17, <1>18, <1>19, <1>20, <1>21,
     <1>22, <1>23, <1>24, <1>25, <1>26, <1>27, <1>28, <1>29, <1>30, <1>31
     DEF Own, Proceed, ProceedLate, ProceedRescue

LEMMA LetGoStep ==
    ASSUME HandoffInv, CaptureStep
    PROVE  LetGoInv'
<1>1. ASSUME NEW d \in Requests, Own(d) PROVE LetGoInv'
  <2>1. LetGoOf(d)'
    BY <1>1, LetGoKept
  <2>2. ASSUME NEW e \in Requests, e # d PROVE LetGoOf(e)'
    <3>1. LetGoOf(e)
      BY DEF HandoffInv, LetGoInv
    <3> QED BY <1>1, <2>2, <3>1, OthersStay, PortMoves
         DEF HandoffInv, IInv, TypeOK, LetGoOf, LetGo
  <2> QED BY <2>1, <2>2 DEF LetGoInv
<1>2. ASSUME WorkerDies PROVE LetGoInv'
  BY <1>2, AtRestFields DEF WorkerDies, Stops, Forgotten, HandoffInv,
     CaptureType, BrowserStates, PauseStates, Markers, Working, Outcomes,
     CaptureStates, LateStates, PauseInv, PauseOf, LetGoInv, LetGoOf, LetGo,
     Active
<1>3. ASSUME BrowserRestarts PROVE LetGoInv'
  BY <1>3, AtRestFields DEF BrowserRestarts, Stops, HandoffInv, CaptureType,
     BrowserStates, PauseStates, Markers, Working, Outcomes, CaptureStates,
     LateStates, PauseInv, PauseOf, LetGoInv, LetGoOf, LetGo, Active
<1> QED BY <1>1, <1>2, <1>3 DEF CaptureStep, Own

\* They keep a marker for each download that is.
LEMMA DebtKept ==
    ASSUME HandoffInv, NEW d \in Requests, Own(d)
    PROVE  DebtOf(d)'
<1>0. CaptureType /\ PauseOf(d) /\ LetGoOf(d) /\ DebtOf(d)
  BY DEF HandoffInv, PauseInv, LetGoInv, DebtInv
<1> USE <1>0 DEF CaptureType, BrowserStates, PauseStates, Markers, Working,
        Outcomes, CaptureStates, LateStates, PauseOf, LetGoOf, LetGo, DebtOf,
        Busy, Active
<1>1. CASE Observe(d)
  BY <1>1 DEF Observe, Continue
<1>2. CASE MarkObserved(d)
  <2>1. CASE /\ Save(d, "observed") /\ Continue(d, "pausing")
            /\ pausing' = [pausing EXCEPT ![d] = "pending"]
    BY <1>2, <2>1 DEF MarkObserved, Save, Continue
  <2>2. CASE Continue(d, "clearing") /\ UNCHANGED <<marker, pausing>>
    BY <1>2, <2>2 DEF MarkObserved, Save, Continue
  <2> QED BY <1>2, <2>1, <2>2 DEF MarkObserved
<1>3. CASE PauseSucceeds(d)
  BY <1>3 DEF PauseSucceeds, Continue
<1>4. CASE PauseFails(d)
  BY <1>4 DEF PauseFails, Continue
<1>5. CASE PauseTimesOut(d)
  BY <1>5 DEF PauseTimesOut, Continue
<1>6. CASE ClearUnaccepted(d)
  BY <1>6 DEF ClearUnaccepted, Remove, Save, Continue
<1>7. CASE MarkPaused(d)
  <2>1. CASE Save(d, "paused") /\ Continue(d, "connecting")
    BY <1>7, <2>1 DEF MarkPaused, Save, Continue
  <2>2. CASE Continue(d, "resuming") /\ UNCHANGED marker
    BY <1>7, <2>2 DEF MarkPaused, Save, Continue
  <2> QED BY <1>7, <2>1, <2>2 DEF MarkPaused
<1>8. CASE SendRequest(d)
  BY <1>8 DEF SendRequest, Post, Continue
<1>9. CASE HostAccepts(d)
  BY <1>9 DEF HostAccepts, Continue
<1>10. CASE HostRejects(d)
  BY <1>10 DEF HostRejects, Continue
<1>11. CASE GiveUp(d)
  BY <1>11 DEF GiveUp, Continue
<1>12. CASE MarkAccepted(d)
  <2>1. CASE Save(d, "accepted") /\ Continue(d, "cancelling marked")
    BY <1>12, <2>1 DEF MarkAccepted, Save, Continue
  <2>2. CASE Continue(d, "cancelling unmarked") /\ UNCHANGED marker
    BY <1>12, <2>2 DEF MarkAccepted, Save, Continue
  <2> QED BY <1>12, <2>1, <2>2 DEF MarkAccepted
<1>13. CASE Cancel(d)
  BY <1>13 DEF Cancel, Cancels, Continue
<1>14. CASE MarkAgain(d)
  <2>1. CASE Save(d, "accepted") /\ Continue(d, "cancel pending")
    BY <1>14, <2>1 DEF MarkAgain, Save, Continue
  <2>2. CASE Continue(d, "resuming") /\ UNCHANGED marker
    BY <1>14, <2>2 DEF MarkAgain, Save, Continue
  <2> QED BY <1>14, <2>1, <2>2 DEF MarkAgain
<1>15. CASE ClearAccepted(d)
  BY <1>15 DEF ClearAccepted, Remove, Save, Continue
<1>16. CASE ResumeBrowser(d)
  <2>1. CASE Resumes(d) /\ Continue(d, "unmarking")
    BY <1>16, <2>1 DEF ResumeBrowser, Resumes, ResumeFails, Continue
  <2>2. CASE ResumeFails(d) /\ Continue(d, "resume failed")
    BY <1>16, <2>2 DEF ResumeBrowser, Resumes, ResumeFails, Continue
  <2> QED BY <1>16, <2>1, <2>2 DEF ResumeBrowser
<1>17. CASE Unmark(d)
  BY <1>17 DEF Unmark, Remove, Save, Continue
<1>18. CASE ConnectFails(d)
  BY <1>18 DEF ConnectFails, Continue
<1>19. CASE CancelFails(d)
  <2>1. CASE capture[d] = "cancelling marked" /\ Continue(d, "cancel pending")
    BY <1>19, <2>1 DEF CancelFails, Continue
  <2>2. CASE capture[d] = "cancelling unmarked" /\ Continue(d, "remarking")
    BY <1>19, <2>2 DEF CancelFails, Continue
  <2> QED BY <1>19, <2>1, <2>2 DEF CancelFails
<1>20. CASE LatePause(d)
  <2>1. CASE pausing[d] = "done" /\ late' = [late EXCEPT ![d] = "resuming"]
    BY <1>20, <2>1 DEF LatePause
  <2>2. CASE pausing[d] = "failed" /\ late' = [late EXCEPT ![d] = "clearing"]
    BY <1>20, <2>2 DEF LatePause
  <2> QED BY <1>20, <2>1, <2>2 DEF LatePause
<1>21. CASE LateResume(d)
  <2>1. CASE Resumes(d) /\ late' = [late EXCEPT ![d] = "clearing"]
    BY <1>21, <2>1 DEF LateResume, Resumes, ResumeFails
  <2>2. CASE ResumeFails(d) /\ late' = [late EXCEPT ![d] = "none"]
    BY <1>21, <2>2 DEF LateResume, Resumes, ResumeFails
  <2> QED BY <1>21, <2>1, <2>2 DEF LateResume
<1>22. CASE LateClear(d)
  BY <1>22 DEF LateClear, Remove, Save
<1>23. CASE List(d)
  <2>1. /\ rescue[d] = AtRest /\ marker[d] # "none"
        /\ rescue'[d].at = "listed"
        /\ UNCHANGED <<browser, pausing, marker, capture, late>>
    BY <1>23, RescueBegins DEF List
  <2>2. ~overlapped'[d] => ~overlapped[d] /\ ~Busy(d)
    BY <1>23 DEF List
  <2> QED BY <2>1, <2>2
<1>24. CASE Find(d)
  <2>1. /\ rescue[d] # AtRest /\ rescue'[d] # AtRest
        /\ rescue'[d].seen = rescue[d].seen
        /\ rescue'[d].at \in {"cancelling", "resuming", "removing"}
        /\ rescue'[d].at = "cancelling" => rescue[d].seen = "accepted"
        /\ rescue'[d].at = "removing" => browser[d] # "paused"
    BY <1>24, RescueFinds
  <2>2. /\ browser' = browser /\ pausing' = pausing /\ marker' = marker
        /\ capture' = capture /\ late' = late /\ port' = port
        /\ overlapped' = overlapped
    BY <1>24 DEF Find
  <2> QED BY <2>1, <2>2
<1>25. CASE RescueCancels(d)
  <2>1. /\ rescue[d] # AtRest /\ rescue'[d] # AtRest
        /\ rescue'[d].seen = rescue[d].seen
        /\ rescue'[d].at \in {"removing"}
    <3>1. rescue[d] # AtRest
      BY <1>25, RescueSteps
    <3> QED BY <1>25, <3>1, RescueMoves DEF RescueCancels
  <2> QED BY <1>25, <2>1, Seen DEF RescueCancels, Cancels
<1>26. CASE RescueResumes(d)
  <2>1. rescue[d] # AtRest
    BY <1>26, RescueSteps
  <2>2. CASE Resumes(d) /\ Rescue(d, "removing")
    <3>1. /\ rescue'[d] # AtRest /\ rescue'[d].at = "removing"
          /\ rescue'[d].seen = rescue[d].seen
      BY <2>1, <2>2, RescueMoves
    <3> QED BY <1>26, <2>1, <2>2, <3>1 DEF RescueResumes, Resumes
  <2>3. CASE ResumeFails(d) /\ EndRescue(d)
    <3>1. rescue'[d] = AtRest
      BY <2>3, RescueEnds
    <3> QED BY <1>26, <2>1, <2>3, <3>1, AtRestFields
         DEF RescueResumes, ResumeFails
  <2> QED BY <1>26, <2>2, <2>3 DEF RescueResumes
<1>27. CASE RescueRemoves(d)
  <2>1. rescue'[d] = AtRest
    BY <1>27, RescueEnds DEF RescueRemoves
  <2> QED BY <1>27, <2>1, AtRestFields DEF RescueRemoves, Remove, Save
<1>28. CASE RescueFails(d)
  <2>1. rescue'[d] = AtRest
    BY <1>28, RescueEnds DEF RescueFails
  <2> QED BY <1>28, <2>1, AtRestFields DEF RescueFails
<1>29. CASE BrowserPauses(d)
  <2>1. CASE /\ browser[d] \in Active /\ browser' = [browser EXCEPT ![d] = "paused"]
            /\ pausing' = [pausing EXCEPT ![d] = Result(d, "done")]
    <3>1. browser'[d] = "paused" /\ pausing'[d] \in {"done", "none"}
      BY <1>29, <2>1 DEF BrowserPauses, Result
    <3>2. /\ marker' = marker /\ capture' = capture /\ late' = late
          /\ port' = port /\ rescue' = rescue /\ overlapped' = overlapped
      BY <1>29 DEF BrowserPauses
    <3>3. pausing[d] = "pending"
      BY <1>29 DEF BrowserPauses
    <3> QED BY <3>1, <3>2, <3>3, AtRestFields
  <2>2. CASE /\ pausing' = [pausing EXCEPT ![d] = Result(d, "failed")]
            /\ UNCHANGED browser
    BY <1>29, <2>2 DEF BrowserPauses, Result
  <2> QED BY <1>29, <2>1, <2>2 DEF BrowserPauses
<1>30. CASE Completes(d)
  BY <1>30 DEF Completes
<1>31. CASE Erase(d)
  BY <1>31 DEF Erase
<1> HIDE DEF HandoffInv, CaptureType, BrowserStates, PauseStates, Markers,
        Working, Outcomes, CaptureStates, LateStates, PauseInv, PauseOf,
        LetGoInv, LetGoOf, LetGo, DebtInv, DebtOf, Busy, Active
<1> QED BY <1>1, <1>2, <1>3, <1>4, <1>5, <1>6, <1>7, <1>8, <1>9, <1>10, <1>11,
     <1>12, <1>13, <1>14, <1>15, <1>16, <1>17, <1>18, <1>19, <1>20, <1>21,
     <1>22, <1>23, <1>24, <1>25, <1>26, <1>27, <1>28, <1>29, <1>30, <1>31
     DEF Own, Proceed, ProceedLate, ProceedRescue

LEMMA DebtStep ==
    ASSUME HandoffInv, CaptureStep
    PROVE  DebtInv'
<1>1. ASSUME NEW d \in Requests, Own(d) PROVE DebtInv'
  <2>1. DebtOf(d)'
    BY <1>1, DebtKept
  <2>2. ASSUME NEW e \in Requests, e # d PROVE DebtOf(e)'
    <3>1. DebtOf(e)
      BY DEF HandoffInv, DebtInv
    <3> QED BY <1>1, <2>2, <3>1, OthersStay, PortMoves
         DEF HandoffInv, IInv, TypeOK, DebtOf, Busy
  <2> QED BY <2>1, <2>2 DEF DebtInv
<1>2. ASSUME WorkerDies PROVE DebtInv'
  BY <1>2, AtRestFields DEF WorkerDies, Stops, Forgotten, HandoffInv,
     CaptureType, BrowserStates, PauseStates, Markers, Working, Outcomes,
     CaptureStates, LateStates, PauseInv, PauseOf, LetGoInv, LetGoOf, LetGo,
     DebtInv, DebtOf, Busy, Active
<1>3. ASSUME BrowserRestarts PROVE DebtInv'
  BY <1>3, AtRestFields DEF BrowserRestarts, Stops, HandoffInv, CaptureType,
     BrowserStates, PauseStates, Markers, Working, Outcomes, CaptureStates,
     LateStates, PauseInv, PauseOf, LetGoInv, LetGoOf, LetGo, DebtInv, DebtOf,
     Busy, Active
<1> QED BY <1>1, <1>2, <1>3 DEF CaptureStep, Own

----------------------------------------------------------------------------
(* The whole handoff *)

\* The extension and the browser touch the inbox only by asking.
LEMMA CapturePort ==
    ASSUME TypeOK, CaptureStep
    PROVE  /\ PortType'
           /\ \A s \in Requests : \/ port'[s] = port[s]
                                  \/ port[s] = "closed" /\ port'[s] = "asked"
<1> USE DEF TypeOK, PortType, PortStates
<1>1. CASE \E d \in Requests : SendRequest(d)
  BY <1>1 DEF SendRequest, Post
<1>2. CASE ~\E d \in Requests : SendRequest(d)
  <2>1. UNCHANGED port
    BY <1>2
       DEF CaptureStep, Proceed, ProceedLate, ProceedRescue, WorkerDies,
           BrowserRestarts, Stops,
           Observe, MarkObserved, PauseSucceeds, PauseFails, PauseTimesOut,
           ClearUnaccepted, MarkPaused, SendRequest, HostAccepts, HostRejects,
           GiveUp, MarkAccepted, Cancel, MarkAgain, ClearAccepted,
           ResumeBrowser, Unmark, ConnectFails, CancelFails, LatePause,
           LateResume, LateClear, List, Find, RescueCancels, RescueResumes,
           RescueRemoves, RescueFails, BrowserPauses, Completes, Erase
  <2>2. UNCHANGED faults \/ Fault
    BY <1>2
       DEF CaptureStep, Proceed, ProceedLate, ProceedRescue, WorkerDies,
           BrowserRestarts, Resumes, ResumeFails, Cancels,
           Observe, MarkObserved, PauseSucceeds, PauseFails, PauseTimesOut,
           ClearUnaccepted, MarkPaused, SendRequest, HostAccepts, HostRejects,
           GiveUp, MarkAccepted, Cancel, MarkAgain, ClearAccepted,
           ResumeBrowser, Unmark, ConnectFails, CancelFails, LatePause,
           LateResume, LateClear, List, Find, RescueCancels, RescueResumes,
           RescueRemoves, RescueFails, BrowserPauses, Completes, Erase
  <2>3. faults' \in 0 .. MaxFaults
    BY <2>2, FaultsAssumption DEF Fault
  <2> QED BY <2>1, <2>3
<1> QED BY <1>1, <1>2

LEMMA CapturePreserves ==
    ASSUME HandoffInv, CaptureStep, UNCHANGED inboxVars
    PROVE  HandoffInv'
<1>1. PortType' /\ \A s \in Requests : \/ port'[s] = port[s]
                                       \/ /\ port[s] = "closed"
                                          /\ port'[s] = "asked"
  BY CapturePort DEF HandoffInv, IInv
<1>2. UNCHANGED <<lock, record, host, transfer, envelope, overtaken, desk, rows,
                  gone, disposed>>
  BY DEF inboxVars, hostVars, deskVars
<1>3. TypeOK'
  BY <1>1, <1>2 DEF HandoffInv, IInv, TypeOK, InboxType
<1>4. LockInv' /\ KeyInv' /\ SearchInv' /\ RecordInv' /\ DeskInv'
  BY <1>2 DEF HandoffInv, IInv, LockInv, KeyInv, SearchInv, Searching, RecordInv,
     DeskInv
<1>5. SettleInv'
  BY <1>1, <1>2 DEF HandoffInv, IInv, SettleInv, Settled, Granted
<1>6. CaptureType' /\ WordInv' /\ PauseInv' /\ LetGoInv' /\ DebtInv'
  BY CaptureTypes, WordStep, PauseStep, LetGoStep, DebtStep DEF HandoffInv
<1> QED BY <1>3, <1>4, <1>5, <1>6 DEF HandoffInv, IInv

\* No host takes back an acceptance.
LEMMA AcceptanceStays ==
    ASSUME IInv, NEW r \in Requests, HostStep(r),
           NEW s \in Requests, port[s] = "accepted"
    PROVE  port'[s] = "accepted"
<1>1. CASE Answer(r)
  BY <1>1 DEF Answer, Respond, IInv, SettleInv, TypeOK, PortType
<1>2. CASE ~Answer(r)
  BY <1>2 DEF HostStep, Serve, Receive, Lock, LockBusy, Refuse, Look,
     ScanOvertaken, ScanFinds, ScanFindsNone, Stage, Record, Publish, Ensure,
     Release, StepFails, HostDies
<1> QED BY <1>1, <1>2

LEMMA InboxPreserves ==
    ASSUME HandoffInv, InboxStep, UNCHANGED captureVars
    PROVE  HandoffInv'
<1>1. IInv'
  BY HostPreserves, DeskPreserves DEF HandoffInv, InboxStep
<1>2. UNCHANGED <<browser, pausing, marker, capture, late, rescue, overlapped>>
  BY DEF captureVars
<1>3. \A d \in Requests : port[d] = "accepted" => port'[d] = "accepted"
  BY AcceptanceStays, DeskLeavesHost DEF HandoffInv, InboxStep
<1>4. WordInv'
  BY <1>2, <1>3 DEF HandoffInv, WordInv, WordOf
<1>5. CaptureType' /\ PauseInv' /\ LetGoInv' /\ DebtInv'
  BY <1>2 DEF HandoffInv, CaptureType, PauseInv, PauseOf, LetGoInv, LetGoOf, LetGo,
     DebtInv, DebtOf, Busy
<1> QED BY <1>1, <1>4, <1>5 DEF HandoffInv

LEMMA HandoffInitInv == HandoffInit => HandoffInv
<1> SUFFICES ASSUME HandoffInit PROVE HandoffInv
  OBVIOUS
<1>1. IInv
  BY InitInv DEF HandoffInit, Init
<1>2. CaptureType
  BY DEF HandoffInit, CaptureInit, CaptureType, BrowserStates, PauseStates,
     Markers, CaptureStates, LateStates, RescueStates
<1>3. WordInv /\ PauseInv /\ LetGoInv /\ DebtInv
  BY AtRestFields DEF HandoffInit, CaptureInit, WordInv, WordOf, Convinced,
     PauseInv, PauseOf, LetGoInv, LetGoOf, LetGo, DebtInv, DebtOf
<1> QED BY <1>1, <1>2, <1>3 DEF HandoffInv

LEMMA HandoffStays ==
    ASSUME HandoffInv, UNCHANGED handoffVars
    PROVE  HandoffInv'
<1>1. UNCHANGED <<port, faults, captureVars, hostVars, inbox, deskVars>>
  BY DEF handoffVars, inboxVars
<1>2. IInv'
  BY <1>1 DEF HandoffInv, hostVars, deskVars, IInv, TypeOK, PortType, InboxType,
     LockInv, KeyInv, SearchInv, Searching, SettleInv, Settled, Granted, RecordInv,
     DeskInv
<1> QED BY <1>1, <1>2 DEF captureVars, HandoffInv, CaptureType, WordInv, WordOf,
     PauseInv, PauseOf, LetGoInv, LetGoOf, LetGo, DebtInv, DebtOf, Busy

LEMMA HandoffInductive == HandoffSpec => []HandoffInv
<1>1. HandoffInv /\ [HandoffNext]_handoffVars => HandoffInv'
  BY CapturePreserves, InboxPreserves, HandoffStays DEF HandoffNext
<1> QED BY HandoffInitInv, <1>1, PTL DEF HandoffSpec

\* The variables of extension, browser, port, hosts and desktop keep their types,
\* for any downloads, keys and number of faults.
THEOREM HandoffTypesHold == HandoffSpec => []HandoffType
<1>1. HandoffInv => HandoffType
  BY DEF HandoffInv, IInv, TypeOK, HandoffType
<1> QED BY HandoffInductive, <1>1, PTL

\* A download that nobody is at work on is never left paused without a marker,
\* whatever fails, unless a recover() has run during its capture (coordinator.ts).
THEOREM NoneIsStranded == HandoffSpec => []StrandedOnlyByOverlap
<1>1. HandoffInv => StrandedOnlyByOverlap
  BY DEF HandoffInv, DebtInv, DebtOf, StrandedOnlyByOverlap, Stranded
<1> QED BY HandoffInductive, <1>1, PTL

----------------------------------------------------------------------------
(* The rows of the list *)

\* Only claimed files have rows, and so no record is written for one that has.
LEMMA HostKeepsRows ==
    ASSUME IInv, RowInv, NEW r \in Requests, HostStep(r)
    PROVE  RowInv'
<1>1. UNCHANGED <<rows, gone>>
  BY HostLeavesDesk DEF deskVars
<1> SUFFICES ASSUME NEW t \in Requests, rows[t] > 0
             PROVE  envelope'[t] \in {"claimed", "quarantined", "unlinked"}
  BY <1>1 DEF RowInv
<1>2. envelope[t] \in {"claimed", "quarantined", "unlinked"}
  BY DEF RowInv
<1> QED BY <1>2, HostMoves DEF Issued, Kept

LEMMA DeskKeepsRows ==
    ASSUME IInv, RowInv, DeskStep
    PROVE  RowInv'
<1> USE DEF IInv, TypeOK, InboxType, DeskInv, DeskStates, Idle, RowInv
<1>1. ASSUME NEW t \in Requests, Claim(t) PROVE RowInv'
  BY <1>1 DEF Claim, Rename
<1>2. ASSUME NEW t \in Requests, Quarantine(t) PROVE RowInv'
  BY <1>2 DEF Quarantine, Move
<1>3. ASSUME NEW t \in Requests, Deliver(t) PROVE RowInv'
  BY <1>3 DEF Deliver
<1>4. ASSUME NEW t \in Requests, Unlink(t) PROVE RowInv'
  BY <1>4 DEF Unlink, Move
<1>5. ASSUME NEW t \in Requests, RemoveRows(t) PROVE RowInv'
  BY <1>5 DEF RemoveRows
<1>6. CASE UNCHANGED <<envelope, rows, gone>>
  BY <1>6
<1> QED BY <1>1, <1>2, <1>3, <1>4, <1>5, <1>6 DEF DeskStep, Drain, Recover, Retain

----------------------------------------------------------------------------
(* The promise *)

\* Inbox and list, as the promise sees them.
InInbox(d) == TransferOf(d) # NoTransfer /\ envelope[TransferOf(d)] \in Kept
InList(d) == TransferOf(d) # NoTransfer /\ rows[TransferOf(d)] > 0

LEMMA KeepersAre ==
    ASSUME NEW d \in Requests
    PROVE  /\ Keepers[d] \subseteq {"browser", "inbox", "list"}
           /\ "browser" \in Keepers[d] <=> browser[d] # "cancelled"
           /\ "inbox" \in Keepers[d] <=> InInbox(d)
           /\ "list" \in Keepers[d] <=> InList(d)
BY DEF Keepers, InInbox, InList

LEMMA KeepersAreNext ==
    ASSUME NEW d \in Requests
    PROVE  /\ Keepers'[d] \subseteq {"browser", "inbox", "list"}
           /\ "browser" \in Keepers'[d] <=> browser'[d] # "cancelled"
           /\ "inbox" \in Keepers'[d] <=> InInbox(d)'
           /\ "list" \in Keepers'[d] <=> InList(d)'
BY DEF Keepers, InInbox, InList

\* The transfer on record for a download is an envelope's, and never another's.
LEMMA TransferTypes ==
    ASSUME IInv, NEW d \in Requests, TransferOf(d) # NoTransfer
    PROVE  TransferOf(d) \in Requests /\ KeyOf[TransferOf(d)] = KeyOf[d]
BY KeysOfRequests, Names DEF TransferOf, IInv, KeyInv

\* A host only publishes.
LEMMA HostKeepsPromise ==
    ASSUME IInv, RowInv, NEW r \in Requests, HostStep(r), NEW d \in Requests
    PROVE  (InInbox(d) => InInbox(d)') /\ (InList(d)' <=> InList(d))
<1> DEFINE t == TransferOf(d)
<1>1. KeyOf[d] \in Keys
  BY KeysOfRequests
<1>2. UNCHANGED rows
  BY HostLeavesDesk DEF deskVars
<1>3. CASE TransferOf(d)' = TransferOf(d)
  <2>1. CASE TransferOf(d) = NoTransfer
    BY <1>3, <2>1 DEF InInbox, InList
  <2>2. CASE TransferOf(d) # NoTransfer
    <3>1. t \in Requests
      BY <2>2, TransferTypes
    <3>2. envelope[t] \in Kept => envelope'[t] \in Kept
      BY <3>1, HostMoves DEF Issued, Kept
    <3> QED BY <1>2, <1>3, <3>1, <3>2 DEF InInbox, InList
  <2> QED BY <2>1, <2>2
<1>4. CASE TransferOf(d)' # TransferOf(d)
  <2>1. /\ TransferOf(d) = NoTransfer
        /\ TransferOf(d)' \in Requests
        /\ envelope[TransferOf(d)'] = "staged"
    BY <1>1, <1>4, HostWritesOnce DEF TransferOf
  <2>2. rows[TransferOf(d)'] = 0
    BY <2>1 DEF RowInv, IInv, TypeOK, InboxType
  <2> QED BY <1>2, <2>1, <2>2 DEF InInbox, InList
<1> QED BY <1>3, <1>4

\* The watcher adds a row to what the inbox has, and removes what has a row.
DeskTrade(t) ==
    /\ envelope'[t] \in Kept => envelope[t] \in Kept
    /\ rows[t] > 0 => rows'[t] > 0
    /\ envelope[t] \in Kept /\ envelope'[t] \notin Kept =>
         rows[t] > 0 /\ rows'[t] > 0
    /\ ~(rows[t] > 0) /\ rows'[t] > 0 =>
         envelope[t] \in Kept /\ envelope'[t] \in Kept

LEMMA DeskTrades ==
    ASSUME IInv, DeskStep, NEW t \in Requests
    PROVE  DeskTrade(t)
<1> USE DEF IInv, TypeOK, InboxType, DeskInv, DeskStates, Idle, Kept, DeskTrade
<1>1. ASSUME NEW u \in Requests, Claim(u) PROVE DeskTrade(t)
  BY <1>1 DEF Claim, Rename
<1>2. ASSUME NEW u \in Requests, Quarantine(u) PROVE DeskTrade(t)
  BY <1>2 DEF Quarantine, Move
<1>3. ASSUME NEW u \in Requests, Deliver(u) PROVE DeskTrade(t)
  BY <1>3 DEF Deliver
<1>4. ASSUME NEW u \in Requests, Unlink(u) PROVE DeskTrade(t)
  BY <1>4 DEF Unlink, Move
<1>5. CASE UNCHANGED <<envelope, rows>>
  BY <1>5
<1> QED BY <1>1, <1>2, <1>3, <1>4, <1>5 DEF DeskStep, Drain, Recover, RemoveRows,
     Retain

\* ... and so does it for the download whose transfer it is.
LEMMA DeskKeepsPromise ==
    ASSUME IInv, DeskStep, NEW d \in Requests
    PROVE  /\ InInbox(d)' => InInbox(d)
           /\ InList(d) => InList(d)'
           /\ InInbox(d) /\ ~InInbox(d)' => InList(d) /\ InList(d)'
           /\ ~InList(d) /\ InList(d)' => InInbox(d) /\ InInbox(d)'
<1> DEFINE t == TransferOf(d)
<1>1. TransferOf(d)' = TransferOf(d)
  BY DeskLeavesHost DEF hostVars, TransferOf
<1>2. CASE t = NoTransfer
  BY <1>1, <1>2 DEF InInbox, InList
<1>3. CASE t # NoTransfer
  <2>1. t \in Requests
    BY <1>3, TransferTypes
  <2>2. DeskTrade(t)
    BY <2>1, DeskTrades
  <2> QED BY <1>1, <1>3, <2>1, <2>2 DEF DeskTrade, InInbox, InList
<1> QED BY <1>2, <1>3

\* What the browser has cancelled it does not take up again.
LEMMA CancelledStays ==
    ASSUME CaptureType, CaptureStep, NEW d \in Requests, browser[d] = "cancelled"
    PROVE  browser'[d] = "cancelled"
<1> USE DEF CaptureType, Active
<1>1. ASSUME NEW e \in Requests, Resumes(e) \/ Cancels(e)
      PROVE  browser'[d] = "cancelled"
  BY <1>1 DEF Resumes, Cancels
<1>2. ASSUME NEW e \in Requests, BrowserPauses(e) PROVE browser'[d] = "cancelled"
  BY <1>2 DEF BrowserPauses
<1>3. ASSUME NEW e \in Requests, Completes(e) \/ Erase(e)
      PROVE  browser'[d] = "cancelled"
  BY <1>3 DEF Completes, Erase
<1>4. CASE BrowserRestarts
  BY <1>4 DEF BrowserRestarts
<1>5. CASE UNCHANGED browser
  BY <1>5
<1>6. \/ UNCHANGED browser
      \/ BrowserRestarts
      \/ \E e \in Requests : \/ Resumes(e) \/ Cancels(e) \/ BrowserPauses(e)
                             \/ Completes(e) \/ Erase(e)
  BY DEF CaptureStep, Proceed, ProceedLate, ProceedRescue, WorkerDies, ResumeFails,
     Observe, MarkObserved, PauseSucceeds, PauseFails, PauseTimesOut,
     ClearUnaccepted, MarkPaused, SendRequest, HostAccepts, HostRejects,
     GiveUp, MarkAccepted, Cancel, MarkAgain, ClearAccepted, ResumeBrowser,
     Unmark, ConnectFails, CancelFails, LatePause, LateResume, LateClear, List,
     Find, RescueCancels, RescueResumes, RescueRemoves, RescueFails
<1> QED BY <1>1, <1>2, <1>3, <1>4, <1>5, <1>6

\* The extension cancels only what inbox or list have.
LEMMA AcceptedHasKeeper ==
    ASSUME IInv, NEW d \in Requests, port[d] = "accepted"
    PROVE  InInbox(d) \/ InList(d)
<1>1. TransferOf(d) = transfer[d] /\ transfer[d] # NoTransfer
  BY DEF IInv, SettleInv, Settled, TransferOf
<1>2. transfer[d] \in Requests /\ envelope[transfer[d]] \in Issued
  BY <1>1, Names DEF IInv, SettleInv, Granted
<1> QED BY <1>1, <1>2 DEF InInbox, InList, IInv, DeskInv, Issued

LEMMA CaptureKeepsPromise ==
    ASSUME HandoffInv, CaptureStep, UNCHANGED inboxVars, NEW d \in Requests
    PROVE  /\ InInbox(d)' <=> InInbox(d)
           /\ InList(d)' <=> InList(d)
           /\ browser[d] = "cancelled" => browser'[d] = "cancelled"
           /\ browser'[d] = "cancelled" => InInbox(d) \/ InList(d)
<1>1. UNCHANGED <<record, envelope, rows>>
  BY DEF inboxVars, hostVars, deskVars
<1>2. (InInbox(d)' <=> InInbox(d)) /\ (InList(d)' <=> InList(d))
  BY <1>1 DEF InInbox, InList, TransferOf
<1>3. browser[d] = "cancelled" => browser'[d] = "cancelled"
  BY CancelledStays DEF HandoffInv
<1>4. ASSUME browser'[d] = "cancelled" PROVE InInbox(d) \/ InList(d)
  <2>1. port'[d] = "accepted"
    BY <1>4, WordStep DEF WordInv, WordOf
  <2>2. port[d] = "accepted"
    BY <2>1, CapturePort DEF HandoffInv, IInv
  <2> QED BY <2>2, AcceptedHasKeeper DEF HandoffInv
<1> QED BY <1>2, <1>3, <1>4

\* The three keepers are all there is to compare.
LEMMA SameKeepers ==
    ASSUME NEW K, NEW L,
           K \subseteq {"browser", "inbox", "list"},
           L \subseteq {"browser", "inbox", "list"},
           "browser" \in K <=> "browser" \in L,
           "inbox" \in K <=> "inbox" \in L,
           "list" \in K <=> "list" \in L
    PROVE  K = L
<1>1. \A x : x \in K <=> x \in L
  <2> TAKE x
  <2>1. CASE x \in {"browser", "inbox", "list"}
    BY <2>1
  <2>2. CASE x \notin {"browser", "inbox", "list"}
    BY <2>2
  <2> QED BY <2>1, <2>2
<1> QED BY <1>1, SetExtensionality

\* What a step of the promise may make of the keepers K of a download.
Allowed(K, L) ==
    \/ L = K
    \/ {"inbox", "list"} \intersect K # {} /\ L = K \ {"browser"}
    \/ L = K \union {"inbox"}
    \/ "inbox" \in K /\ L = K \union {"list"}
    \/ "list" \in K /\ L = K \ {"inbox"}

\* Of one download, the browser lets go, the inbox gains, or the watcher trades.
LEMMA PromiseMoves ==
    ASSUME NEW K, NEW L,
           K \subseteq {"browser", "inbox", "list"},
           L \subseteq {"browser", "inbox", "list"},
           \/ /\ "inbox" \in K <=> "inbox" \in L
              /\ "list" \in K <=> "list" \in L
              /\ "browser" \in L => "browser" \in K
              /\ "browser" \in L \/ "inbox" \in L \/ "list" \in L
           \/ /\ "browser" \in K <=> "browser" \in L
              /\ "list" \in K <=> "list" \in L
              /\ "inbox" \in K => "inbox" \in L
           \/ /\ "browser" \in K <=> "browser" \in L
              /\ "inbox" \in L => "inbox" \in K
              /\ "list" \in K => "list" \in L
              /\ "inbox" \in K \ L => "list" \in K /\ "list" \in L
              /\ "list" \in L \ K => "inbox" \in K /\ "inbox" \in L
    PROVE  Allowed(K, L)
<1>1. \/ L = K \/ L = K \ {"browser"} \/ L = K \union {"inbox"}
      \/ L = K \union {"list"} \/ L = K \ {"inbox"}
  <2>1. CASE "browser" \in K /\ "browser" \notin L
    <3> DEFINE M == K \ {"browser"}
    <3>1. /\ M \subseteq {"browser", "inbox", "list"}
          /\ "browser" \in L <=> "browser" \in M
          /\ "inbox" \in L <=> "inbox" \in M
          /\ "list" \in L <=> "list" \in M
      BY <2>1
    <3> QED BY <3>1, SameKeepers
  <2>2. CASE "inbox" \in L /\ "inbox" \notin K
    <3> DEFINE M == K \union {"inbox"}
    <3>1. /\ M \subseteq {"browser", "inbox", "list"}
          /\ "browser" \in L <=> "browser" \in M
          /\ "inbox" \in L <=> "inbox" \in M
          /\ "list" \in L <=> "list" \in M
      BY <2>2
    <3> QED BY <3>1, SameKeepers
  <2>3. CASE "inbox" \in K /\ "inbox" \notin L
    <3> DEFINE M == K \ {"inbox"}
    <3>1. /\ M \subseteq {"browser", "inbox", "list"}
          /\ "browser" \in L <=> "browser" \in M
          /\ "inbox" \in L <=> "inbox" \in M
          /\ "list" \in L <=> "list" \in M
      BY <2>3
    <3> QED BY <3>1, SameKeepers
  <2>4. CASE "list" \in L /\ "list" \notin K
    <3> DEFINE M == K \union {"list"}
    <3>1. /\ M \subseteq {"browser", "inbox", "list"}
          /\ "browser" \in L <=> "browser" \in M
          /\ "inbox" \in L <=> "inbox" \in M
          /\ "list" \in L <=> "list" \in M
      BY <2>4
    <3> QED BY <3>1, SameKeepers
  <2>5. CASE /\ "browser" \in K => "browser" \in L
             /\ "inbox" \in K <=> "inbox" \in L
             /\ "list" \in L => "list" \in K
    <3>1. /\ "browser" \in K <=> "browser" \in L
          /\ "list" \in K <=> "list" \in L
      BY <2>5
    <3> QED BY <2>5, <3>1, SameKeepers
  <2> QED BY <2>1, <2>2, <2>3, <2>4, <2>5
<1> QED BY <1>1 DEF Allowed

\* Every step of the handoff is, for each download, one that the promise allows.
LEMMA PromiseStep ==
    ASSUME HandoffInv, RowInv, HandoffNext, NEW d \in Requests
    PROVE  Keepers'[d] = Keepers[d] \/ Promise!Step(d)
<1> DEFINE K == Keepers[d]
           L == Keepers'[d]
<1>1. /\ K \subseteq {"browser", "inbox", "list"}
      /\ L \subseteq {"browser", "inbox", "list"}
  BY KeepersAre, KeepersAreNext
<1>2. CASE CaptureStep /\ UNCHANGED inboxVars
  <2>1. /\ "inbox" \in K <=> "inbox" \in L
        /\ "list" \in K <=> "list" \in L
        /\ "browser" \in L => "browser" \in K
        /\ "browser" \in L \/ "inbox" \in L \/ "list" \in L
    BY <1>2, CaptureKeepsPromise, KeepersAre, KeepersAreNext
  <2> HIDE DEF K, L
  <2>2. Allowed(K, L)
    BY <1>1, <2>1, PromiseMoves
  <2> QED BY <2>2 DEF K, L, Allowed, Promise!Step, Promise!Publish,
       Promise!Withdraw, Promise!Deliver, Promise!Clear, Promise!Becomes
<1>3. ASSUME NEW r \in Requests, HostStep(r), UNCHANGED captureVars
      PROVE  L = K \/ Promise!Step(d)
  <2>1. browser' = browser
    BY <1>3 DEF captureVars
  <2>2. /\ "browser" \in K <=> "browser" \in L
        /\ "list" \in K <=> "list" \in L
        /\ "inbox" \in K => "inbox" \in L
    BY <1>3, <2>1, HostKeepsPromise, KeepersAre, KeepersAreNext DEF HandoffInv
  <2> HIDE DEF K, L
  <2>3. Allowed(K, L)
    BY <1>1, <2>2, PromiseMoves
  <2> QED BY <2>3 DEF K, L, Allowed, Promise!Step, Promise!Publish,
       Promise!Withdraw, Promise!Deliver, Promise!Clear, Promise!Becomes
<1>4. CASE DeskStep /\ UNCHANGED captureVars
  <2>1. browser' = browser
    BY <1>4 DEF captureVars
  <2>2. /\ "browser" \in K <=> "browser" \in L
        /\ "inbox" \in L => "inbox" \in K
        /\ "list" \in K => "list" \in L
        /\ "inbox" \in K \ L => "list" \in K /\ "list" \in L
        /\ "list" \in L \ K => "inbox" \in K /\ "inbox" \in L
    BY <1>4, <2>1, DeskKeepsPromise, KeepersAre, KeepersAreNext DEF HandoffInv
  <2> HIDE DEF K, L
  <2>3. Allowed(K, L)
    BY <1>1, <2>2, PromiseMoves
  <2> QED BY <2>3 DEF K, L, Allowed, Promise!Step, Promise!Publish,
       Promise!Withdraw, Promise!Deliver, Promise!Clear, Promise!Becomes
<1> QED BY <1>2, <1>3, <1>4 DEF HandoffNext, InboxStep

LEMMA RowInductive == HandoffSpec => [](HandoffInv /\ RowInv)
<1>1. HandoffInit => RowInv
  BY DEF HandoffInit, InboxInit, RowInv
<1>2. HandoffInv /\ RowInv /\ [HandoffNext]_handoffVars => RowInv'
  <2> SUFFICES ASSUME HandoffInv, RowInv, [HandoffNext]_handoffVars
               PROVE  RowInv'
    OBVIOUS
  <2>1. CASE UNCHANGED <<inbox, deskVars>>
    BY <2>1 DEF deskVars, RowInv
  <2>2. CASE InboxStep
    BY <2>2, HostKeepsRows, DeskKeepsRows DEF InboxStep, HandoffInv
  <2> QED BY <2>1, <2>2 DEF HandoffNext, handoffVars, inboxVars
<1> QED BY <1>1, <1>2, HandoffInductive, PTL DEF HandoffSpec

\* Browser, extension, host and watcher together implement the promise: each lets
\* go of a download only when the next one has it, whatever fails on the way.
THEOREM PromiseIsKept == HandoffSpec => KeepsPromise
<1>1. HandoffInit => Promise!Init
  <2> SUFFICES ASSUME HandoffInit PROVE Keepers = [d \in Requests |-> {"browser"}]
    BY DEF Promise!Init
  <2>1. ASSUME NEW d \in Requests PROVE Keepers[d] = {"browser"}
    <3>1. KeyOf[d] \in Keys
      BY KeysOfRequests
    <3>2. ~InInbox(d) /\ ~InList(d) /\ browser[d] # "cancelled"
      BY <3>1 DEF HandoffInit, InboxInit, CaptureInit, InInbox, InList, TransferOf
    <3> QED BY <3>2, KeepersAre
  <2> QED BY <2>1 DEF Keepers
<1>2. HandoffInv /\ RowInv /\ [HandoffNext]_handoffVars => [Promise!Next]_Keepers
  <2> SUFFICES ASSUME HandoffInv, RowInv, [HandoffNext]_handoffVars
               PROVE  [Promise!Next]_Keepers
    OBVIOUS
  <2>1. CASE HandoffNext
    <3>1. Keepers' \in [Requests -> SUBSET {"browser", "inbox", "list"}]
      BY KeepersAreNext DEF Keepers
    <3>2. \A d \in Requests : Keepers'[d] = Keepers[d] \/ Promise!Step(d)
      BY <2>1, PromiseStep
    <3> QED BY <3>1, <3>2 DEF Promise!Next, Promise!Becomes
  <2>2. CASE UNCHANGED handoffVars
    BY <2>2 DEF handoffVars, captureVars, inboxVars, hostVars, deskVars, Keepers,
       TransferOf
  <2> QED BY <2>1, <2>2
<1> QED BY <1>1, <1>2, RowInductive, PTL DEF HandoffSpec, KeepsPromise, Promise!Spec

----------------------------------------------------------------------------
(* Nothing is lost *)

\* A step of another request's host leaves the record and the files of a key
\* that only one request has.
LEMMA SoleKeys ==
    ASSUME IInv, Separate, UserRemoves, NEW r \in Requests, HostStep(r),
           NEW s \in Requests, s # r
    PROVE  /\ host'[s] = host[s] /\ transfer'[s] = transfer[s]
           /\ record'[KeyOf[s]] = record[KeyOf[s]]
           /\ envelope[s] = "none" => envelope'[s] = "none"
<1>1. host'[s] = host[s] /\ transfer'[s] = transfer[s]
  BY DEF IInv, TypeOK, InboxType, HostStep, Serve, Receive, Lock, LockBusy, Refuse,
     Look, ScanOvertaken, ScanFinds, ScanFindsNone, Stage, Record, Publish,
     Ensure, Release, Answer, StepFails, HostDies, Goto
<1>2. KeyOf[s] # KeyOf[r]
  BY DEF Separate
<1>3. record'[KeyOf[s]] = record[KeyOf[s]]
  BY <1>2, HostWritesOnce, KeysOfRequests
<1>4. envelope[s] = "none" => envelope'[s] = "none"
  BY HostMoves
<1> QED BY <1>1, <1>3, <1>4

LEMMA HostKeepsSole ==
    ASSUME IInv, Separate, SoleInv, NEW r \in Requests, HostStep(r)
    PROVE  SoleInv'
<1> SUFFICES ASSUME UserRemoves PROVE SoleInv'
  BY DEF SoleInv
<1> USE KeysOfRequests
<1> DEFINE Sole(s) ==
      /\ host[s] \in {"idle", "locking", "looking", "scanning", "staging"} =>
           envelope[s] = "none" /\ record[KeyOf[s]] = NoTransfer
      /\ host[s] = "recording" => transfer[s] = s
      /\ host[s] # "ensuring"
<1>1. \A s \in Requests : Sole(s)
  BY DEF SoleInv
<1>2. ASSUME NEW s \in Requests, s # r PROVE Sole(s)'
  BY <1>1, <1>2, SoleKeys
<1>3. Sole(r)'
  <2>0. Sole(r)
    BY <1>1
  <2> USE DEF IInv, TypeOK, InboxType, Goto
  <2>1. CASE Receive(r)
    BY <2>0, <2>1 DEF Receive
  <2>2. CASE Lock(r)
    BY <2>0, <2>2 DEF Lock
  <2>3. CASE LockBusy(r)
    BY <2>0, <2>3 DEF LockBusy
  <2>4. CASE Refuse(r)
    BY <2>0, <2>4 DEF Refuse
  <2>5. CASE Look(r)
    BY <2>0, <2>5 DEF Look
  <2>6. CASE ScanFinds(r)
    BY <2>0, <2>6 DEF ScanFinds, Matching, Separate
  <2>7. CASE ScanFindsNone(r)
    BY <2>0, <2>7 DEF ScanFindsNone
  <2>8. CASE Stage(r)
    BY <2>0, <2>8 DEF Stage, SearchInv
  <2>9. CASE Record(r)
    BY <2>0, <2>9 DEF Record
  <2>10. CASE Publish(r)
    BY <2>0, <2>10 DEF Publish
  <2>11. CASE Ensure(r)
    BY <2>0, <2>11 DEF Ensure
  <2>12. CASE Release(r)
    BY <2>0, <2>12 DEF Release
  <2>13. CASE Answer(r)
    BY <2>0, <2>13 DEF Answer
  <2>14. CASE StepFails(r)
    BY <2>0, <2>14 DEF StepFails
  <2>15. CASE HostDies(r)
    BY <2>0, <2>15 DEF HostDies
  <2>16. CASE ScanOvertaken(r)
    BY <2>0, <2>16 DEF ScanOvertaken
  <2> QED BY <2>1, <2>2, <2>3, <2>4, <2>5, <2>6, <2>7, <2>8, <2>9, <2>10, <2>11,
  <2>12, <2>13, <2>14, <2>15, <2>16 DEF HostStep, Serve
<1> QED BY <1>2, <1>3 DEF SoleInv

LEMMA DeskKeepsSole ==
    ASSUME IInv, SoleInv, DeskStep
    PROVE  SoleInv'
<1>1. UNCHANGED <<record, host, transfer>>
  BY DeskLeavesHost DEF hostVars
<1> QED BY <1>1, DeskMoves DEF SoleInv

\* The host that comes to accept an envelope that has rows finds one of them left.
LEMMA HostKeepsRemoved ==
    ASSUME IInv, Separate, RowInv, SoleInv, RemovedInv,
           NEW r \in Requests, HostStep(r)
    PROVE  RemovedInv'
<1>1. UNCHANGED <<rows, gone, disposed>>
  BY HostLeavesDesk DEF deskVars
<1>2. ASSUME NEW s \in Requests, Granted(s)', ~Granted(s)
      PROVE  /\ transfer'[s] = transfer[s] /\ transfer[s] \in Requests
             /\ rows[transfer[s]] = 0 \/ ~UserRemoves
  <2>1. s = r /\ transfer'[s] = transfer[s] /\ host[s] \in {"publishing",
  "ensuring"}
    BY <1>2 DEF IInv, TypeOK, PortType, InboxType, HostStep, Serve, Receive, Lock,
       LockBusy, Refuse, Look, ScanOvertaken, ScanFinds, ScanFindsNone, Stage,
       Record, Publish, Ensure, Release, Answer, Respond, StepFails, HostDies,
       Goto, Granted
  <2>2. transfer[s] \in Requests
    BY <2>1, Grounds
  <2>3. CASE host[s] = "publishing"
    <3>1. envelope[transfer[s]] = "staged"
      BY <2>3 DEF IInv, SettleInv
    <3> QED BY <2>1, <2>2, <3>1 DEF RowInv, IInv, TypeOK, InboxType
  <2>4. CASE host[s] = "ensuring"
    BY <2>1, <2>2, <2>4 DEF SoleInv
  <2> QED BY <2>1, <2>3, <2>4
<1>3. ASSUME NEW s \in Requests, Granted(s), Granted(s)'
      PROVE  transfer'[s] = transfer[s]
  BY <1>3 DEF IInv, SettleInv, TypeOK, InboxType, HostStep, Serve, Receive, Lock,
     LockBusy, Refuse, Look, ScanOvertaken, ScanFinds, ScanFindsNone, Stage,
     Record, Publish, Ensure, Release, Answer, StepFails, HostDies, Granted
<1>4. ~UserRemoves => \A t \in Requests : gone[t] = 0
  BY DEF RemovedInv
<1>5. ASSUME NEW s \in Requests, Granted(s)',
             rows'[transfer'[s]] > 0, gone'[transfer'[s]] = rows'[transfer'[s]]
      PROVE  s \in disposed'
  <2>1. CASE Granted(s)
    BY <1>1, <1>3, <1>5, <2>1 DEF RemovedInv
  <2>2. CASE ~Granted(s)
    <3>1. rows[transfer[s]] = 0 \/ gone[transfer[s]] = 0
      BY <1>2, <1>4, <1>5, <2>2
    <3> QED BY <1>1, <1>2, <1>5, <2>2, <3>1
  <2> QED BY <2>1, <2>2
<1> QED BY <1>1, <1>4, <1>5 DEF RemovedInv

\* What the user removes is removed for those whose host has accepted it.
LEMMA DeskKeepsRemoved ==
    ASSUME IInv, RowInv, RemovedInv, DeskStep
    PROVE  RemovedInv'
<1>1. /\ port' = port /\ host' = host /\ transfer' = transfer
  BY DeskLeavesHost DEF hostVars
<1>2. \A s \in Requests : Granted(s)' <=> Granted(s)
  BY <1>1 DEF Granted
<1>3. \A s \in Requests : Granted(s) => transfer[s] \in Requests
  BY Names DEF IInv, SettleInv, Settled, Granted
<1>4. ASSUME NEW t \in Requests, Deliver(t) PROVE RemovedInv'
  <2>1. /\ gone' = gone /\ disposed' = disposed
        /\ rows' = [rows EXCEPT ![t] = rows[t] + 1]
    BY <1>4 DEF Deliver
  <2>2. rows \in [Requests -> Nat] /\ gone \in [Requests -> Nat]
    BY DEF IInv, TypeOK, InboxType
  <2>3. rows'[t] = rows[t] + 1 /\ \A u \in Requests : u # t => rows'[u] = rows[u]
    BY <2>1, <2>2
  <2>4. gone'[t] # rows'[t]
    BY <2>1, <2>2, <2>3 DEF RowInv
  <2> QED BY <1>1, <1>2, <1>3, <2>1, <2>3, <2>4 DEF RemovedInv
<1>5. ASSUME NEW t \in Requests, RemoveRows(t) PROVE RemovedInv'
  <2>1. UserRemoves /\ rows' = rows /\ disposed \subseteq disposed'
    BY <1>5 DEF RemoveRows
  <2>2. \A u \in Requests : u # t => gone'[u] = gone[u]
    BY <1>5 DEF RemoveRows, IInv, TypeOK, InboxType
  <2>3. \A s \in Requests : Granted(s) /\ transfer[s] = t => s \in disposed'
    BY <1>5 DEF RemoveRows, IInv, SettleInv, Granted
  <2> QED BY <1>1, <1>2, <1>3, <2>1, <2>2, <2>3 DEF RemovedInv
<1>6. CASE UNCHANGED <<rows, gone, disposed>>
  BY <1>1, <1>2, <1>6 DEF RemovedInv
<1> QED BY <1>4, <1>5, <1>6 DEF DeskStep, Drain, Claim, Recover, Unlink, Quarantine,
     Retain

LEMMA KeptInductive ==
    ASSUME Separate
    PROVE  HandoffSpec => [](HandoffInv /\ KeptInv)
<1>1. HandoffInit => SoleInv /\ RemovedInv
  BY KeysOfRequests
     DEF HandoffInit, InboxInit, PortInit, SoleInv, RemovedInv, Granted
<1>2. HandoffInv /\ RowInv /\ SoleInv /\ RemovedInv /\ [HandoffNext]_handoffVars
        => SoleInv' /\ RemovedInv'
  <2> SUFFICES ASSUME HandoffInv, RowInv, SoleInv, RemovedInv,
                      [HandoffNext]_handoffVars
               PROVE  SoleInv' /\ RemovedInv'
    OBVIOUS
  <2>1. CASE CaptureStep /\ UNCHANGED inboxVars
    <3>1. UNCHANGED <<record, host, transfer, envelope, rows, gone, disposed>>
      BY <2>1 DEF inboxVars, hostVars, deskVars
    <3>2. \A s \in Requests : port'[s] = "accepted" => port[s] = "accepted"
      BY <2>1, CapturePort DEF HandoffInv, IInv
    <3> QED BY <3>1, <3>2 DEF SoleInv, RemovedInv, Granted
  <2>2. CASE InboxStep
    BY <2>2, HostKeepsSole, HostKeepsRemoved, DeskKeepsSole, DeskKeepsRemoved
       DEF InboxStep, HandoffInv
  <2>3. CASE UNCHANGED handoffVars
    BY <2>3 DEF handoffVars, inboxVars, hostVars, deskVars, SoleInv, RemovedInv,
       Granted
  <2> QED BY <2>1, <2>2, <2>3 DEF HandoffNext
<1> QED BY <1>1, <1>2, RowInductive, PTL DEF HandoffSpec, KeptInv

\* A download that has been cancelled in the browser is in Barq's hands, or the user
\* has removed it there: no failure, crash or restart on the way loses one, as long
\* as downloads do not share a key that the user may have disposed of
\* (coordinator.ts, inbox.rs, browser_inbox_watcher.py).
THEOREM NothingIsLost ==
    ASSUME Separate
    PROVE  HandoffSpec => []NeverLost
<1>1. HandoffInv /\ KeptInv => NeverLost
  <2> SUFFICES ASSUME HandoffInv, KeptInv, NEW d \in Requests,
                      browser[d] = "cancelled", d \notin disposed
               PROVE  Has(d)
    BY DEF NeverLost
  <2>1. port[d] = "accepted"
    BY DEF HandoffInv, WordInv, WordOf
  <2>2. TransferOf(d) = transfer[d] /\ transfer[d] # NoTransfer
    BY <2>1 DEF HandoffInv, IInv, SettleInv, Settled, TransferOf
  <2>3. transfer[d] \in Requests /\ envelope[transfer[d]] \in Issued
    BY <2>1, <2>2, Names DEF HandoffInv, IInv, SettleInv, Granted
  <2>4. CASE envelope[transfer[d]] \in Kept
    BY <2>2, <2>4 DEF Has
  <2>5. CASE envelope[transfer[d]] = "unlinked"
    <3>1. rows[transfer[d]] > 0
      BY <2>3, <2>5 DEF HandoffInv, IInv, DeskInv
    <3>2. gone[transfer[d]] # rows[transfer[d]]
      BY <2>1, <3>1 DEF KeptInv, RemovedInv, Granted
    <3>3. gone[transfer[d]] <= rows[transfer[d]]
      BY <2>3 DEF KeptInv, RowInv
    <3>4. rows[transfer[d]] \in Nat /\ gone[transfer[d]] \in Nat
      BY <2>3 DEF HandoffInv, IInv, TypeOK, InboxType
    <3>5. gone[transfer[d]] < rows[transfer[d]]
      BY <3>2, <3>3, <3>4
    <3> QED BY <2>2, <3>5 DEF Has
  <2> QED BY <2>3, <2>4, <2>5 DEF Issued
<1> QED BY KeptInductive, <1>1, PTL

============================================================================
