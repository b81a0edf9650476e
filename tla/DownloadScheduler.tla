-------------------------- MODULE DownloadScheduler --------------------------
(***************************************************************************)
(* The download list of the desktop application: the rows, the start       *)
(* queue, the workers that hold a slot, pause-all and resume-all, and what *)
(* a restart finds in the database (src/src/ui/downloads_page.py with      *)
(* core/task_start_queue.py, core/database.py, core/worker.py and the      *)
(* worker of core/video_engine.py).                                        *)
(*                                                                         *)
(* Everything the page does runs in the thread of the user interface, one  *)
(* handler at a time.  A worker is a thread: it posts signals that the     *)
(* page handles later, in the order of posting, and the last of them is    *)
(* `finished', which frees the slot.  The database row is written in the   *)
(* same handler as the memory of the page, so one `status' stands for      *)
(* both; what a worker does on disk is the subject of ResilientDownloader. *)
(* The texts a worker shows at work ("Initializing...", "Downloading...",  *)
(* "Downloading Video...") are one class, "Downloading..." here; so are    *)
(* the two it shows after a stop, "Stopped" and "Paused".  "Expired" is    *)
(* left out: the error that follows it at once is shown in its place.      *)
(***************************************************************************)
EXTENDS Naturals, FiniteSets, SequencesExt

CONSTANTS
  Downloads,    \* rows ever added: the ids 1..Downloads, as AUTOINCREMENT
  Media,        \* ids whose dialog asked for a video
  FromBrowser,  \* ids that came from the browser, with its request headers
  VideoSites,   \* ids whose URL is_video_stream_url recognises
  Checked,      \* ids whose dialog named a checksum
  MaxSlots,     \* largest setting of max_concurrent_downloads
  MaxRestarts   \* bound on the number of restarts

Ids == 1..Downloads
Videos == Media \cup (VideoSites \ FromBrowser)

ASSUME SchedulerAssumption ==
  /\ Downloads \in Nat /\ MaxSlots \in Nat \ {0} /\ MaxRestarts \in Nat
  /\ Media \subseteq Ids /\ FromBrowser \subseteq Ids
  /\ VideoSites \subseteq Ids
  /\ Checked \subseteq Ids \ FromBrowser

VARIABLES
  order,       \* the keys of downloads_info, in the order of the dictionary
  nextId,      \* the next id the database gives out
  status,      \* status text of each row, in memory and in the database;
               \* "Pending" without a row
  queue,       \* TaskStartQueue: requests that wait for a slot, oldest first
  worker,      \* the table of workers, with the state of each thread
  signals,     \* signals posted by a worker and not yet handled by the page
  speeds,      \* ids whose entry of worker_speeds is above zero
  suspended,   \* scheduling_suspended: between pause-all and resume-all
  slots,       \* max_concurrent
  formats,     \* ids whose is_video flag was set since the start
  contexts,    \* ids with an entry in browser_request_headers
  options,     \* ids with an entry in task_options
  restarts,    \* number of restarts so far
  wanted       \* history: ids asked to run and not since stopped or ended

pageVars == <<order, status, queue, worker>>
memory == <<formats, contexts, options>>
vars == <<pageVars, nextId, signals, speeds, suspended, slots, memory,
          restarts, wanted>>

Working == "Downloading..."
Statuses == {"Pending", "Queued", Working, "Paused", "Error", "Completed"}

\* The names that count as interrupted when the application starts.
Interrupted == {"Pending", "Queued", "Initializing", "Downloading"}

\* Mutant: a recovered row gets a name that no other code uses.
RecoverAsStopped(text) == IF text \in Interrupted THEN "Stopped" ELSE text

RecoverStartupStatus(text) == IF text \in Interrupted THEN "Paused" ELSE text

Removed == (1..nextId - 1) \ ToSet(order)
NoWorker == [phase |-> "none", stop |-> FALSE, video |-> FALSE,
             hash |-> FALSE]
Busy(table) == {d \in Ids : table[d].phase # "none"}

\* Mutant: a start takes the kind from the address alone.
RequestOfPage(d) == [id |-> d, video |-> FALSE, hash |-> FALSE]

\* QueuedDownload: what a request keeps while it waits.
Request(d) == [id |-> d, video |-> d \in formats,
               hash |-> d \in options \cap Checked]
QueuedIds(q) == {q[i].id : i \in DOMAIN q}

\* Mutant: a request is left in the queue.
Leave(q, d) == q

\* What is left of a sequence, in its order, without the elements of S.
Without(seq, S) ==
  LET left[n \in 0..Len(seq)] ==
        IF n = 0 THEN <<>>
        ELSE IF seq[n] \in S THEN left[n - 1] ELSE Append(left[n - 1], seq[n])
  IN left[Len(seq)]

Discard(q, d) == Without(q, {item \in ToSet(q) : item.id = d})

(***************************************************************************)
(* The page's own calls, on a record of the variables they change, and of  *)
(* the request headers, which they read.                                   *)
(***************************************************************************)
Page == [order |-> order, status |-> status, queue |-> queue,
         worker |-> worker, contexts |-> contexts]
Becomes(p) == /\ order' = p.order /\ status' = p.status
              /\ queue' = p.queue /\ worker' = p.worker

HasRow(p, d) == d \in ToSet(p.order)
SetStatus(p, d, text) ==
  IF HasRow(p, d) THEN [p EXCEPT !.status[d] = text] ELSE p

\* start_worker: `bad' holds the ids whose worker cannot be created now.
StartWorker(p, item, bad) ==
  LET d == item.id
      q == Discard(p.queue, d)
      video == item.video \/ (d \notin p.contexts /\ d \in VideoSites)
      fresh == [NoWorker EXCEPT !.phase = "new", !.video = video,
                                !.hash = item.hash /\ ~video]
  IN IF ~HasRow(p, d) \/ p.worker[d].phase # "none" THEN p
     ELSE IF d \in bad THEN SetStatus([p EXCEPT !.queue = q], d, "Error")
     ELSE [p EXCEPT !.queue = q, !.worker[d] = fresh]

Enqueue(p, item, text) ==
  IF item.id \in QueuedIds(p.queue) THEN p
  ELSE SetStatus([p EXCEPT !.queue = Append(@, item)], item.id, text)

\* Mutant: the limit is compared after the start.
AttemptOneMore(p, item, idle, bad) ==
  LET d == item.id
  IN IF ~HasRow(p, d) \/ p.worker[d].phase # "none" THEN p
     ELSE IF idle THEN Enqueue(p, item, "Paused")
     ELSE IF Cardinality(Busy(p.worker)) <= slots
          THEN StartWorker(p, item, bad)
     ELSE Enqueue(p, item, "Queued")

AttemptStart(p, item, idle, bad) ==
  LET d == item.id
  IN IF ~HasRow(p, d) \/ p.worker[d].phase # "none" THEN p
     ELSE IF idle THEN Enqueue(p, item, "Paused")
     ELSE IF Cardinality(Busy(p.worker)) < slots
          THEN StartWorker(p, item, bad)
     ELSE Enqueue(p, item, "Queued")

\* Mutant: the request is taken off before the limit is looked at.
ServePopsFirst(p, bad, cap) ==
  LET item == Head(p.queue)
      rest == [p EXCEPT !.queue = Tail(@)]
  IN IF p.queue = <<>> THEN p
     ELSE IF Cardinality(Busy(p.worker)) >= cap THEN rest
     ELSE StartWorker(rest, item, bad)

\* One turn of the loop of process_queue; a request is only ever taken off
\* the front, so the loop visits the queue it began with.
ServeNext(p, bad, cap) ==
  LET item == Head(p.queue)
      rest == [p EXCEPT !.queue = Tail(@)]
  IN IF p.queue = <<>> \/ Cardinality(Busy(p.worker)) >= cap THEN p
     ELSE IF HasRow(p, item.id) /\ p.status[item.id] = "Completed" THEN rest
     ELSE StartWorker(rest, item, bad)

ProcessQueue(p, bad, cap) ==
  LET turn[n \in 0..Len(p.queue)] ==
        IF n = 0 THEN p ELSE ServeNext(turn[n - 1], bad, cap)
  IN turn[Len(p.queue)]

BadStarts == {{}} \cup {{d} : d \in Ids}
Failed(p, ids) == {d \in ids : p.status[d] = "Error"}

Init ==
  /\ order = <<>> /\ nextId = 1
  /\ status = [d \in Ids |-> "Pending"]
  /\ queue = <<>>
  /\ worker = [d \in Ids |-> NoWorker]
  /\ signals = [d \in Ids |-> <<>>]
  /\ speeds = {} /\ suspended = FALSE /\ slots \in 1..MaxSlots
  /\ formats = {} /\ contexts = {} /\ options = {}
  /\ restarts = 0 /\ wanted = {}

(***************************************************************************)
(* New rows: a dialog the user accepted, or a browser envelope.            *)
(***************************************************************************)
NewRow(d, bad) ==
  LET item == [id |-> d, video |-> d \in Media, hash |-> d \in Checked]
      row == [Page EXCEPT !.order = Append(@, d), !.status[d] = "Pending",
                          !.contexts = @ \cup ({d} \cap FromBrowser)]
      p == AttemptStart(row, item, suspended, bad)
  IN /\ Becomes(p)
     /\ nextId' = d + 1
     /\ formats' = formats \cup ({d} \cap Media)
     /\ wanted' = (wanted \cup {d}) \ Failed(p, {d})
     /\ UNCHANGED <<signals, speeds, suspended, slots, restarts>>

AddDownload(d, bad) ==
  /\ d = nextId /\ d \notin FromBrowser
  /\ NewRow(d, bad)
  /\ options' = options \cup {d}
  /\ UNCHANGED contexts

AddBrowserDownload(d, bad) ==
  /\ d = nextId /\ d \in FromBrowser
  /\ NewRow(d, bad)
  /\ contexts' = contexts \cup {d}
  /\ UNCHANGED options

(***************************************************************************)
(* What the user does with a row, and with all of them.                    *)
(***************************************************************************)
StopIn(table, ids) ==
  [d \in Ids |-> IF d \in ids /\ table[d].phase # "none"
                 THEN [table[d] EXCEPT !.stop = TRUE] ELSE table[d]]

\* The button of a row.  Between the end of the thread and its `finished'
\* signal the row is in the table with a dead thread: the click is lost.
ToggleStart(d, bad) ==
  /\ d \in ToSet(order) /\ status[d] # "Completed"
  /\ worker[d].phase = "none"
  /\ LET p == AttemptStart(Page, Request(d), suspended, bad)
     IN Becomes(p) /\ wanted' = (wanted \cup {d}) \ Failed(p, {d} \cap bad)
  /\ UNCHANGED <<nextId, signals, speeds, suspended, slots, memory,
                 restarts>>

ToggleStop(d) ==
  /\ d \in ToSet(order) /\ status[d] # "Completed"
  /\ worker[d].phase \in {"new", "run"}
  /\ worker' = StopIn(worker, {d})
  /\ speeds' = speeds \ {d}
  /\ wanted' = wanted \ {d}
  /\ UNCHANGED <<order, nextId, status, queue, signals, suspended, slots,
                 memory, restarts>>

\* Mutant: pausing drops what waits and leaves its rows.
PauseSilently ==
  /\ suspended' = TRUE
  /\ queue' = <<>>
  /\ worker' = StopIn(worker, Ids)
  /\ speeds' = speeds \ Busy(worker)
  /\ wanted' = {}
  /\ UNCHANGED <<order, nextId, status, signals, slots, memory, restarts>>

PauseAll ==
  /\ suspended' = TRUE
  /\ queue' = <<>>
  /\ status' = [d \in Ids |-> IF d \in QueuedIds(queue) THEN "Paused"
                              ELSE status[d]]
  /\ worker' = StopIn(worker, Ids)
  /\ speeds' = speeds \ Busy(worker)
  /\ wanted' = {}
  /\ UNCHANGED <<order, nextId, signals, slots, memory, restarts>>

\* resume_all asks for the rows one after the other, and passes over those
\* that are completed or whose worker is still in the table.
Resume(p, d, bad) ==
  IF d \in Busy(p.worker) \/ p.status[d] = "Completed" THEN p
  ELSE AttemptStart(p, Request(d), FALSE, bad)

ResumeRows(p, bad) ==
  LET turn[n \in 0..Len(p.order)] ==
        IF n = 0 THEN p ELSE Resume(turn[n - 1], p.order[n], bad)
  IN turn[Len(p.order)]

ResumeAll(bad) ==
  LET p == ResumeRows(Page, bad)
      asked == {d \in ToSet(order) : status[d] # "Completed"} \ Busy(worker)
  IN /\ suspended' = FALSE
     /\ Becomes(p)
     /\ wanted' = (wanted \cup asked) \ Failed(p, asked \cap bad)
     /\ UNCHANGED <<nextId, signals, speeds, slots, memory, restarts>>

SettingsChanged(n, bad) ==
  LET p == IF suspended THEN Page ELSE ProcessQueue(Page, bad, n)
  IN /\ slots' = n
     /\ Becomes(p)
     /\ wanted' = wanted \ Failed(p, QueuedIds(queue))
     /\ UNCHANGED <<nextId, signals, speeds, suspended, memory, restarts>>

(***************************************************************************)
(* A worker's thread.                                                      *)
(***************************************************************************)
Post(d, list) == signals' = [signals EXCEPT ![d] = @ \o list]

\* What the thread says last.  Unasked, a transfer completes or fails; a stop
\* may come too late for either.  A stopped file worker says so, a stopped
\* video worker says nothing.
Farewells(w) ==
  {<<"Completed", "task_finished">>, <<"error">>}
  \cup (IF w.stop THEN {IF w.video THEN <<>> ELSE <<"Paused">>} ELSE {})

WorkerBegins(d) ==
  /\ worker[d].phase = "new"
  /\ worker' = [worker EXCEPT ![d].phase = "run"]
  /\ Post(d, <<Working>>)
  /\ UNCHANGED <<order, nextId, status, queue, speeds, suspended, slots,
                 memory, restarts, wanted>>

WorkerMoves(d) ==
  /\ worker[d].phase = "run" /\ ~worker[d].stop
  /\ signals[d] = <<>> /\ d \notin speeds
  /\ Post(d, <<"progress">>)
  /\ UNCHANGED <<pageVars, nextId, speeds, suspended, slots, memory,
                 restarts, wanted>>

WorkerEnds(d) ==
  /\ \/ worker[d].phase = "run"
        /\ \E last \in Farewells(worker[d]) :
             Post(d, Append(last, "finished"))
     \/ \* the stop came before the task of the thread took its first step
        worker[d].phase = "new" /\ worker[d].stop /\ ~worker[d].video
        /\ Post(d, <<"Paused", "finished">>)
  /\ worker' = [worker EXCEPT ![d].phase = "done"]
  /\ UNCHANGED <<order, nextId, status, queue, speeds, suspended, slots,
                 memory, restarts, wanted>>

(***************************************************************************)
(* The page handles the oldest signal of a worker.                         *)
(***************************************************************************)
Take(d, kinds) ==
  /\ signals[d] # <<>> /\ Head(signals[d]) \in kinds
  /\ signals' = [signals EXCEPT ![d] = Tail(@)]

ShowStatus(d) ==
  /\ Take(d, Statuses)
  /\ Becomes(SetStatus(Page, d, Head(signals[d])))
  /\ UNCHANGED <<nextId, speeds, suspended, slots, memory, restarts, wanted>>

UpdateProgress(d) ==
  /\ Take(d, {"progress"})
  /\ speeds' = speeds \cup {d}
  /\ UNCHANGED <<pageVars, nextId, suspended, slots, memory, restarts,
                 wanted>>

DownloadFinished(d) ==
  /\ Take(d, {"task_finished"})
  /\ Becomes(SetStatus(Page, d, "Completed"))
  /\ speeds' = speeds \ {d}
  /\ contexts' = contexts \ {d} /\ options' = options \ {d}
  /\ wanted' = wanted \ {d}
  /\ UNCHANGED <<nextId, suspended, slots, formats, restarts>>

DownloadError(d) ==
  /\ Take(d, {"error"})
  /\ Becomes(SetStatus(Page, d, "Error"))
  /\ speeds' = speeds \ {d}
  /\ wanted' = wanted \ {d}
  /\ UNCHANGED <<nextId, suspended, slots, memory, restarts>>

\* Mutant: the table keeps a worker whose thread was stopped.
CleanupFinished(d, bad) ==
  /\ Take(d, {"finished"})
  /\ LET freed == IF worker[d].stop THEN Page
                  ELSE [Page EXCEPT !.worker[d] = NoWorker]
         p == IF suspended THEN freed ELSE ProcessQueue(freed, bad, slots)
     IN Becomes(p) /\ wanted' = wanted \ Failed(p, QueuedIds(queue))
  /\ speeds' = speeds \ {d}
  /\ UNCHANGED <<nextId, suspended, slots, memory, restarts>>

\* Mutant: the queue is not served.
CleanupOnly(d, bad) ==
  /\ Take(d, {"finished"})
  /\ Becomes([Page EXCEPT !.worker[d] = NoWorker])
  /\ speeds' = speeds \ {d}
  /\ UNCHANGED <<nextId, suspended, slots, memory, restarts, wanted>>

CleanupWorker(d, bad) ==
  /\ Take(d, {"finished"})
  /\ LET freed == [Page EXCEPT !.worker[d] = NoWorker]
         p == IF suspended THEN freed ELSE ProcessQueue(freed, bad, slots)
     IN Becomes(p) /\ wanted' = wanted \ Failed(p, QueuedIds(queue))
  /\ speeds' = speeds \ {d}
  /\ UNCHANGED <<nextId, suspended, slots, memory, restarts>>

(***************************************************************************)
(* _remove_download waits for the thread: a running worker is stopped and  *)
(* ends inside the call, and its signals reach a page without the row.     *)
(***************************************************************************)
RemoveDownload(d) ==
  /\ d \in ToSet(order)
  /\ \/ worker[d].phase \in {"none", "done"} /\ UNCHANGED <<worker, signals>>
     \/ /\ worker[d].phase \in {"new", "run"}
        /\ worker' = [worker EXCEPT ![d].phase = "done", ![d].stop = TRUE]
        /\ \E last \in Farewells(worker'[d]) :
             Post(d, Append(last, "finished"))
  /\ queue' = Discard(queue, d)
  /\ order' = Without(order, {d})
  /\ formats' = formats \ {d}
  /\ contexts' = contexts \ {d} /\ options' = options \ {d}
  /\ status' = [status EXCEPT ![d] = "Pending"]
  /\ wanted' = wanted \ {d}
  /\ UNCHANGED <<nextId, speeds, suspended, slots, restarts>>

\* The order of the rows that the database returns.
NewestFirst(rows) ==
  {s \in [1..Cardinality(rows) -> rows] :
     /\ ToSet(s) = rows
     /\ \A i, j \in DOMAIN s : i < j => s[i] > s[j]}

\* The process ends, by Exit or by a crash, and the next one loads the rows
\* of the database, the newest first.
Restart ==
  /\ restarts < MaxRestarts
  /\ restarts' = restarts + 1
  /\ order' \in NewestFirst(ToSet(order))
  /\ status' = [d \in Ids |-> IF d \in ToSet(order)
                              THEN RecoverStartupStatus(status[d])
                              ELSE "Pending"]
  /\ queue' = <<>>
  /\ worker' = [d \in Ids |-> NoWorker]
  /\ signals' = [d \in Ids |-> <<>>]
  /\ speeds' = {} /\ suspended' = FALSE
  /\ formats' = {} /\ contexts' = {} /\ options' = {} /\ wanted' = {}
  /\ UNCHANGED <<nextId, slots>>

PageSteps ==
  \E bad \in BadStarts :
    \/ \E d \in Ids : \/ AddDownload(d, bad) \/ AddBrowserDownload(d, bad)
                      \/ ToggleStart(d, bad) \/ CleanupWorker(d, bad)
    \/ ResumeAll(bad)
    \/ \E n \in 1..MaxSlots : SettingsChanged(n, bad)

RowSteps ==
  \E d \in Ids : \/ ToggleStop(d) \/ RemoveDownload(d)
                 \/ ShowStatus(d) \/ UpdateProgress(d)
                 \/ DownloadFinished(d) \/ DownloadError(d)

WorkerSteps ==
  \E d \in Ids : WorkerBegins(d) \/ WorkerMoves(d) \/ WorkerEnds(d)

Next == PageSteps \/ RowSteps \/ WorkerSteps \/ PauseAll \/ Restart

Spec == Init /\ [][Next]_vars

\* Threads run, a transfer ends (its retries are bounded, and so is every
\* wait of a session, see ResilientDownloader), and the event loop of the
\* page handles what is posted to it.
HandleSignal(d) ==
  \/ ShowStatus(d) \/ UpdateProgress(d) \/ DownloadFinished(d)
  \/ DownloadError(d) \/ \E bad \in BadStarts : CleanupWorker(d, bad)
Fairness ==
  \A d \in Ids : /\ WF_vars(WorkerBegins(d)) /\ WF_vars(WorkerEnds(d))
                 /\ WF_vars(HandleSignal(d))
FairSpec == Spec /\ Fairness

(***************************************************************************)
(* Properties                                                              *)
(***************************************************************************)
\* The shape of the state of the page.
TypeOK ==
  /\ ToSet(order) \subseteq Ids /\ IsInjective(order)
  /\ nextId \in 1..Downloads + 1
  /\ status \in [Ids -> Statuses]
  /\ QueuedIds(queue) \subseteq Ids
  /\ worker \in [Ids -> [phase : {"none", "new", "run", "done"},
                         stop : BOOLEAN, video : BOOLEAN,
                         hash : BOOLEAN]]
  /\ speeds \subseteq Ids /\ suspended \in BOOLEAN /\ slots \in 1..MaxSlots

WaitingIsReal ==
  /\ \A i, j \in DOMAIN queue : queue[i].id = queue[j].id => i = j
  /\ \A d \in QueuedIds(queue) :
       /\ d \in ToSet(order) \ Busy(worker)
       /\ status[d] \in {"Queued", "Paused"}
  /\ \A d \in ToSet(order) : status[d] = "Queued" =>
       d \in QueuedIds(queue) \cup Busy(worker)

NoSlotIdle ==
  suspended \/ queue = <<>> \/ Cardinality(Busy(worker)) >= slots

SpeedNeedsWorker == speeds \subseteq Busy(worker)

\* The rows, the queue, the table of workers and the speeds tell one story.
\* A download that waits has a row, waits once, has no worker and shows that
\* it waits; one that shows "Queued" waits or has been given a slot.  While
\* scheduling is not suspended nothing waits beside a free slot.  The total
\* speed counts no download without a worker.
PageIsConsistent == WaitingIsReal /\ NoSlotIdle /\ SpeedNeedsWorker

\* What the user asked to run, and has not stopped since, has a worker or a
\* place in the queue, whatever was paused, resumed, removed or resized
\* around it.
WantedIsServed ==
  \A d \in wanted : d \in QueuedIds(queue) \cup Busy(worker)

\* A worker is never added beyond the limit in force, not even by
\* resume-all or by a change of the limit.
NeverOverLimit ==
  [][Busy(worker') \ Busy(worker) # {} =>
       Cardinality(Busy(worker')) <= slots']_vars

\* Until the application restarts, every start of a download, direct, from
\* the queue or after a pause, is of the kind and with the checksum that its
\* dialog asked for.  An address of a video site that did not come from the
\* browser asks for a video by itself, and a video has no checksum.
StartsAsAsked ==
  [][\A d \in (Busy(worker') \ Busy(worker)) :
       restarts = 0 => /\ worker'[d].video <=> d \in Videos
                       /\ worker'[d].hash <=> d \in Checked \ Videos]_vars

\* A removed download never comes back: signals of its worker that arrive
\* later put no row, no request and no worker in its place.
RemovedStaysAway ==
  [][\A d \in Removed :
       /\ d \notin ToSet(order') \cup QueuedIds(queue')
       /\ d \in Busy(worker') => d \in Busy(worker)]_vars

\* A waiting download leaves the queue, unless scheduling is suspended.
QueueDrains ==
  \A d \in Ids : (d \in QueuedIds(queue) /\ ~suspended)
                   ~> (d \notin QueuedIds(queue) \/ suspended)

\* A worker that was told to stop leaves the table.
StopsLand ==
  \A d \in Ids : worker[d].stop ~> worker[d].phase = "none"

\* "Never pretend an in-memory worker or queue survived an app restart."
RestartIsHonest ==
  [][restarts' # restarts =>
       \A d \in ToSet(order') : status'[d] # Working]_vars
==============================================================================
