# Barq in TLA+

Barq is a download manager: a PyQt desktop application with a Python download
engine, a Rust engine that is being built beside it, and a browser extension
that hands downloads over through a native messaging host. This directory holds
TLA+ models of the parts whose correctness depends on the order in which things
happen, the TLC runs that check them on small instances, and TLAPS proofs of
what holds for every value of the constants.

`tlc -workers 2 -config MCInbox.cfg MCDurableInbox` runs a check,
`tlapm DurableInboxProofs.tla` checks the proofs of a module. `PROJECT.json`
lists the runs, the lines of code each definition stands for, a deliberate bug
for every property that is checked (operators commented as mutants), the hazards
of the code and the findings.

## 1. Inventory

Every component, with the state it keeps, its operations and what makes it
correct. Paths are those of the repository.

### The Rust engine (`engine/crates`)

| component | state | operations | correct when |
|---|---|---|---|
| `state-store`, `engine-core` | SQLite table of tasks and tombstones, schema version | open with migration, create, get, list, update transfer state, confirm finalization, transition, delete | no update is lost, an attempt has one owner, a row that is written can be read, an observed file is never mixed with another |
| `adaptive-scheduler` | a vector of byte ranges | partition, steal half of the largest rest | the ranges cover the file once, always |
| `transport-curl` | none between calls | metadata probe, download to a writer, redirects | only a final success body is written, only http is followed |
| `file-writer` | none | preallocate, write at an offset | bytes that exist survive a preallocation |
| `engine-daemon`, `ipc-protocol` | none | ping; everything else is rejected as not ready | - |

### The Python download engine (`src/core`)

| component | state | operations | correct when |
|---|---|---|---|
| `resilient_downloader.py`, `worker.py` | `.part`, `.state.json`, the destination, a segment map, one event loop per worker, executor jobs | probe, preallocate, segments or a single stream, retries, auto-save, finalize, stop | what replaces the destination is one whole version of the file, and what the state counts survives a power loss |
| `traffic_control.py` | one token bucket for all workers | set the limit, acquire | acquire returns, and the rate is kept |
| `database.py`, `task_start_queue.py`, `ui/downloads_page.py` | rows, an in-memory queue, the workers | add, start, pause and resume one or all, finish, remove, load at start | a download that is to run gets to run, never twice at once, and the list tells the truth |
| `browser_inbox_watcher.py` | the inbox directory, claimed files | drain, recover, deliver, acknowledge, quarantine | every envelope becomes a row, once |
| `settings.py`, `queue_manager.py` | a JSON file each | load, save as a whole | - |
| `barq_app.py`, `ipc_server.py`, `ui/main_window.py` | which instance listens, unread requests, open windows | launch, forward, open, hide, show, exit | one instance in the end, an address that was handed over reaches the user |
| `video_engine.py` | a thread per video | run, stop | a worker that was stopped leaves its slot |
| `downloader.py`, `updater.py`, `url_resolver.py`, `utils.py` | little or none | - | - |

### The browser side (`apps`, `packages`)

| component | state | operations | correct when |
|---|---|---|---|
| `browser-core/src/capture/coordinator.ts` | a marker per download in `storage.local` | capture, recover, late pause | no download is lost, none is left paused without a marker |
| `browser-core/src/native/client.ts` | a port, a pending greeting, pending responses, a lease | connect, prepareCapture, disconnect | each request is answered once, by its own response or by a timeout |
| `browser-core/src/context/assembler.ts` | none | builds an envelope with its idempotency key | different downloads have different keys |
| `native-host/src/inbox.rs`, `protocol.rs`, `main.rs` | inbox files: `.pending`, `.json`, `.record`, `.lock` | persist an envelope once for its key, answer | accepted means durable, and one key means one envelope |
| `native-host` framing, platform, ipc | none | - | - |
| `extension/entrypoints/background.ts`, popup | listeners, an alarm | start captures and recovery | - |
| `scripts/setup_browser_integration.py`, `browser_registry.py`, `doctor_browser_integration.py` | a manifest per browser, an index of them, the host with its compiled-in callers | detect, register; the doctor only reads | registering one browser never cuts off another, and no manifest allows more than was asked for |
| `browser_installer.py` | manifests of the legacy bridge | retire at start | - |

### How they interact

- The extension *calls* the browser's download API and *posts messages* to a host
  process, one per port; the host and the desktop application share nothing but
  the *files* of the inbox; the watcher *calls back* into the download list.
- The download list *starts threads* (workers), which *emit queued signals*; each
  worker runs an event loop, which hands file writes to an *executor pool* and
  asks one *shared token bucket* for every chunk.
- Launches of the application meet on a *local socket*; the registration scripts
  meet each other, the browsers and the user in *files*.
- The task table is shared by *database transactions* and nothing else.

### What is hard

- Three kinds of interruption: the service worker ends between any two awaits,
  a host ends at any system call, the machine loses power while a file is
  being written.
- Cancellation that does not reach what is already running: a job of the pool, a
  pause the browser has not carried out yet, a request the host has read.
- Timers that fire while the work of the last one is still going on: the recovery
  alarm, the drain timer in the event loop of a dialog, the auto-save.
- State read at one time and used at another: copies of rows, the markers that
  `recover()` lists, a `state.json` from an earlier session, a `.record` file that
  outlives what it stands for.

- A table that outlives its threads: a worker keeps its slot until its last signal
  has been handled, and every handler in between sees a thread that has ended.
- Commands that are killed half-way, between several files that must agree.

`PROJECT.json` has each hazard at the line where it bites.

## 2. The modules

| module | what it is |
|---|---|
| `StateStore` | the task table, each transaction one action |
| `TaskLifecycle` | abstract: the phases of a task's life; `StateStore` implements it |
| `StateStoreProofs` | the theorems about both |
| `ResilientDownloader` | the sessions of one download, their files and threads |
| `ResilientDownloaderProofs` | the theorems about the downloader |
| `NativePort` | the port: requests and their answers, and the count of faults |
| `DurableInbox` | EXTENDS NativePort: hosts, inbox files, watcher, rows |
| `CaptureCoordinator` | EXTENDS NativePort: browser, markers, `capture()`, `recover()`, service worker |
| `BrowserHandoff` | EXTENDS both and interleaves them: a download's whole way from `onCreated` to its row |
| `HandoffPromise` | abstract: who keeps a download; `BrowserHandoff` implements it |
| `DurableInboxProofs` | the theorems about the inbox |
| `BrowserHandoffProofs` | EXTENDS both: the theorems about the handoff |
| `DownloadScheduler` | the download list: rows, start queue, slots, workers and their signals, restart |
| `DownloadSchedulerProofs` | the theorems about the download list |
| `SpeedLimiter` | the token bucket and the settings page that changes it |
| `DesktopInstance` | launches, the socket, windows, and the watchers of several instances |
| `DesktopInstanceProofs` | the theorems about the instances |
| `BrowserRegistration` | the register command, its files and who edits them |
| `BrowserRegistrationProofs` | the theorems about the registration |
| `SetInduction` | induction over the natural numbers in a form the provers can use |
| `MC...` | instances for TLC |

### StateStore

`tasks`, `tombstones` and `schema` are the tables and the schema version.
`held[c][i]` is the copy of row `i` that caller `c` has read at some time, however
long ago: each mutation takes its version and generation from such a copy, which
is how the code's optimistic check is put to the test. A transaction (`BEGIN
IMMEDIATE`) is one action; one that fails rolls back and is no step. A caller may
restart at any time and keeps nothing. URLs and paths never change and are left
out; an ETag, a Last-Modified and a range observation are one validator; the length
in a representation's identity is the row's size, as the code derives it when it
reads. Both `i64` limits are constants: counters and the byte counts and sizes a
worker reports (`Reported`, one more than SQLite can keep) reach the refusal there.

### ResilientDownloader

A file is `Size` blocks, each of which holds the version of the server's file it was
loaded from, or zero. A session that finds no usable `state.json` chooses any number of
segments up to `Parts`, as the dialog and the settings do (`worker.py:92`). `part` is
what the operating system shows of `.part` and `durable` what it was at its last fsync;
after a power loss any mixture of the two may be left (`AfterPowerLoss`). `saved` is
`state.json`. `pc` is the await of `start()`; `conn[s]` that of a segment's task. A
write is two steps, one of the pool (`Write`) and one of the event loop
(`SegmentAdvances`), and a save is two steps with writes in between, as `_save_state`
blocks the loop but not the pool. `late` holds the jobs of cancelled tasks, which nobody
waits for. Three history variables remember the two ways in which the code can spoil a
`.part` (`outdated`, `misled`: an old `state.json`; `struck`: a late job), so that
`DeliveredIsWhole` and `SavedClaimsAreDurable` say what holds otherwise; the two
violation runs show that these ways are real. Left out: headers, redirects, cookies, the
speed limiter and the checksum comparison (a mismatch fails like any other
verification). An empty file is left out as well: the size a server announces is in
`1..Size`.

### NativePort, DurableInbox, CaptureCoordinator, BrowserHandoff

A request is named for its download, and the envelope it creates for the request.
In the code one client shares one port between requests; here each request has its
own, as the host treats requests one by one and the coordinator awaits its own
response only.

`DurableInbox` has one action for each file-system step of `persist_idempotent`: look
for the record, scan, stage, record, publish or make sure that it is published, remove
the lock. A scan lists all files of the inbox and then reads them: `overtaken` are the
hosts during whose scan a file was renamed, by the watcher or a host of another key, and
`ScanOvertaken` is the error they may get. `envelope[t]` is where the file of `t` is:
nowhere, a `.pending` file cut short or whole, `.json`, `.processing`, quarantine, or
removed after delivery. `StepFails` lets a step return an error after any part of its
effect, `HostDies` ends the process there, which leaves the `.lock` file. On the
desktop's side a file is claimed or found claimed, delivered (which commits a row), and
unlinked; `Retain` is every way in which it stays. `RemoveRows` is the user who removes
the row; `disposed` then remembers which requests were answered with it. It matters
because a `.record` never expires.

`CaptureCoordinator` has one action per await of `coordinator.ts`, with the effect of
the call made there. `marker` is what is in `storage.local`. `pausing` is the pause
under way, which the browser may carry out after the deadline of 600 ms or after the
worker has ended; its result is then dropped. `rescue` is a run of `recover()` with the
marker it has *listed*, which is what it decides on, and `overlapped` remembers whether
it was listed while `capture()` was still at work on the same download. Cancelling a
download that has completed succeeds, as in Chrome; Firefox, where it fails, has no
registered host yet (`setup_browser_integration.py:63`).

`BrowserHandoff` is the conjunction: a step of one side that leaves the other's
variables alone, with `port` and `faults` shared.

### DownloadScheduler

Every handler of the page runs in one thread, so a handler with all it calls is one
action: `attempt_start_download`, `start_worker` and `process_queue` are operators on a
record of what they change (`order`, `status`, `queue`, `worker`) and of the request
headers that `start_worker` reads (`contexts`: a browser envelope stores its headers
before it asks for the start). The actions compose them as the code does; the loops of
`process_queue` and `resume_all` and the removal of a request are recursive functions of
the number of turns, so that the proofs can follow them turn by turn. `Videos` are the
ids that become a video: their dialog said so, or their address is one of a video site
and they did not come from the browser. `worker[d].phase` is `new`, `run` or `done`: a
thread that has ended stays in the table until its `finished` signal is handled.
`signals[d]` is what Qt has queued, in the order of posting. `Farewells` is what a
thread says last, and a stop may come too late for it; a stopped video worker says
nothing, so its row keeps "Downloading Video...". `bad` is the download whose worker
cannot be constructed in a step, which `start_worker` turns into "Error". The three
dictionaries that a start is rebuilt from (`formats`, `contexts`, `options`) are sets of
ids. `wanted` is history: what the user asked to run and has not stopped since. The
statuses of a worker at work are one class, see the head of the module.
`_remove_download` waits for the thread inside the handler, so the worker ends in the
same step.

### SpeedLimiter

The locked part of `acquire` has no await and is one step (`Turn`); `set_limit` runs in
another thread and is four steps, as it takes no lock. Time is counted in ticks and
rates in tokens per tick, rounded up for a sleep.

### DesktopInstance

`at[l]` is where launch `l` is in `main()`. The probe of the port and the listening are
far apart, with a modal warning in between, so several launches can become instances;
so does a launch whose probe fails for any other reason, as every exception counts for
an absent instance. `overlap` remembers that it happened, `by` which instances have
inserted a row of a file. All instances watch one inbox: `hand[l]` is the
file that the watcher of `l` delivers, with its two steps (row, unlink), and `cut` the
files whose instance ended between them. `Exit` covers the menu, a crash and the end
of the session.

### BrowserRegistration

One `register` command at a time, step by step, each of which may be its last (`Fail`).
`kind` and `callers` are the manifests, `index` the state file, `host` the callers
compiled into the binary. `Requests` is what the arguments can ask for. `Edit` bounds
what others do to the files: delete, damage or replace a manifest, add an origin that
is not canonical, write a good manifest by hand or restore the `.bak` beside it, lose
the index or the binary. `asked`, `touched`, `edited` and `lost` are history: who put a
caller where, and which files somebody changed since the command, or the host, was made.
Nobody but the command compiles the host: a `cargo build` by hand takes its callers from
the environment, so nothing can be said of it. The doctor is left out, as it only reads.
Linux only, as the scripts; a dry run changes nothing and is left out.

## 3. What the runs check

| run | instance | properties |
|---|---|---|
| `state_store` | 1 task, 2 callers, 2 validators, 2 bytes and one too many, counters up to 7 | all seven of `StateStore` |
| `downloader` | 2 blocks, 1 or 2 segments, 2 sessions, 2 versions, 1 crash | `TypeOK`, `SavedClaimsAreDurable`, `DeliveredIsWhole` |
| `downloader_ends` | 3 blocks, 1 or 2 segments, 2 tries, 1 session, fair | `EverySessionEnds` |
| `inbox` | 2 hosts for one key and 1 for another, 2 faults, user removes rows, fair | all seven of `DurableInbox` |
| `handoff` | 1 download, 3 faults, user removes rows, fair | the seven of `BrowserHandoff` |
| `scheduler` | 2 downloads of different kinds, 1 or 2 slots, 1 restart, fair | the eight of `DownloadScheduler` |
| `registration` | 2 browsers, 1 custom directory, 2 extensions, 1 edit, any number of commands | `HostServesTracked`, `LeastPrivilege`, `CompletedMeansServed` |
| `instance` | 3 launches, 1 with an address, 1 envelope, a tray, fair | `OneRowUnlessOverlap`, `NoInstanceTwice`, `UrlArrives`, `EnvelopesLand` |
| `downloader_stale_state` | 2 blocks, 3 sessions | `ResumeIsSafe` is violated |
| `downloader_late_replace` | 2 blocks, 2 sessions | `IncompleteNeverReplaces` is violated |
| `scheduler_restart` | as `scheduler` | `RestartIsHonest` is violated |
| `limiter_unlimited` | 1 worker, chunks of 3, rates up to 2, 2 saves, fair | `UnlimitedMeansFree` is violated |

### Why the bounds are enough

- A transaction of the task table reads and writes one row, so one task shows all
  that can go wrong between two callers; a third caller adds only a third copy.
  Counters up to 7 allow every life of a task (create, start, pause, restart,
  fail, delete) and its refusal at the limit.
- Two segments are needed for versions to mix, two sessions for a resume, two
  versions for a changed file. A segment of three blocks is the smallest in which a
  session can resume inside it with something done before and something left after.
- Two hosts of one key let one hold the lock while the other waits, or come later; the
  third, whose key is its own, renames files under their scans. For any number of hosts
  the safety properties are proved. Two faults let a host fail and its successor die.
  A fault is one failed call or one ended process, and `MaxFaults` is the only bound of
  the handoff: three let three consecutive calls fail, for instance saving the marker,
  the cancel and saving again.
- The inbox keeps no state for two keys together but the directory that every scan
  lists, which the third host of `inbox` shows; two downloads of one browser share only
  the port; so `handoff` takes one download.
- Two downloads and a limit that moves between 1 and 2 make one wait for the other,
  be overtaken, and find or lose a slot at every handler; they differ in kind (a file
  with a checksum from the dialog, a video from the browser), so that a start with the
  wrong data shows. One restart is enough for what a restart loses. Everything but the
  two liveness properties of the list is proved for any number of downloads and every
  assignment of kinds; the same module with `Downloads = 3` and no restart (493,010
  states) was checked as well.
- Two launches are needed for two instances; the third arrives at what they left,
  also after both have ended. One envelope shows every conflict of two watchers, which
  never hold two files together.
- Two standard manifests, one that only the index leads to, and two callers make
  every union and every difference of the callers appear. The number of commands is
  not bounded, and the proofs cover any number of edits.
- The limiter's worker asks for more than a tick gives, so it must wait; the limit is
  saved once to start it and once to take it away.

Deadlock is not checked where the program may come to rest: when all sessions,
requests and downloads of the instance are done, nothing is left to do.

### What the properties say

*Task table.* `MutationsSeeCurrentRow`: whoever changes a row had read exactly that
row. `CopiesAreExactOrBehind`: an old copy never passes the version check, not even
across a deletion. `OneClaimPerGeneration`: two callers never begin the same
attempt. `RowsStayReadable`: no transaction leaves a row the next read rejects.
`RepresentationFrozen`: progress never goes back, an observed file is never swapped.
`ImplementsLifecycle`: the refinement of `TaskLifecycle`.

*Downloader.* `SavedClaimsAreDurable`: every byte that `state.json` counts is in
`.part` after any crash or power loss. `DeliveredIsWhole`: what replaces the
destination is one version of the file, the one whose ETag was checked.
`EverySessionEnds`: no retry, fallback, saver or stop can hang a session.

*Inbox.* `OneEnvelopePerKey`: the desktop never sees two envelopes of a key.
`AcceptedIsKept`: accepted means on disk, or a row. `RepeatsAreFailures`: a second
row needs a failure, a third needs two. `RejectedLeavesNothing`: a rejection for a busy
lock or an overtaken scan, which nothing that failed explains, leaves no envelope, so
that the download the browser keeps does not run in Barq too. `RequestsEnd`,
`EnvelopesArrive`: a request is answered, be it by a rejection, whoever holds the lock,
and an envelope becomes a row or is in quarantine, which only a fault brings about.

*Handoff.* `NeverLost`: what is cancelled in the browser is in the inbox or in the
list. `StrandedOnlyByOverlap`: a paused download always has somebody at work on it
or a marker, unless a recovery has overlapped its capture. `KeepsPromise`: the
refinement of `HandoffPromise`. `MarkersClear`, `StallsEnd`, `HandedOffArrives`:
markers are settled, a pause ends, what the browser gave up arrives.

*Download list.* `PageIsConsistent`: rows, queue, table and speeds tell one story, and
nothing waits beside a free slot. `WantedIsServed`: what the user asked to run has a
worker or a place in the queue, whatever was paused, resumed or resized around it;
only `resume_all` passes over a worker that is still stopping, and what it passes
over does not count as asked. `NeverOverLimit`: no start exceeds the limit in force,
although a lowered limit does not stop anybody. `StartsAsAsked`: a start from the
queue or after a pause is of the kind, and with the checksum, of the dialog.
`RemovedStaysAway`: late signals do not bring a removed row back. `QueueDrains`,
`StopsLand`: a queue moves on, a stopped worker leaves.

*Registration.* `HostServesTracked`: the host accepts all callers of all manifests that
can be found, at every step of every command. `LeastPrivilege`: no manifest and no
host accepts what was never asked for. `CompletedMeansServed`: success means that every
target works. Each leaves out the files that somebody changed after the callers were
collected.

*Instances.* `OneRowUnlessOverlap`: two rows need two launches that started at once, or
an end in mid-delivery. `NoInstanceTwice`: however many instances watch the inbox, none
inserts the row of an envelope a second time. `UrlArrives`: an address handed over
reaches the user or its reader ended. `EnvelopesLand`: whatever was claimed, refused or
abandoned is delivered as long as an instance runs.

### Fairness

- *Downloader*: weak fairness of the saver and of the pool, which are threads that
  run when they have work; strong fairness of the main task, the stream and each
  segment's task, as a save that blocks the event loop again and again disables them
  again and again, and asyncio's ready queue is first in, first out. Network calls
  have timeouts and therefore end. Late jobs, stops and the server are not fair.
- *Inbox*: weak fairness of a host that has read a request (it is a running process)
  and of the drain for each file (a timer every 500 ms that takes all files in
  order). Failures and deaths are never fair, and bounded by `MaxFaults`: what "in
  the end" means is: once calls stop failing.
- *Handoff*: in addition weak fairness of the coordinator's continuations, of the
  browser's answer to a pause and of the recovery alarm, which is periodic
  (`background.ts`). The browser's download itself need never complete.
- *Download list*: weak fairness of a thread that has been started, of its end (a
  transfer ends, see `EverySessionEnds`; yt-dlp has timeouts of its own) and of the
  page, whose event loop handles queued signals in order. Nothing of the user.
- *Instances*: weak fairness of a launch on its way, of reading the socket and of
  removing a delivered file; strong fairness of claim, recovery and insertion, as a
  timer tries again every 500 ms and a failure that goes on for ever is excluded.
  The modal warning, the window and the end of an instance are the user's.
- *Limiter*: weak fairness of the worker, of time and of the thread that sets the limit.

### Findings

Four runs show the code do something else than a document, comment or test of the
repository says.

1. `ResumeIsSafe`: a session that resets `.part` and is stopped before its first
   save leaves the `state.json` of an earlier session behind; the next one counts
   zeros as downloaded and publishes them.
2. `IncompleteNeverReplaces`: a session that is stopped while it verifies leaves
   its rename in the pool; it publishes the `.part` that the next one has just begun.
3. `RestartIsHonest`: the statuses that are recovered at start are not those the
   workers store, so after a crash or an exit a row shows "Downloading..." for ever.
4. `UnlimitedMeansFree`: a worker that waits for tokens when the limit is set to 0 turns
   in a loop that neither gets tokens nor suspends; its event loop is blocked, so a
   stop does not reach it and removing the download blocks the window.

What else the models make visible, without a run of its own:

- An envelope whose row is committed but whose file cannot be removed is delivered
  again by the next drain, hence `RepeatsAreFailures` and not "once".
- A `recover()` that overlaps `capture()` removes the accepted marker saved since it
  listed; if the cancel failed as well, nobody tries it again (`overlapped`).
- The idempotency key is unique in one browser profile only and records never expire:
  with a key shared by two downloads, `NeverLost` does not hold.
- `resume_all` forgets the downloads that are still stopping, and a click between the
  end of a thread and its `finished` signal does nothing.
- A restart forgets kind, format, headers and checksum of a download.
- An instance that could not listen never tries again; without a tray a closed window
  stays closed. A request that reaches the socket in two parts is rejected twice.
- A request whose scan meets a file that another host or the watcher has just renamed is
  rejected although nothing failed; the browser then keeps the download.
- Nothing ever looks into the quarantine again.
- A host that dies with the lock of a key leaves the `.lock` file for ever: the rejection
  that inbox.rs:300 calls retryable is then the answer to every retry.
- A custom manifest written by a command that died before it saved the index cannot be
  found again; the next command builds the host without its caller.
- A launch is visible to the next only when its window is open and it listens: two that
  probe before that both become instances and stay.
- A launch without an address says that it has asked the running instance for its window;
  the instance rejects the request (ipc_server.py:85) and a hidden window stays hidden.
- A failed build leaves all browsers without a host, as the binary is cleaned first.
  The doctor does not ask the binary which callers it accepts and approves of manifests
  that the setup tool ignores.
- Two workers share the bucket without an order, so one can take every refill of the
  other; the asyncio lock they share belongs to the event loop that used it first,
  and contention from another raises RuntimeError. The stored speed limit is not
  applied when the application starts.

## 4. What is proved

The proofs hold for any number of callers, tasks, hosts, keys and faults and for any
sizes. They assume what the ASSUMEs of the modules say and no more: the bounds are
natural numbers, the values that stand for "none" are not values of the kind they
stand in for, `KeyOf` is a function on the requests.

`StateStoreProofs`: every safety property of the run `state_store`, and the
refinement. That two callers never begin the same attempt is not inductive alone: it
depends on what tombstones remember and on which copies can still pass the check. The
invariant `IInv` adds to the properties that nobody has a copy before the migration
(`UnopenedIsUntouched`), that a retired identifier has no row (`RetiredHaveNoRow`),
that every attempt begun is at or below the generation of its row
(`ClaimsAreBehind`) and that a confirmed row is downloading or completed
(`ConfirmedIsSettled`). `Init => IInv` and one lemma per transaction give `[]IInv`;
the transactions that store a row share the lemmas about `Store`. The theorems on
actions and on the refinement follow from `[]IInv` and one step.

`DurableInboxProofs`: `TypeOK`, `OneEnvelopePerKey` and `AcceptedIsKept`. The
invariant follows the protocol: `LockInv` (of the hosts that hold the lock of a key
there is one), `KeyInv` (records and transfers stay within their key), `SearchInv`
(a host that has seen no record can rely on there being none, as only the holder of
the lock writes it), `SettleInv` (from the record on, a host's transfer is the one on
record, and its envelope has been issued before it lets go of the lock),
`RecordInv` (what has been issued is on record, so there is one per key) and
`DeskInv` (only a delivered file is removed). The proof goes variable by variable:
lemmas say which steps move an envelope and how, and each part of the invariant is
shown to survive the steps of hosts, of the desktop and of the client.

`BrowserRegistrationProofs`: the three properties of the run `registration` and the
types. `HostServesTracked` is not inductive alone: while a command writes, a manifest
becomes tracked whose callers the host has only because of what the command began
with. `CommandInv` says what a step may rely on: until the build, what was found
covers every manifest that can be found; after it, the host has every caller asked
for; and a target that is no longer left names what was asked for, unless it was
touched since. `AskedInv` bounds what can be found by what was ever asked. One step per
action; an edit marks its manifest, and what it puts there counts as asked for.

`DurableInboxProofs` also proves `RepeatsAreFailures`: of the rows of an envelope, all
but the one it settles with stand for a fault each (`RepeatInv`); and
`RejectedLeavesNothing`: as long as nothing has failed, a host stages only on its way to
acceptance (`FreshInv`).

`BrowserHandoffProofs`: the four safety properties of the run `handoff`, the refinement
of `HandoffPromise` among them, for any number of downloads, whether or not they share
keys. `HandoffInv` joins the inbox's invariant with four parts, each stated for one
download: `WordInv` (whatever speaks of an acceptance, be it a local of `capture()`, a
marker, what `recover()` has read or a cancelled download, goes back to the host's
answer), `PauseInv` (which call of `pause` can still be under way where), `LetGoInv`
(where the code is about to forget a download, the browser does not hold it paused) and
`DebtInv` (a `recover()` that did not begin during the capture works alone, and a
download that is paused, or will be, has its marker). A step of the extension is about
one download and leaves the others alone (`OthersStay`), so each part is proved for the
download that moves. `NothingIsLost` assumes `Separate`: downloads do not share keys, or
the user removes no rows. Without it the property is false for the right reason: a
second request of a key finds the record of the first, whose row the user has removed,
and is accepted. `RemovedInv` says that what the user has removed was there when its
host accepted it; `SoleInv` that a host meets no other request's record; the refinement
needs neither, as the promise counts the rows ever listed.

`DesktopInstanceProofs`: `OneRowUnlessOverlap`, `NoInstanceTwice` (an instance that has
inserted a row has the file in hand, or the file is gone, or it has ended:
`InsertedOnce`), and that without an overlap of two
starts one launch at most is an instance (`Alone`). The invariant adds which envelope an
instance has in hand: it is claimed (`HandsClaim`), so a second watcher of the same
instance cannot take it up, and its row is the one being acknowledged
(`RowsExplained`).

`ResilientDownloaderProofs`: `TypeOK`, `SavedClaimsAreDurable` and `DeliveredIsWhole`,
for files of any length, any number of segments, sessions, versions and crashes. That
what `state.json` counts survives a power loss depends on everything before the save,
so `DownloadInv` follows a byte on its way. `Control` says which task may be doing what
in which phase; `Loaded` that a session finds on disk what it has read until it touches
the file; `Order` that no version is ahead of the server's and that a late write
carries one that is not newer than what it could harm. `Data` says what is in `.part`:
what the session counts (`PartHolds`), a block that is written and not yet counted
(`RangeHolds`), what a stream has passed (`StreamHolds`), what a save is about to claim
while it holds the event loop (`SaveHolds`), what the saved state claims, in the file
and in what was last synced (`SavedHolds`), and the verified file before its rename
(`ReplaceHolds`). Between the truncation of `.part` and its extension the old
`state.json` is either absent or marked as `outdated`; without that conjunct of `Order`
the invariant is not inductive. The lemmas on `Put`, `Whole`, `Split` and `Claimed` say
what the operators of the model do to a file and a segment map for every length;
`CoverIsWhole`, that a map which covers the file and counts all of it leaves no block
out, needs induction over the segments.

`DownloadSchedulerProofs`: all six safety properties of the run `scheduler`, for any
number of downloads, any limit, any number of restarts and any assignment of kinds,
origins and checksums. `PageIsConsistent` is not inductive alone: that a row which
shows "Queued" will not do so for ever depends on the signals on their way.
`SchedulerInv` adds that rows and workers have ids that were given out (`Added`), that
a thread posts only while it is in the table and `finished` comes last (`Posted`), that
a row which shows "Queued" with a worker is about to show something else (`Shown`),
that a wanted download was not stopped and does not end in silence (`Promised`), and
that until a restart the three dictionaries and the queue agree with the dialog of each
row that is not over (`Remembered`). Most handlers end in calls that start workers, so
the argument has two halves. `After(p, bad, cap)` is the set of pages that calls may
reach from page `p`: rows that have a worker or are completed are left alone, a new
worker is fresh, of the right kind and within the limit, whatever waited is served.
`StartKeeps`, `AttemptKeeps`, `ServeKeeps` and `ResumeKeeps` show that each call stays
inside `After`, and `ProcessKeeps` and `ResumeRowsKeeps` that the loops do, and leave no
slot idle. `Fits(p)` is what a page owes to the rest of the next state;
`CallsKeepInv` puts the two together, so that for each action only `Fits` of the page
it hands to the calls is left to show. `StartsWell` is what a step may start, from
which the three action properties follow.

`SetInduction` is where the induction comes from. The induction theorems of the library
take a predicate as a parameter, which none of the provers here instantiates; that
strict inclusion of finite sets is well founded takes none. From it follows that a set
of numbers has a least element, and from that `Induction`, stated of the set of numbers
for which a fact holds. `Recursion` (in `DownloadSchedulerProofs`) uses it to show that
the functions by which the model writes its loops exist and satisfy their equations.

`DesktopInstanceProofs` also proves `TypeOK`, which no run checks and which says more
than types: only a running instance listens, shows a window or delivers (`Mailbox`,
`HandsRun`).

So every invariant and every safety property of the passing runs is a theorem. Only
model-checked is what must eventually happen (`EverySessionEnds`, `RequestsEnd`,
`EnvelopesArrive`, `MarkersClear`, `StallsEnd`, `HandedOffArrives`, `QueueDrains`,
`StopsLand`, `UrlArrives`, `EnvelopesLand`): liveness under fairness and ENABLED are
out of the prover's reach and stay with TLC. The limiter has no safety property of
its own, only the finding.

## 5. What is not modelled, and why

- *Power loss in the inbox.* Each step of the host ends with a sync, and the model
  treats a step that has succeeded as durable; the loss of what was not yet synced
  is covered for the downloader only.
- *A user who pauses or resumes in the browser* during a capture: the code's
  promises say nothing of it.
- *Media envelopes*, whose delivery opens a dialog that the user may cancel: for the
  inbox that is a delivery or a retained file.
- *Both sides downloading*: when a response comes too late, the browser has its
  download back and Barq has it as well. Nothing in the code excludes it.
- *Validation* of envelopes and messages: the two sides' rules are data here; a
  request that is refused is one fault among others.
- Components that keep no state or only wrap a library: see `components` in
  `PROJECT.json`, each with its reason.

- *Parts of the download list*: `set_hash_dialog` (it offers a checksum for a running
  download, which is lost at the next pause, and a video worker has no `set_hash` at
  all), the filters, the selection, drag and drop and the clipboard, which only lead
  to `AddDownload`.
- *Several commands of the registration at once*, and what `detect` and the doctor
  print: nothing locks the files, so no property of the model would hold.
- *The shared port of the native client*: greeting, lease and several requests at
  once; in the model a rejected or late request is `GiveUp`.
- *Components without a caller*: `adaptive-scheduler`, `file-writer`, the engine
  daemon; `downloader.py`, `queue_manager.py` and `updater.py` are used by tests only.

## 6. What remains worth doing

1. The shared port of the native client as a module of its own: a response reaches
   the request it answers and no other, every promise settles, no lease ends a
   request under way.
2. The shared token bucket with two workers of two event loops, and what contention
   of its lock does to them.
3. The range scheduler as a state machine of workers, when it gets a caller.
