------------------------ MODULE ResilientDownloader ------------------------
(***************************************************************************)
(* One file being downloaded by core/resilient_downloader.py, in the       *)
(* sessions that core/worker.py runs for it one after another.             *)
(*                                                                         *)
(* Three kinds of threads take the steps: the event loop of the session,   *)
(* which runs without interruption between two awaits; the executor's      *)
(* pool, which does the file writes it is handed and cannot be cancelled   *)
(* once it runs one, even when the session that asked for it is over; and  *)
(* the user interface, which calls DownloadWorker.stop.                    *)
(*                                                                         *)
(* The file is Size blocks and a chunk is one block.  Every version of the *)
(* file on the server has a strong ETag of its own, which a response may   *)
(* nevertheless leave out.  All versions have the same length, so that     *)
(* only the ETag tells them apart.                                         *)
(***************************************************************************)
EXTENDS Integers, Sequences, FiniteSets

CONSTANTS
  Size,         \* blocks of the file
  Parts,        \* most segments that a fresh download is asked to have
  MaxTries,     \* max_retries of a segment
  MaxVersion,   \* bound: versions the server goes through
  MaxSessions,  \* bound: sessions the worker starts
  MaxCrashes,   \* bound: crashes and power losses
  NoFile,       \* the file or the state does not exist
  NoTag         \* no strong ETag

ASSUME ConstantsAssumption ==
  /\ Size \in Nat \ {0} /\ Parts \in 1..Size /\ MaxTries \in Nat \ {0}
  /\ MaxVersion \in Nat \ {0} /\ MaxSessions \in Nat /\ MaxCrashes \in Nat
  /\ NoFile \notin Seq(0..MaxVersion) /\ NoTag \notin Nat

Versions == 1..MaxVersion
Zero     == 0                   \* what a preallocated block holds
Blocks   == 1..Size
Content  == Versions \cup {Zero}
Tags     == Versions \cup {NoTag}

VARIABLES
  server,   \* the version the server has now
  part,     \* <destination>.part, as the operating system shows it
  durable,  \* <destination>.part at its last fsync
  saved,    \* <destination>.state.json
  dest,     \* the destination
  pc,       \* what the session's main task waits for
  etag,     \* self.etag
  ranged,   \* self.supports_range
  parts,    \* self.parts
  segs,     \* self.segments
  conn,     \* conn[s]: what the task of segment s waits for (1: the stream)
  tries,    \* tries[s]: retries of that task
  pos,      \* current_pos of the stream
  goal,     \* previous_downloaded of the stream
  body,     \* body[s]: the version that task's response carries
  saver,    \* the _auto_save task, or a save that blocks the event loop
  stop,     \* what DownloadWorker.stop has done to this session
  late,     \* writes the pool still runs for tasks that were cancelled
  runs, crashes,
  outdated, \* history: .part was reset after state.json was saved
  misled,   \* history: and a session resumed from it
  struck    \* history: a job of a cancelled task spoiled .part

files   == <<server, part, durable, saved, dest>>
session == <<pc, etag, ranged, parts, segs, conn, tries, pos, goal, body,
             saver, stop>>
history == <<runs, crashes, outdated, misled, struck>>
vars    == <<files, session, late, history>>

-----------------------------------------------------------------------------
Whole(v) == [b \in Blocks |-> v]
Blank    == Whole(Zero)

\* What a write of one block leaves: a gap before it reads as zeros.
Put(file, b, v) ==
  [i \in 1..(IF b > Len(file) THEN b ELSE Len(file)) |->
     IF i = b THEN v ELSE IF i <= Len(file) THEN file[i] ELSE Zero]

Segment == [start : Blocks, end : Blocks, current : 1..(Size + 1), done : BOOLEAN]

\* A segment that has got as far as `current'.
Progress(seg, current, done) ==
  [start |-> seg.start, end |-> seg.end, current |-> current, done |-> done]

\* The fresh segment map of n parts; the last one takes the remainder.
Split(n) ==
  [i \in 1..n |->
     LET chunk == Size \div n
         first == (i - 1) * chunk + 1
     IN [start |-> first,
         end   |-> IF i < n THEN first + chunk - 1 ELSE Size,
         current |-> first, done |-> FALSE]]

\* _segments_cover_file; a map is always kept in order of start here.
CoversFile(map) ==
  /\ map # <<>>
  /\ map[1].start = 1 /\ map[Len(map)].end = Size
  /\ \A i \in 1..Len(map) :
       /\ i > 1 => map[i].start = map[i - 1].end + 1
       /\ map[i].done <=> map[i].current = map[i].end + 1

\* The blocks a segment map counts as downloaded.
Claimed(map) ==
  UNION {map[i].start .. (map[i].current - 1) : i \in 1..Len(map)}

\* What _load_state accepts.
Loadable ==
  /\ saved # NoFile /\ part # NoFile
  /\ CoversFile(saved.segs)
  /\ Len(part) = Size

-----------------------------------------------------------------------------
\* The event loop takes a step of its own: no save holds it, and the first
\* save runs before any answer from the network.
LoopFree == saver \notin {"first", "saving"}

Transferring == pc \in {"range", "stream"}

NoTasks == [s \in 1..Parts |-> "off"]

Job(kind, at, val) == [kind |-> kind, at |-> at, val |-> val]

\* Where the task of a segment, or the stream, writes next.
Position(s) == IF pc = "stream" THEN pos ELSE segs[s].current

\* Writes in the pool whose task is cancelled: those not yet started are
\* dropped, the others go on.
WritesInFlight ==
  {Job("write", Position(s), body[s]) : s \in {s \in 1..Parts : conn[s] = "busy"}}

JobsInFlight ==
  IF pc \in {"truncate", "extend", "replace"}
  THEN {Job(pc, 1, Zero)}
  ELSE WritesInFlight

\* The session ends; the worker reports how to the user interface.
End ==
  /\ pc' = "idle"
  /\ conn' = NoTasks /\ tries' = [s \in 1..Parts |-> 0]
  /\ segs' = <<>> /\ etag' = NoTag /\ ranged' = FALSE /\ parts' = Parts
  /\ pos' = 1 /\ goal' = 1 /\ body' = [s \in 1..Parts |-> 1] /\ saver' = "off" /\ stop' = "no"

\* start's last save: it syncs the .part file first, with the loop held.
BeginLastSave ==
  /\ pc' = "parting"
  /\ saver' = "saving" /\ durable' = part
  /\ conn' = NoTasks /\ tries' = [s \in 1..Parts |-> 0]
  /\ \E left \in SUBSET JobsInFlight : late' = late \cup left
  /\ UNCHANGED <<etag, ranged, parts, segs, pos, goal, body, stop>>

\* An exception reaches start: the other tasks are cancelled, the state saved.
Fail ==
  /\ BeginLastSave
  /\ UNCHANGED <<server, part, saved, dest, history>>

-----------------------------------------------------------------------------
\* The worker's thread starts a session, with the number of parts that its
\* dialog or the settings of now ask for; _load_state reads what is on disk.
Start ==
  /\ pc = "idle" /\ runs < MaxSessions
  /\ runs' = runs + 1
  /\ pc' = "probe"
  /\ IF Loadable
     THEN etag' = saved.etag /\ segs' = saved.segs /\ parts' = Len(saved.segs)
     ELSE parts' \in 1..Parts /\ UNCHANGED <<etag, segs>>
  /\ UNCHANGED <<files, ranged, conn, tries, pos, goal, body, saver, stop,
                 late, crashes, outdated, misled, struck>>

\* get_file_info finds no size, or that the link has expired: no file is touched.
ProbeFails ==
  /\ pc = "probe"
  /\ End
  /\ UNCHANGED <<files, late, history>>

\* get_file_info returns a size, perhaps an ETag and, if the range probe went
\* well, range support: start resumes what it loaded or resets it.
ProbeAnswers(tag, ranges) ==
  LET safe    == ranges /\ tag # NoTag
      resumes == /\ segs # <<>>
                 /\ tag # NoTag /\ tag = etag
                 /\ safe \/ Len(segs) = 1
  IN /\ pc = "probe"
     /\ tag \in {server, NoTag}
     /\ etag' = tag /\ ranged' = safe
     /\ IF resumes
        THEN /\ pc' = "allocated"
             /\ misled' = (misled \/ outdated)
             /\ UNCHANGED <<segs, parts>>
        ELSE /\ pc' = "truncate"
             /\ segs' = <<>>
             /\ parts' = IF safe THEN parts ELSE 1
             /\ UNCHANGED misled
     /\ UNCHANGED <<files, conn, tries, pos, goal, body, saver, stop,
                    late, runs, crashes, outdated, struck>>

\* preallocate, in the pool: open(.part, 'wb') ...
Truncate ==
  /\ pc = "truncate"
  /\ part' = <<>> /\ pc' = "extend"
  /\ outdated' = (saved # NoFile) /\ misled' = FALSE /\ struck' = FALSE
  /\ UNCHANGED <<server, durable, saved, dest, etag, ranged, parts, segs, conn,
                 tries, pos, goal, body, saver, stop, late, runs,
                 crashes>>

\* ... and the write of its last byte.
Extend ==
  /\ pc = "extend"
  /\ part' = Blank /\ pc' = "allocated"
  /\ UNCHANGED <<server, durable, saved, dest, etag, ranged, parts, segs, conn,
                 tries, pos, goal, body, saver, stop, late, history>>

\* No space, or the disk fails: nothing catches it before the worker does.
PreallocateFails ==
  /\ pc \in {"truncate", "extend"}
  /\ End
  /\ UNCHANGED <<files, late, history>>

\* The session has its segment map, reports progress and starts its tasks.
Begin ==
  LET map == IF segs = <<>> THEN Split(parts) ELSE segs
  IN /\ pc = "allocated" /\ stop = "no"
     /\ segs' = map
     /\ pc' = IF ranged THEN "range" ELSE "stream"
     /\ conn' = [s \in 1..Parts |->
          IF s <= Len(map) /\ (ranged => ~map[s].done) THEN "ask" ELSE "off"]
     /\ saver' = "first"
     /\ UNCHANGED <<files, etag, ranged, parts, tries, pos, goal, body, stop, late, history>>

\* The progress callback raises CancelledError in a worker told to stop: the
\* state is not saved, and .part may just have been reset.
BeginStopped ==
  /\ pc = "allocated" /\ stop # "no"
  /\ End
  /\ UNCHANGED <<files, late, history>>

-----------------------------------------------------------------------------
\* Mutant: the state is saved before .part is on disk.
BeginSaveUnsynced ==
  /\ saver \in {"first", "wait"} /\ stop = "no"
  /\ saver' = "saving"
  /\ UNCHANGED <<files, pc, etag, ranged, parts, segs, conn, tries, pos, goal,
                 body, stop, late, history>>

\* _auto_save, at once and then every second; _save_state holds the loop
\* while it syncs .part ...
BeginSave ==
  /\ saver \in {"first", "wait"} /\ stop = "no"
  /\ saver' = "saving"
  /\ durable' = part
  /\ UNCHANGED <<server, part, saved, dest, pc, etag, ranged, parts, segs,
                 conn, tries, pos, goal, body, stop, late, history>>

\* _auto_save finds the shutdown event set.
NoFirstSave ==
  /\ saver = "first" /\ stop = "asked"
  /\ saver' = "wait"
  /\ UNCHANGED <<files, pc, etag, ranged, parts, segs, conn, tries, pos, goal,
                 body, stop, late, history>>

\* What follows a save: the session ends if it was the last one.
Resumed ==
  IF pc = "parting"
  THEN End
  ELSE /\ saver' = "wait"
       /\ UNCHANGED <<pc, etag, ranged, parts, segs, conn, tries, pos, goal,
                      body, stop>>

\* ... and while it replaces state.json.
EndSave ==
  /\ saver = "saving"
  /\ saved' = [etag |-> etag, segs |-> segs]
  /\ outdated' = FALSE
  /\ Resumed
  /\ UNCHANGED <<server, part, durable, dest, late, runs, crashes, misled,
                 struck>>

\* _save_state swallows errors.
SaveFails ==
  /\ saver = "saving"
  /\ Resumed
  /\ UNCHANGED <<files, late, history>>

-----------------------------------------------------------------------------
\* The task of a segment, or the stream, goes from one await to another.
Move(s, to) ==
  /\ conn' = [conn EXCEPT ![s] = to]
  /\ UNCHANGED <<files, pc, etag, ranged, parts, segs, tries, pos, goal, body,
                 saver, stop, late, history>>

\* The body of a 206 is that of the version the server has now.
Opens(s) ==
  /\ conn' = [conn EXCEPT ![s] = "open"]
  /\ body' = [body EXCEPT ![s] = server]
  /\ UNCHANGED <<files, pc, etag, ranged, parts, segs, tries, pos, goal, saver,
                 stop, late, history>>

\* Mutant: _validate_response_identity is not called.
SegmentUnidentified(s) ==
  /\ pc = "range" /\ LoopFree /\ conn[s] = "ask" /\ stop = "no"
  /\ Opens(s)

\* A 206 for the requested range, with the ETag of this download.
SegmentAccepted(s) ==
  /\ pc = "range" /\ LoopFree /\ conn[s] = "ask" /\ stop = "no"
  /\ server = etag
  /\ Opens(s)

\* 403 or 410, another ETag or none, a wrong Content-Range, too many bytes or
\* too few: the exception is not retried.
SegmentRejected(s) ==
  /\ pc = "range" /\ LoopFree /\ conn[s] \in {"ask", "open"}
  /\ Fail

\* A 200 with the ETag of this download: the range was ignored.  The other
\* tasks are cancelled and a single stream starts from scratch.
SegmentIgnored(s) ==
  /\ pc = "range" /\ LoopFree /\ conn[s] = "ask"
  /\ server = etag
  /\ pc' = "stream" /\ ranged' = FALSE /\ parts' = 1 /\ segs' = <<>>
  /\ conn' = [NoTasks EXCEPT ![1] = "ask"]
  /\ tries' = [i \in 1..Parts |-> 0]
  /\ \E left \in SUBSET WritesInFlight : late' = late \cup left
  /\ UNCHANGED <<files, etag, pos, goal, body, saver, stop, history>>

\* Mutant: retries is not counted.
SegmentRetriesForever(s) ==
  /\ pc = "range" /\ LoopFree /\ conn[s] \in {"ask", "open", "broke"}
  /\ Move(s, "ask")

\* A connection, timeout or disk error is retried, from segment['current'].
SegmentRetries(s) ==
  /\ pc = "range" /\ LoopFree /\ conn[s] \in {"ask", "open", "broke"}
  /\ tries[s] + 1 < MaxTries
  /\ tries' = [tries EXCEPT ![s] = @ + 1]
  /\ conn' = [conn EXCEPT ![s] = "ask"]
  /\ UNCHANGED <<files, pc, etag, ranged, parts, segs, pos, goal, body, saver,
                 stop, late, history>>

SegmentGivesUp(s) ==
  /\ pc = "range" /\ LoopFree /\ conn[s] \in {"ask", "open", "broke"}
  /\ tries[s] + 1 >= MaxTries
  /\ Fail

\* Mutant: a chunk is not checked against the end of the range.
SegmentAnyChunk(s) ==
  /\ pc = "range" /\ LoopFree /\ conn[s] = "open" /\ stop = "no"
  /\ Move(s, "busy")

\* A chunk has arrived and is handed to the pool.
SegmentChunk(s) ==
  /\ pc = "range" /\ LoopFree /\ conn[s] = "open" /\ stop = "no"
  /\ segs[s].current <= segs[s].end
  /\ Move(s, "busy")

\* write_chunk or append_chunk, in the pool.
Write(s) ==
  /\ conn[s] = "busy" /\ part # NoFile
  /\ part' = Put(part, Position(s), body[s])
  /\ conn' = [conn EXCEPT ![s] = "wrote"]
  /\ UNCHANGED <<server, durable, saved, dest, pc, etag, ranged, parts, segs,
                 tries, pos, goal, body, saver, stop, late, history>>

WriteFails(s) ==
  /\ conn[s] = "busy"
  /\ Move(s, "broke")

\* The write is done: segment['current'] and downloaded_bytes advance.
SegmentAdvances(s) ==
  /\ pc = "range" /\ LoopFree /\ conn[s] = "wrote" /\ stop = "no"
  /\ conn' = [conn EXCEPT ![s] = "open"]
  /\ segs' = [segs EXCEPT ![s] = Progress(@, @.current + 1, @.done)]
  /\ UNCHANGED <<files, pc, etag, ranged, parts, tries, pos, goal, body, saver,
                 stop, late, history>>

\* The response ended where it should.
SegmentDone(s) ==
  /\ pc = "range" /\ LoopFree /\ conn[s] = "open"
  /\ segs[s].current = segs[s].end + 1
  /\ conn' = [conn EXCEPT ![s] = "off"]
  /\ segs' = [segs EXCEPT ![s] = Progress(@, @.current, TRUE)]
  /\ UNCHANGED <<files, pc, etag, ranged, parts, tries, pos, goal, body, saver,
                 stop, late, history>>

\* The task sees the shutdown event, before a request or at the next chunk.
TaskReturns(s) ==
  /\ Transferring /\ LoopFree /\ stop = "asked"
  /\ \/ conn[s] = "open"
     \/ conn[s] = "ask" /\ pc = "range"
  /\ Move(s, "off")

-----------------------------------------------------------------------------
\* download_non_range_stream gets its response and reads the first h blocks.
\* They are compared with .part if an earlier session got past block 1;
\* otherwise, or if they differ, the stream starts from block 1.  The shutdown
\* event is looked at only then.
StreamOpens(h) ==
  LET previous == IF segs = <<>> THEN 1 ELSE segs[1].current
      sample   == [b \in 1..h |-> server]
      matches  == /\ previous > 1
                  /\ part # NoFile /\ Len(part) >= h
                  /\ SubSeq(part, 1, h) = sample
  IN /\ pc = "stream" /\ LoopFree /\ conn[1] = "ask"
     /\ etag # NoTag => server = etag
     /\ body' = [body EXCEPT ![1] = server] /\ pos' = h + 1
     /\ conn' = [conn EXCEPT ![1] = IF stop = "asked" THEN "off" ELSE "open"]
     /\ IF matches
        THEN goal' = previous /\ UNCHANGED <<part, segs, outdated>>
        ELSE /\ goal' = 1
             /\ part' = sample
             /\ outdated' = (saved # NoFile)
             /\ segs' = <<[start |-> 1, end |-> Size, current |-> h + 1,
                           done |-> FALSE]>>
     /\ UNCHANGED <<server, durable, saved, dest, pc, etag, ranged, parts,
                    tries, saver, stop, late, runs, crashes, misled, struck>>

\* 403 or 410, another ETag, a network or disk error, or the wrong number of
\* bytes: a stream has no retry.
StreamFails ==
  /\ pc = "stream" /\ LoopFree /\ conn[1] \in {"ask", "open", "broke"}
  /\ Fail

\* Bytes already in .part are read and dropped.
StreamDrains ==
  /\ pc = "stream" /\ LoopFree /\ conn[1] = "open" /\ stop = "no"
  /\ pos < goal
  /\ pos' = goal
  /\ UNCHANGED <<files, pc, etag, ranged, parts, segs, conn, tries, goal, body,
                 saver, stop, late, history>>

StreamChunk ==
  /\ pc = "stream" /\ LoopFree /\ conn[1] = "open" /\ stop = "no"
  /\ pos >= goal /\ pos <= Size
  /\ Move(1, "busy")

StreamAdvances ==
  /\ pc = "stream" /\ LoopFree /\ conn[1] = "wrote" /\ stop = "no"
  /\ pos' = pos + 1
  /\ segs' = [segs EXCEPT ![1] = Progress(@, pos + 1, @.done)]
  /\ conn' = [conn EXCEPT ![1] = "open"]
  /\ UNCHANGED <<files, pc, etag, ranged, parts, tries, goal, body, saver, stop, late, history>>

StreamDone ==
  /\ pc = "stream" /\ LoopFree /\ conn[1] = "open" /\ pos = Size + 1
  /\ segs' = [segs EXCEPT ![1] = Progress(@, Size + 1, TRUE)]
  /\ conn' = [conn EXCEPT ![1] = "off"]
  /\ UNCHANGED <<files, pc, etag, ranged, parts, tries, pos, goal, body, saver,
                 stop, late, history>>

-----------------------------------------------------------------------------
TasksOver == \A s \in 1..Parts : conn[s] = "off"

\* _assert_complete_transfer.
TransferComplete ==
  /\ CoversFile(segs)
  /\ \A i \in 1..Len(segs) : segs[i].done
  /\ part # NoFile /\ Len(part) = Size

\* finalize, after a transfer with nothing to await or one that the event loop
\* resumed from, hands _durably_replace_file to the pool.
Finalize ==
  /\ Transferring /\ saver # "saving" /\ TasksOver /\ stop = "no"
  /\ TransferComplete
  /\ pc' = "replace"
  /\ UNCHANGED <<files, etag, ranged, parts, segs, conn, tries, pos, goal, body,
                 saver, stop, late, history>>

FinalizeRefuses ==
  /\ Transferring /\ saver # "saving" /\ TasksOver /\ stop = "no"
  /\ ~TransferComplete
  /\ Fail

\* The transfer returned because of the shutdown event: save, and be Paused.
Pause ==
  /\ Transferring /\ saver # "saving" /\ TasksOver /\ stop = "asked"
  /\ BeginLastSave
  /\ UNCHANGED <<server, part, saved, dest, history>>

\* _durably_replace_file, in the pool: sync .part and rename it.
Replace ==
  /\ pc = "replace" /\ part # NoFile
  /\ dest' = part /\ part' = NoFile /\ durable' = NoFile
  /\ pc' = "replaced"
  /\ UNCHANGED <<server, saved, etag, ranged, parts, segs, conn, tries, pos,
                 goal, body, saver, stop, late, history>>

\* It may have renamed the file already, if the directory cannot be synced.
ReplaceFails ==
  /\ pc \in {"replace", "replaced"} /\ LoopFree
  /\ late' = late /\ BeginLastSave
  /\ UNCHANGED <<server, part, saved, dest, history>>

\* The session is Completed; it may fail to remove state.json.
Complete ==
  /\ pc = "replaced" /\ LoopFree
  /\ saved' \in {NoFile, saved}
  /\ outdated' = (outdated /\ saved' # NoFile)
  /\ End
  /\ UNCHANGED <<server, part, durable, dest, late, runs, crashes, misled,
                 struck>>

-----------------------------------------------------------------------------
\* DownloadWorker.stop, from the user interface's thread: the shutdown event
\* is set at once, the cancellation of the main task is scheduled.
Stop ==
  /\ pc \notin {"idle", "parting"} /\ stop = "no"
  /\ stop' = "asked"
  /\ UNCHANGED <<files, pc, etag, ranged, parts, segs, conn, tries, pos, goal,
                 body, saver, late, history>>

\* The same before DownloadWorker.run has made the task: nothing is cancelled.
StopEarly ==
  /\ pc = "probe" /\ stop = "no"
  /\ stop' = "flag"
  /\ UNCHANGED <<files, pc, etag, ranged, parts, segs, conn, tries, pos, goal,
                 body, saver, late, history>>

\* The cancellation lands where the main task waits: nothing is saved.  Jobs
\* the pool has begun go on.
Cancel ==
  /\ stop = "asked" /\ LoopFree
  /\ \E left \in SUBSET JobsInFlight : late' = late \cup left
  /\ End
  /\ UNCHANGED <<files, history>>

\* A write of a cancelled task takes place.  It fails silently if it finds no
\* .part file, and does no harm in a .part file of the same version that was not
\* truncated.
LateWrite(job) ==
  LET version == IF pc # "idle" THEN etag
                 ELSE IF saved # NoFile THEN saved.etag ELSE NoTag
      spoils  == part # NoFile /\ (job.val # version \/ Len(part) < Size)
  IN /\ job.kind = "write"
     /\ part' = IF part = NoFile THEN NoFile ELSE Put(part, job.at, job.val)
     /\ struck' = (struck \/ spoils)
     /\ late' = late \ {job}
     /\ UNCHANGED <<durable, dest, outdated, misled>>

LatePreallocation(job) ==
  /\ job.kind \in {"truncate", "extend"}
  /\ IF job.kind = "truncate"
     THEN part' = <<>> /\ late' = (late \ {job}) \cup {Job("extend", job.at, job.val)}
     ELSE part' = Blank /\ late' = late \ {job}
  /\ struck' = TRUE
  /\ outdated' = (saved # NoFile)
  /\ UNCHANGED <<durable, dest, misled>>

LateReplace(job) ==
  /\ job.kind = "replace"
  /\ IF part = NoFile
     THEN UNCHANGED <<part, durable, dest>>
     ELSE dest' = part /\ part' = NoFile /\ durable' = NoFile
  /\ late' = late \ {job}
  /\ UNCHANGED <<struck, misled, outdated>>

LateJob(job) ==
  /\ LateWrite(job) \/ LatePreallocation(job) \/ LateReplace(job)
  /\ UNCHANGED <<server, saved, session, runs, crashes>>

\* The process dies.  What the operating system has been told survives.
Crash ==
  /\ crashes < MaxCrashes
  /\ crashes' = crashes + 1
  /\ late' = {} /\ End
  /\ UNCHANGED <<files, runs, outdated, misled, struck>>

\* What .part may hold after a power loss: its length and every block are
\* either those of the last sync or the later ones.
AfterPowerLoss ==
  IF part = NoFile THEN {NoFile}
  ELSE LET old == IF durable = NoFile THEN <<>> ELSE durable
           At(f, b) == IF b <= Len(f) THEN {f[b]} ELSE {}
       IN UNION {{f \in [1..n -> Content] :
                    \A b \in 1..n : f[b] \in At(old, b) \cup At(part, b)
                                      \cup (IF b > Len(old) THEN {Zero} ELSE {})} :
                   n \in {Len(old), Len(part)}}

PowerLoss ==
  /\ crashes < MaxCrashes
  /\ crashes' = crashes + 1
  /\ part' \in AfterPowerLoss
  /\ durable' = part'
  /\ late' = {} /\ End
  /\ UNCHANGED <<server, saved, dest, runs, outdated, misled, struck>>

\* The file behind the URL is replaced by another one.
ServerChanges ==
  /\ server < MaxVersion
  /\ server' = server + 1
  /\ UNCHANGED <<part, durable, saved, dest, session, late, history>>

-----------------------------------------------------------------------------
Init ==
  /\ server = 1
  /\ part = NoFile /\ durable = NoFile /\ saved = NoFile /\ dest = NoFile
  /\ pc = "idle" /\ etag = NoTag /\ ranged = FALSE /\ parts = Parts /\ segs = <<>>
  /\ conn = NoTasks /\ tries = [s \in 1..Parts |-> 0]
  /\ pos = 1 /\ goal = 1 /\ body = [s \in 1..Parts |-> 1]
  /\ saver = "off" /\ stop = "no"
  /\ late = {} /\ runs = 0 /\ crashes = 0
  /\ outdated = FALSE /\ misled = FALSE /\ struck = FALSE

SegmentStep(s) ==
  \/ SegmentAccepted(s) \/ SegmentRejected(s) \/ SegmentIgnored(s)
  \/ SegmentRetries(s) \/ SegmentGivesUp(s) \/ SegmentChunk(s)
  \/ SegmentAdvances(s) \/ SegmentDone(s) \/ TaskReturns(s)

StreamStep ==
  \/ \E h \in Blocks : StreamOpens(h)
  \/ StreamFails \/ StreamDrains \/ StreamChunk \/ StreamAdvances \/ StreamDone

MainStep ==
  \/ ProbeFails
  \/ \E tag \in Tags, ranges \in BOOLEAN : ProbeAnswers(tag, ranges)
  \/ Begin \/ BeginStopped \/ Finalize \/ FinalizeRefuses \/ Pause
  \/ ReplaceFails \/ Complete \/ Cancel

SaverStep == BeginSave \/ NoFirstSave \/ EndSave \/ SaveFails

PoolStep ==
  \/ Truncate \/ Extend \/ PreallocateFails \/ Replace
  \/ \E s \in 1..Parts : Write(s) \/ WriteFails(s)

Next ==
  \/ Start \/ MainStep \/ SaverStep \/ PoolStep \/ StreamStep
  \/ \E s \in 1..Parts : SegmentStep(s)
  \/ Stop \/ StopEarly
  \/ \E job \in late : LateJob(job)
  \/ Crash \/ PowerLoss \/ ServerChanges

Spec == Init /\ [][Next]_vars

-----------------------------------------------------------------------------
TypeOK ==
  /\ server \in Versions
  /\ part \in Seq(Content) \cup {NoFile} /\ durable \in Seq(Content) \cup {NoFile}
  /\ dest \in Seq(Content) \cup {NoFile}
  /\ saved # NoFile => saved.etag \in Tags /\ saved.segs \in Seq(Segment)
  /\ pc \in {"idle", "probe", "truncate", "extend", "allocated", "range", "stream",
             "replace", "replaced", "parting"}
  /\ etag \in Tags /\ ranged \in BOOLEAN /\ parts \in 1..Parts
  /\ segs \in Seq(Segment) /\ Len(segs) <= Parts
  /\ conn \in [1..Parts -> {"off", "ask", "open", "busy", "wrote", "broke"}]
  /\ tries \in [1..Parts -> 0..(MaxTries - 1)]
  /\ pos \in 1..(Size + 1) /\ goal \in 1..(Size + 1) /\ body \in [1..Parts -> Versions]
  /\ saver \in {"off", "first", "wait", "saving"}
  /\ stop \in {"no", "flag", "asked"}
  /\ \A j \in late : j.kind \in {"write", "truncate", "extend", "replace"}
  /\ runs \in 0..MaxSessions /\ crashes \in 0..MaxCrashes
  /\ outdated \in BOOLEAN /\ misled \in BOOLEAN /\ struck \in BOOLEAN

\* Whatever a session publishes is, from its first byte to its last, one version
\* of the file, and the version whose ETag it validated: interrupted, resumed,
\* retried, fallen back to a stream, with the server changing at any moment
\* (start to _durably_replace_file).  Excepted are the sessions that resumed from
\* a state.json older than the .part file, or that a late write reached.
DeliveredIsWhole ==
  [][(pc = "replace" /\ dest' # dest /\ ~misled /\ ~struck) =>
       \E v \in Versions : dest' = Whole(v) /\ (etag # NoTag => v = etag)]_vars

\* What state.json counts as downloaded is in .part and will be there after a
\* crash or a power loss, whatever the pool writes while it is being saved and
\* afterwards (_save_state syncs .part first; segment['current'] follows the
\* write), as long as .part was not reset since.
SavedClaimsAreDurable ==
  (/\ saved # NoFile /\ saved.etag # NoTag /\ CoversFile(saved.segs)
   /\ ~outdated /\ ~misled /\ ~struck) =>
    \A f \in AfterPowerLoss :
      (f # NoFile /\ Len(f) = Size) =>
        \A b \in Claimed(saved.segs) : f[b] = saved.etag

-----------------------------------------------------------------------------
\* The event loop runs what is ready between two saves, the pool runs what it
\* is given, and every network request is answered or times out.  Nothing is
\* assumed of the user, the server's changes and the late jobs.
Fairness ==
  /\ WF_vars(SaverStep) /\ WF_vars(PoolStep)
  /\ SF_vars(MainStep) /\ SF_vars(StreamStep)
  /\ \A s \in 1..Parts : SF_vars(SegmentStep(s))

FairSpec == Spec /\ Fairness

\* No session hangs: with its retries, its fallback, the saver and a stop at any
\* point, it ends (start's finally clause waits for the saver).
EverySessionEnds == pc # "idle" ~> pc = "idle"

-----------------------------------------------------------------------------
\* The README's safe resume: a session that resumes because the ETag is the same,
\* or starts from the beginning because it is not, delivers the file.  It does not
\* hold (run downloader_stale_state): a session that resets .part and is stopped
\* before its first save leaves a state.json that the next session believes.
ResumeIsSafe ==
  [][(pc = "replace" /\ dest' # dest /\ ~struck) =>
       \E v \in Versions : dest' = Whole(v)]_vars

\* What the integrity tests ask of a transfer: an incomplete one never replaces
\* the destination.  It does not hold (run downloader_late_replace): the rename
\* of a session stopped while it verified publishes what the next one has begun.
IncompleteNeverReplaces ==
  [][(dest' # dest /\ ~misled /\ ~struck) => \E v \in Versions : dest' = Whole(v)]_vars
=============================================================================
