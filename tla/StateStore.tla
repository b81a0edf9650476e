----------------------------- MODULE StateStore -----------------------------
(***************************************************************************)
(* The download engine's task table (engine/crates/state-store): one       *)
(* SQLite database shared by any number of callers, each holding copies of *)
(* rows it read earlier.  Every operation is one BEGIN IMMEDIATE           *)
(* transaction, so it is one action here; an operation that returns an     *)
(* error rolls back and is a stuttering step.                              *)
(*                                                                         *)
(* `generation' is the ownership token of one download attempt and         *)
(* `version' counts the mutations of a row.  A caller passes the values of *)
(* the copy it holds, which may be stale: `held' is that copy.             *)
(***************************************************************************)
EXTENDS Naturals

CONSTANTS
  Ids,         \* task identifiers callers may choose
  Callers,     \* connections: workers and controllers sharing the database
  Validators,  \* etag / last-modified / range observations of a file
  NoValidator, \* FileIdentity::default()'s validator
  Absent,      \* no row, or no copy of a row
  MaxBytes,    \* largest file size (i64::MAX in the program)
  MaxCounter   \* largest generation or version (i64::MAX in the program)

ASSUME ConstantsAssumption ==
  /\ MaxBytes \in Nat
  /\ MaxCounter \in Nat
  /\ NoValidator \notin Validators

States == {"pending", "downloading", "paused", "completed", "failed"}

Bytes == 0..MaxBytes
Counter == 0..MaxCounter

\* FileIdentity without its content_length, which has no column: task_from_row
\* fills it with the size of the row.
Identity == Validators \cup {NoValidator}

\* A row of the tasks table (url and destination never change).
Task ==
  [size : Bytes, bytes : Bytes, identity : Identity, observed : BOOLEAN,
   confirmed : BOOLEAN, generation : Counter, version : Counter, state : States]

Tombstone == [generation : Counter, version : Counter]

ASSUME AbsentAssumption == Absent \notin Task /\ Absent \notin Tombstone

VARIABLES
  schema,      \* user-visible schema version of the database file: 0, 1 or 2
  tasks,       \* the tasks table
  tombstones,  \* the task_tombstones table
  held,        \* held[c][i]: the copy of row i that caller c last obtained
  claims       \* history: the <<id, generation>> attempts each caller began

vars == <<schema, tasks, tombstones, held, claims>>

-----------------------------------------------------------------------------
\* What create_task inserts.
FreshTask ==
  [size |-> 0, bytes |-> 0, identity |-> NoValidator, observed |-> FALSE,
   confirmed |-> FALSE, generation |-> 0, version |-> 0, state |-> "pending"]

\* What the second migration turns every row of a version 1 database into.
Quarantined == [FreshTask EXCEPT !.state = "failed"]

\* The rows a version 1 database may hold: any state, no attempt columns.
LegacyTask ==
  {t \in Task : /\ t.bytes <= t.size
                /\ ~t.observed /\ ~t.confirmed
                /\ t.generation = 0 /\ t.version = 0}

\* Mutant: the completeness test forgets metadata_observed.
CompleteUnobserved(t) == t.bytes = t.size

Complete(t) == t.observed /\ t.bytes = t.size

\* What a worker may report: the counts are u64, wider than SQLite's integers.
Reported == 0..(MaxBytes + 1)

Observation ==
  [size : Reported, bytes : Reported, identity : Identity, length : Reported]

\* Mutant: the bytes are not compared with the size.
AnyBytes(o) == o.length = o.size /\ {o.size, o.bytes} \subseteq Bytes

\* validate_transfer_observation.
ValidObservation(o) ==
  /\ o.bytes <= o.size
  /\ o.length = o.size
  /\ {o.size, o.bytes} \subseteq Bytes

\* Mutant: the version is not compared.
AtAnyVersion(t, copy) == t.version >= 0

\* require_version.
AtVersion(t, copy) == t.version = copy.version

\* require_downloading_attempt with the attempt derived from the copy.
OwnsAttempt(t, copy) ==
  /\ copy.state = "downloading"
  /\ t.state = "downloading"
  /\ t.generation = copy.generation
  /\ AtVersion(t, copy)

\* Mutant: a confirmed download may still be paused or failed.
AllowedAfterConfirm(t, next) ==
  \/ t.state = "pending" /\ next \in {"downloading", "paused", "failed"}
  \/ t.state = "downloading" /\ next \in {"paused", "failed"}
  \/ t.state = "downloading" /\ next = "completed" /\ Complete(t) /\ t.confirmed
  \/ t.state = "paused" /\ next \in {"downloading", "failed"}
  \/ t.state = "failed" /\ next = "pending"

\* validate_transition.
Allowed(t, next) ==
  \/ /\ t.state = "pending"
     /\ next \in {"downloading", "paused", "failed"}
  \/ /\ t.state = "downloading"
     /\ next \in {"paused", "failed"}
     /\ ~t.confirmed
  \/ /\ t.state = "downloading"
     /\ next = "completed"
     /\ Complete(t) /\ t.confirmed
  \/ /\ t.state = "paused"
     /\ next \in {"downloading", "failed"}
  \/ /\ t.state = "failed"
     /\ next = "pending"

-----------------------------------------------------------------------------
\* StateStore::open on a database older than schema 2 migrates it.
Open ==
  /\ schema < 2
  /\ schema' = 2
  /\ tasks' = [i \in Ids |-> IF tasks[i] = Absent THEN Absent ELSE Quarantined]
  /\ UNCHANGED <<tombstones, held, claims>>

\* The copy a successful mutation returns to its caller.
Store(c, i, t) ==
  /\ tasks' = [tasks EXCEPT ![i] = t]
  /\ held' = [held EXCEPT ![c][i] = t]

\* An attempt's mutations all start by reading the row and checking the copy.
Row(c, i) == schema = 2 /\ tasks[i] # Absent /\ held[c][i] # Absent

\* Mutant: a retired identifier is accepted again.
CreateRetired(c, i) ==
  /\ schema = 2
  /\ tasks[i] = Absent
  /\ Store(c, i, FreshTask)
  /\ UNCHANGED <<schema, tombstones, claims>>

Create(c, i) ==
  /\ schema = 2
  /\ tasks[i] = Absent
  /\ tombstones[i] = Absent
  /\ Store(c, i, FreshTask)
  /\ UNCHANGED <<schema, tombstones, claims>>

Get(c, i) ==
  /\ schema = 2
  /\ held' = [held EXCEPT ![c][i] = tasks[i]]
  /\ UNCHANGED <<schema, tasks, tombstones, claims>>

\* Mutant: a later checkpoint may replace the observed metadata.
UpdateAnyMetadata(c, i, o) ==
  /\ ValidObservation(o)
  /\ Row(c, i)
  /\ OwnsAttempt(tasks[i], held[c][i])
  /\ ~tasks[i].confirmed
  /\ o.bytes >= tasks[i].bytes
  /\ tasks[i].version < MaxCounter
  /\ Store(c, i, [tasks[i] EXCEPT !.size = o.size, !.bytes = o.bytes,
                                  !.identity = o.identity, !.observed = TRUE,
                                  !.version = @ + 1])
  /\ UNCHANGED <<schema, tombstones, claims>>

UpdateTransferState(c, i, o) ==
  /\ ValidObservation(o)
  /\ Row(c, i)
  /\ OwnsAttempt(tasks[i], held[c][i])
  /\ ~tasks[i].confirmed
  /\ o.bytes >= tasks[i].bytes
  /\ tasks[i].observed => /\ o.size = tasks[i].size
                          /\ o.identity = tasks[i].identity
  /\ tasks[i].version < MaxCounter
  /\ Store(c, i, [tasks[i] EXCEPT !.size = o.size, !.bytes = o.bytes,
                                  !.identity = o.identity, !.observed = TRUE,
                                  !.version = @ + 1])
  /\ UNCHANGED <<schema, tombstones, claims>>

\* Mutant: the counter is not checked against the SQLite range.
ConfirmUnbounded(c, i) ==
  /\ Row(c, i)
  /\ OwnsAttempt(tasks[i], held[c][i])
  /\ ~tasks[i].confirmed
  /\ Complete(tasks[i])
  /\ Store(c, i, [tasks[i] EXCEPT !.confirmed = TRUE, !.version = @ + 1])
  /\ UNCHANGED <<schema, tombstones, claims>>

ConfirmFinalization(c, i) ==
  /\ Row(c, i)
  /\ OwnsAttempt(tasks[i], held[c][i])
  /\ ~tasks[i].confirmed
  /\ Complete(tasks[i])
  /\ tasks[i].version < MaxCounter
  /\ Store(c, i, [tasks[i] EXCEPT !.confirmed = TRUE, !.version = @ + 1])
  /\ UNCHANGED <<schema, tombstones, claims>>

TransitionTask(c, i, next) ==
  /\ Row(c, i)
  /\ AtVersion(tasks[i], held[c][i])
  /\ Allowed(tasks[i], next)
  /\ tasks[i].version < MaxCounter
  /\ IF next = "downloading"
     THEN /\ tasks[i].generation < MaxCounter
          /\ Store(c, i, [tasks[i] EXCEPT !.state = next, !.version = @ + 1,
                                          !.generation = @ + 1])
          /\ claims' = [claims EXCEPT ![c] = @ \cup {<<i, tasks[i].generation + 1>>}]
     ELSE /\ Store(c, i, [tasks[i] EXCEPT !.state = next, !.version = @ + 1])
          /\ UNCHANGED claims
  /\ UNCHANGED <<schema, tombstones>>

\* Deletes the row and leaves a tombstone in the same transaction; the caller
\* goes on holding its copy.
DeleteTask(c, i) ==
  /\ Row(c, i)
  /\ AtVersion(tasks[i], held[c][i])
  /\ tasks[i].state \in {"completed", "failed"}
  /\ tombstones' = [tombstones EXCEPT ![i] =
       [generation |-> tasks[i].generation, version |-> tasks[i].version]]
  /\ tasks' = [tasks EXCEPT ![i] = Absent]
  /\ UNCHANGED <<schema, held, claims>>

\* A caller's process ends; the database is all that survives it.
CallerRestart(c) ==
  /\ held' = [held EXCEPT ![c] = [i \in Ids |-> Absent]]
  /\ UNCHANGED <<schema, tasks, tombstones, claims>>

-----------------------------------------------------------------------------
Init ==
  /\ schema \in {0, 1}
  /\ tasks \in [Ids -> LegacyTask \cup {Absent}]
  /\ schema = 0 => tasks = [i \in Ids |-> Absent]
  /\ tombstones = [i \in Ids |-> Absent]
  /\ held = [c \in Callers |-> [i \in Ids |-> Absent]]
  /\ claims = [c \in Callers |-> {}]

Next ==
  \/ Open
  \/ \E c \in Callers : CallerRestart(c)
  \/ \E c \in Callers, i \in Ids :
       \/ Create(c, i)
       \/ Get(c, i)
       \/ ConfirmFinalization(c, i)
       \/ DeleteTask(c, i)
       \/ \E o \in Observation : UpdateTransferState(c, i, o)
       \/ \E next \in States : TransitionTask(c, i, next)

Spec == Init /\ [][Next]_vars

-----------------------------------------------------------------------------
TypeOK ==
  /\ schema \in 0..2
  /\ tasks \in [Ids -> Task \cup {Absent}]
  /\ tombstones \in [Ids -> Tombstone \cup {Absent}]
  /\ held \in [Callers -> [Ids -> Task \cup {Absent}]]
  /\ claims \in [Callers -> SUBSET (Ids \X Counter)]

\* validate_task_record, applied to every row read (whose length is its size
\* by construction).  A mutation also reads its
\* row back before it commits; the actions leave that read-back out, so that
\* RowsStayReadable shows it never refuses a row.
Readable(t) ==
  /\ t.bytes <= t.size
  /\ ~t.observed => t.size = 0 /\ t.identity = NoValidator /\ ~t.confirmed
  /\ t.confirmed => Complete(t)
  /\ t.state = "completed" => t.confirmed

\* Once migrated, every row the transactions leave behind is accepted by the
\* validation of the next read (task_from_row).
RowsStayReadable ==
  schema = 2 => \A i \in Ids : tasks[i] # Absent => Readable(tasks[i])

\* The optimistic check is exact: whatever copy a caller holds, however old,
\* it is the current row if the versions agree, and it is behind the row (or
\* its tombstone) otherwise.  Passing the version check therefore means having seen
\* the current row, also across deletions (require_version, and create_task's
\* refusal of retired identifiers).
CopiesAreExactOrBehind ==
  \A c \in Callers, i \in Ids : held[c][i] # Absent =>
    IF tasks[i] # Absent
    THEN \/ held[c][i] = tasks[i]
         \/ held[c][i].version < tasks[i].version
    ELSE /\ tombstones[i] # Absent
         /\ held[c][i].version <= tombstones[i].version

\* A generation names one attempt: two callers never begin the same one, even
\* across pauses, failures, retries, deletions and restarts (the ownership
\* token of TaskRecord::generation).
OneClaimPerGeneration ==
  \A c, d \in Callers : c # d => claims[c] \cap claims[d] = {}

\* No lost update: whoever changes or deletes a row had read exactly that row,
\* so a decision taken on an outdated copy never reaches the table
\* (require_version and the version predicates of the UPDATE statements).
MutationsSeeCurrentRow ==
  [][\A i \in Ids :
       (schema = 2 /\ tasks[i] # Absent /\ tasks'[i] # tasks[i]) =>
         \E c \in Callers : /\ held[c][i] = tasks[i]
                            /\ tasks'[i] \in {held'[c][i], Absent}]_vars

\* What a migrated row keeps as long as it exists: progress never goes back
\* and the observed representation never changes, so bytes recorded for one
\* representation are never taken for another's (update_transfer_state).
RepresentationFrozen ==
  [][\A i \in Ids :
       (schema = 2 /\ tasks[i] # Absent /\ tasks'[i] # Absent) =>
         /\ tasks'[i].bytes >= tasks[i].bytes
         /\ tasks[i].observed => /\ tasks'[i].observed
                                 /\ tasks'[i].size = tasks[i].size
                                 /\ tasks'[i].identity = tasks[i].identity]_vars

\* The life of each task that this table implements.
Phase(i) ==
  IF tasks[i] = Absent
  THEN IF tombstones[i] = Absent THEN "absent" ELSE "retired"
  ELSE IF schema < 2 THEN "legacy" ELSE tasks[i].state

Finalized(i) == tasks[i] # Absent /\ tasks[i].confirmed

Lifecycle == INSTANCE TaskLifecycle WITH
  phase <- [i \in Ids |-> Phase(i)],
  finalized <- {i \in Ids : Finalized(i)}

\* Every step of the store is a step of a task's life, or changes none
\* (TaskLifecycle): the states move along the documented edges only, and a
\* retired identifier never comes back.
ImplementsLifecycle == Lifecycle!Spec
=============================================================================
