-------------------------- MODULE StateStoreProofs --------------------------
(***************************************************************************)
(* Proofs about StateStore for every set of tasks and callers and every    *)
(* bound on bytes and counters.                                            *)
(***************************************************************************)
EXTENDS StateStore, TLAPS

\* Before the migration nobody has a copy, a claim or a tombstone.
UnopenedIsUntouched ==
  schema < 2 => /\ tasks \in [Ids -> LegacyTask \cup {Absent}]
                /\ tombstones = [i \in Ids |-> Absent]
                /\ held = [c \in Callers |-> [i \in Ids |-> Absent]]
                /\ claims = [c \in Callers |-> {}]

\* A file whose durable finalization was recorded belongs to a task that is
\* still owned or already completed: no pause, failure or retry gets hold of
\* a finished file (validate_transition, confirm_finalization).
ConfirmedIsSettled ==
  schema = 2 =>
    \A i \in Ids : tasks[i] # Absent /\ tasks[i].confirmed =>
                     tasks[i].state \in {"downloading", "completed"}

\* A retired identifier has no row.
RetiredHaveNoRow ==
  \A i \in Ids : tombstones[i] # Absent => tasks[i] = Absent

\* Every attempt ever begun is numbered at or below its row's (or its
\* tombstone's) generation.
ClaimsAreBehind ==
  \A c \in Callers, i \in Ids, g \in Counter : <<i, g>> \in claims[c] =>
    IF tasks[i] # Absent THEN g <= tasks[i].generation
                         ELSE tombstones[i] # Absent

IInv ==
  /\ TypeOK
  /\ UnopenedIsUntouched
  /\ RetiredHaveNoRow
  /\ RowsStayReadable
  /\ ConfirmedIsSettled
  /\ CopiesAreExactOrBehind
  /\ ClaimsAreBehind
  /\ OneClaimPerGeneration

-----------------------------------------------------------------------------
\* The row each mutation writes: what Store's callers pass it.
Checkpointed(t, o) == [t EXCEPT !.size = o.size, !.bytes = o.bytes,
                                !.identity = o.identity, !.observed = TRUE,
                                !.version = @ + 1]
Confirmed(t) == [t EXCEPT !.confirmed = TRUE, !.version = @ + 1]
Moved(t, next) == [t EXCEPT !.state = next, !.version = @ + 1]
Claimed(t) == [t EXCEPT !.state = "downloading", !.version = @ + 1,
                        !.generation = @ + 1]

\* A fresh row, and the row a migration leaves, are rows and are readable.
LEMMA FreshIsReadable ==
  /\ FreshTask \in Task /\ Readable(FreshTask)
  /\ Quarantined \in Task /\ Readable(Quarantined)
  /\ ~FreshTask.confirmed /\ ~Quarantined.confirmed
  /\ FreshTask.version = 0 /\ FreshTask.generation = 0
  /\ FreshTask.state = "pending" /\ Quarantined.state = "failed"
<1>1. 0 \in Bytes /\ 0 \in Counter
  BY ConstantsAssumption DEF Bytes, Counter
<1>2. NoValidator \in Identity
  BY DEF Identity
<1>3. FreshTask \in Task /\ Quarantined \in Task
  BY <1>1, <1>2 DEF FreshTask, Quarantined, Task, States
<1>4. Readable(FreshTask) /\ Readable(Quarantined)
  BY <1>2 DEF FreshTask, Quarantined, Readable
<1> QED BY <1>3, <1>4 DEF FreshTask, Quarantined

\* next_counter stays in range below the largest counter.
LEMMA NextCounter ==
  ASSUME NEW n \in Counter, n < MaxCounter PROVE n + 1 \in Counter
BY ConstantsAssumption DEF Counter

\* Storing a row keeps the tables well typed.
LEMMA StoreKeepsTypes ==
  ASSUME TypeOK, NEW c \in Callers, NEW i \in Ids, NEW t \in Task, Store(c, i, t)
  PROVE  /\ tasks' \in [Ids -> Task \cup {Absent}]
         /\ held' \in [Callers -> [Ids -> Task \cup {Absent}]]
BY DEF TypeOK, Store

\* A mutation that advances the version leaves every other copy behind.
LEMMA StoreLeavesCopiesBehind ==
  ASSUME IInv, NEW c \in Callers, NEW i \in Ids, NEW t \in Task, Store(c, i, t),
         tasks[i] # Absent, t.version = tasks[i].version + 1,
         UNCHANGED tombstones
  PROVE  CopiesAreExactOrBehind'
<1> SUFFICES ASSUME NEW d \in Callers, NEW j \in Ids, held'[d][j] # Absent
             PROVE  IF tasks'[j] # Absent
                    THEN \/ held'[d][j] = tasks'[j]
                         \/ held'[d][j].version < tasks'[j].version
                    ELSE /\ tombstones'[j] # Absent
                         /\ held'[d][j].version <= tombstones'[j].version
  BY DEF CopiesAreExactOrBehind
<1>t. t # Absent /\ tasks[i] \in Task
  BY AbsentAssumption DEF IInv, TypeOK
<1>1. CASE j # i
  <2>1. tasks'[j] = tasks[j] /\ held'[d][j] = held[d][j]
    BY <1>1 DEF Store, IInv, TypeOK
  <2> QED BY <2>1 DEF IInv, CopiesAreExactOrBehind
<1>2. CASE j = i /\ d = c
  BY <1>2, <1>t DEF Store, IInv, TypeOK
<1>3. CASE j = i /\ d # c
  <2>1. tasks'[i] = t /\ held'[d][i] = held[d][i] /\ held[d][i] \in Task
    BY <1>3 DEF Store, IInv, TypeOK
  <2>2. held[d][i].version \in Nat /\ tasks[i].version \in Nat
    BY <2>1, <1>t DEF Task, Counter
  <2>3. held[d][i] = tasks[i] \/ held[d][i].version < tasks[i].version
    BY <1>3, <2>1 DEF IInv, CopiesAreExactOrBehind
  <2>4. held[d][i].version < t.version
    BY <2>2, <2>3
  <2> QED BY <1>3, <1>t, <2>1, <2>4
<1> QED BY <1>1, <1>2, <1>3

\* Storing over an existing row keeps the parts that speak of rows and claims,
\* when the new row is itself fit and no new attempt begins.
LEMMA StoreKeepsRows ==
  ASSUME IInv, NEW c \in Callers, NEW i \in Ids, NEW t \in Task, Store(c, i, t),
         schema = 2, tombstones[i] = Absent,
         Readable(t), t.confirmed => t.state \in {"downloading", "completed"},
         UNCHANGED <<schema, tombstones>>
  PROVE  /\ UnopenedIsUntouched' /\ RetiredHaveNoRow'
         /\ RowsStayReadable' /\ ConfirmedIsSettled'
<1>1. \A j \in Ids : tasks'[j] = IF j = i THEN t ELSE tasks[j]
  BY DEF Store, IInv, TypeOK
<1>2. UnopenedIsUntouched'
  BY DEF UnopenedIsUntouched
<1>3. RetiredHaveNoRow'
  BY <1>1 DEF RetiredHaveNoRow, IInv
<1>4. RowsStayReadable'
  BY <1>1 DEF RowsStayReadable, IInv
<1>5. ConfirmedIsSettled'
  BY <1>1 DEF ConfirmedIsSettled, IInv
<1> QED BY <1>2, <1>3, <1>4, <1>5

\* Claims stay behind a row whose generation does not go back.
LEMMA StoreKeepsClaims ==
  ASSUME IInv, NEW c \in Callers, NEW i \in Ids, NEW t \in Task, Store(c, i, t),
         tasks[i] # Absent, t.generation = tasks[i].generation,
         UNCHANGED <<tombstones, claims>>
  PROVE  ClaimsAreBehind' /\ OneClaimPerGeneration'
<1>1. \A j \in Ids : tasks'[j] = IF j = i THEN t ELSE tasks[j]
  BY DEF Store, IInv, TypeOK
<1>2. ClaimsAreBehind'
  BY <1>1, AbsentAssumption DEF ClaimsAreBehind, IInv
<1> QED BY <1>2 DEF OneClaimPerGeneration, IInv

-----------------------------------------------------------------------------
LEMMA InitIInv == Init => IInv
<1> SUFFICES ASSUME Init PROVE IInv
  OBVIOUS
<1>1. \A i \in Ids : tasks[i] # Absent => tasks[i] \in LegacyTask
  BY DEF Init
<1>2. TypeOK
  BY DEF Init, TypeOK, LegacyTask
<1>3. UnopenedIsUntouched /\ RetiredHaveNoRow
  BY DEF Init, UnopenedIsUntouched, RetiredHaveNoRow
<1>4. RowsStayReadable /\ ConfirmedIsSettled
  BY DEF Init, RowsStayReadable, ConfirmedIsSettled
<1>5. CopiesAreExactOrBehind /\ ClaimsAreBehind /\ OneClaimPerGeneration
  BY DEF Init, CopiesAreExactOrBehind, ClaimsAreBehind, OneClaimPerGeneration
<1> QED BY <1>2, <1>3, <1>4, <1>5 DEF IInv

LEMMA OpenIInv ==
  ASSUME IInv, Open PROVE IInv'
<1>1. \A i \in Ids : tasks'[i] # Absent => tasks'[i] = Quarantined
  BY DEF Open
<1>2. /\ tombstones' = [i \in Ids |-> Absent]
      /\ held' = [c \in Callers |-> [i \in Ids |-> Absent]]
      /\ claims' = [c \in Callers |-> {}]
      /\ schema' = 2
  BY DEF Open, IInv, UnopenedIsUntouched
<1>3. TypeOK'
  BY <1>2, FreshIsReadable DEF Open, IInv, TypeOK
<1>4. UnopenedIsUntouched' /\ RetiredHaveNoRow'
  BY <1>2 DEF UnopenedIsUntouched, RetiredHaveNoRow
<1>5. RowsStayReadable' /\ ConfirmedIsSettled'
  BY <1>1, FreshIsReadable DEF RowsStayReadable, ConfirmedIsSettled
<1>6. CopiesAreExactOrBehind' /\ ClaimsAreBehind' /\ OneClaimPerGeneration'
  BY <1>2 DEF CopiesAreExactOrBehind, ClaimsAreBehind, OneClaimPerGeneration
<1> QED BY <1>3, <1>4, <1>5, <1>6 DEF IInv

LEMMA CreateIInv ==
  ASSUME IInv, NEW c \in Callers, NEW i \in Ids, Create(c, i) PROVE IInv'
<1>f. FreshTask # Absent /\ FreshTask \in Task
  BY FreshIsReadable, AbsentAssumption
<1>s. Store(c, i, FreshTask) /\ UNCHANGED <<schema, tombstones, claims>>
      /\ schema = 2 /\ tasks[i] = Absent /\ tombstones[i] = Absent
  BY DEF Create
<1>1. TypeOK'
  BY <1>f, <1>s, StoreKeepsTypes DEF IInv, TypeOK
<1>2. /\ UnopenedIsUntouched' /\ RetiredHaveNoRow'
      /\ RowsStayReadable' /\ ConfirmedIsSettled'
  BY <1>s, <1>f, FreshIsReadable, StoreKeepsRows
<1>3. \A d \in Callers : held[d][i] = Absent
  BY <1>s DEF IInv, CopiesAreExactOrBehind
<1>4. CopiesAreExactOrBehind'
  <2> SUFFICES ASSUME NEW d \in Callers, NEW j \in Ids, held'[d][j] # Absent
               PROVE  IF tasks'[j] # Absent
                      THEN \/ held'[d][j] = tasks'[j]
                           \/ held'[d][j].version < tasks'[j].version
                      ELSE /\ tombstones'[j] # Absent
                           /\ held'[d][j].version <= tombstones'[j].version
    BY DEF CopiesAreExactOrBehind
  <2>1. CASE j # i
    <3>1. tasks'[j] = tasks[j] /\ held'[d][j] = held[d][j]
      BY <2>1, <1>s DEF Store, IInv, TypeOK
    <3> QED BY <3>1, <1>s DEF IInv, CopiesAreExactOrBehind
  <2>2. CASE j = i
    <3>1. tasks'[i] = FreshTask /\ held'[d][i] \in {Absent, FreshTask}
      BY <2>2, <1>s, <1>3 DEF Store, IInv, TypeOK
    <3> QED BY <3>1, <2>2, <1>f
  <2> QED BY <2>1, <2>2
<1>5. ClaimsAreBehind'
  <2>1. \A j \in Ids : tasks'[j] = IF j = i THEN FreshTask ELSE tasks[j]
    BY <1>s DEF Store, IInv, TypeOK
  <2> QED BY <2>1, <1>s DEF ClaimsAreBehind, IInv
<1>6. OneClaimPerGeneration'
  BY <1>s DEF OneClaimPerGeneration, IInv
<1> QED BY <1>1, <1>2, <1>4, <1>5, <1>6 DEF IInv

LEMMA GetIInv ==
  ASSUME IInv, NEW c \in Callers, NEW i \in Ids, Get(c, i) PROVE IInv'
<1>u. UNCHANGED <<schema, tasks, tombstones, claims>> /\ schema = 2
  BY DEF Get
<1>1. TypeOK'
  BY <1>u DEF Get, IInv, TypeOK
<1>2. /\ UnopenedIsUntouched' /\ RetiredHaveNoRow'
      /\ RowsStayReadable' /\ ConfirmedIsSettled'
  BY <1>u DEF UnopenedIsUntouched, RetiredHaveNoRow, RowsStayReadable,
              ConfirmedIsSettled, IInv
<1>3. CopiesAreExactOrBehind'
  <2>1. \A d \in Callers, j \in Ids :
          held'[d][j] = IF d = c /\ j = i THEN tasks[i] ELSE held[d][j]
    BY DEF Get, IInv, TypeOK
  <2> QED BY <2>1, <1>u DEF IInv, CopiesAreExactOrBehind
<1>4. ClaimsAreBehind' /\ OneClaimPerGeneration'
  BY <1>u DEF ClaimsAreBehind, OneClaimPerGeneration, IInv
<1> QED BY <1>1, <1>2, <1>3, <1>4 DEF IInv

\* A mutation of an existing row that begins no attempt: the step common to
\* checkpoints, finalizations, and transitions to states other than downloading.
LEMMA MutationIInv ==
  ASSUME IInv, NEW c \in Callers, NEW i \in Ids, NEW t \in Task, Store(c, i, t),
         Row(c, i), Readable(t),
         t.confirmed => t.state \in {"downloading", "completed"},
         t.version = tasks[i].version + 1, t.generation = tasks[i].generation,
         UNCHANGED <<schema, tombstones, claims>>
  PROVE  IInv'
<1>r. schema = 2 /\ tasks[i] # Absent /\ tombstones[i] = Absent
  BY DEF Row, IInv, RetiredHaveNoRow
<1>1. TypeOK'
  BY StoreKeepsTypes DEF IInv, TypeOK
<1>2. /\ UnopenedIsUntouched' /\ RetiredHaveNoRow'
      /\ RowsStayReadable' /\ ConfirmedIsSettled'
  BY <1>r, StoreKeepsRows
<1>3. CopiesAreExactOrBehind'
  BY <1>r, StoreLeavesCopiesBehind
<1>4. ClaimsAreBehind' /\ OneClaimPerGeneration'
  BY <1>r, StoreKeepsClaims
<1> QED BY <1>1, <1>2, <1>3, <1>4 DEF IInv

LEMMA UpdateTransferStateIInv ==
  ASSUME IInv, NEW c \in Callers, NEW i \in Ids, NEW o \in Observation,
         UpdateTransferState(c, i, o)
  PROVE  IInv'
<1> DEFINE t == Checkpointed(tasks[i], o)
<1>1. tasks[i] \in Task /\ Readable(tasks[i]) /\ Row(c, i)
  BY DEF UpdateTransferState, Row, IInv, TypeOK, RowsStayReadable
<1>2. /\ ValidObservation(o) /\ ~tasks[i].confirmed
      /\ tasks[i].state = "downloading"
      /\ tasks[i].version < MaxCounter
      /\ Store(c, i, t) /\ UNCHANGED <<schema, tombstones, claims>>
  BY DEF UpdateTransferState, OwnsAttempt, Checkpointed
<1>3. tasks[i].version + 1 \in Counter
  BY <1>1, <1>2, NextCounter DEF Task
<1>4. t \in Task /\ t.version = tasks[i].version + 1
      /\ t.generation = tasks[i].generation /\ ~t.confirmed
      /\ t.state = "downloading"
  BY <1>1, <1>2, <1>3 DEF Checkpointed, Task, Observation, ValidObservation
<1>5. Readable(t)
  BY <1>1, <1>2 DEF Checkpointed, Readable, ValidObservation, Task, Observation
<1> HIDE DEF t
<1> QED BY <1>1, <1>2, <1>4, <1>5, MutationIInv

LEMMA ConfirmFinalizationIInv ==
  ASSUME IInv, NEW c \in Callers, NEW i \in Ids, ConfirmFinalization(c, i)
  PROVE  IInv'
<1> DEFINE t == Confirmed(tasks[i])
<1>1. tasks[i] \in Task /\ Readable(tasks[i]) /\ Row(c, i)
  BY DEF ConfirmFinalization, Row, IInv, TypeOK, RowsStayReadable
<1>2. /\ Complete(tasks[i])
      /\ tasks[i].state = "downloading"
      /\ tasks[i].version < MaxCounter
      /\ Store(c, i, t) /\ UNCHANGED <<schema, tombstones, claims>>
  BY DEF ConfirmFinalization, OwnsAttempt, Confirmed
<1>3. tasks[i].version + 1 \in Counter
  BY <1>1, <1>2, NextCounter DEF Task
<1>4. t \in Task /\ t.version = tasks[i].version + 1
      /\ t.generation = tasks[i].generation
      /\ t.state = "downloading"
  BY <1>1, <1>2, <1>3 DEF Confirmed, Task
<1>5. Readable(t)
  BY <1>1, <1>2 DEF Confirmed, Readable, Complete, Task
<1> HIDE DEF t
<1> QED BY <1>1, <1>2, <1>4, <1>5, MutationIInv

LEMMA OtherTransitionIInv ==
  ASSUME IInv, NEW c \in Callers, NEW i \in Ids, NEW next \in States,
         next # "downloading", TransitionTask(c, i, next)
  PROVE  IInv'
<1> DEFINE t == Moved(tasks[i], next)
<1>1. tasks[i] \in Task /\ Readable(tasks[i]) /\ Row(c, i)
      /\ (tasks[i].confirmed => tasks[i].state \in {"downloading", "completed"})
  BY DEF TransitionTask, Row, IInv, TypeOK, RowsStayReadable, ConfirmedIsSettled
<1>2. /\ Allowed(tasks[i], next)
      /\ tasks[i].version < MaxCounter
      /\ Store(c, i, t) /\ UNCHANGED <<schema, tombstones, claims>>
  BY DEF TransitionTask, Moved
<1>3. tasks[i].version + 1 \in Counter
  BY <1>1, <1>2, NextCounter DEF Task
<1>4. t \in Task /\ t.version = tasks[i].version + 1
      /\ t.generation = tasks[i].generation
  BY <1>1, <1>2, <1>3 DEF Moved, Task
<1>5. t.confirmed => t.state \in {"downloading", "completed"}
  BY <1>1, <1>2 DEF Moved, Allowed, Task
<1>6. Readable(t)
  BY <1>1, <1>2 DEF Moved, Readable, Complete, Allowed, Task
<1> HIDE DEF t
<1> QED BY <1>1, <1>2, <1>4, <1>5, <1>6, MutationIInv

LEMMA ClaimIInv ==
  ASSUME IInv, NEW c \in Callers, NEW i \in Ids, TransitionTask(c, i, "downloading")
  PROVE  IInv'
<1> DEFINE t == Claimed(tasks[i])
           g == tasks[i].generation + 1
<1>1. tasks[i] \in Task /\ Readable(tasks[i]) /\ Row(c, i)
      /\ schema = 2 /\ tasks[i] # Absent /\ tombstones[i] = Absent
  BY DEF TransitionTask, Row, IInv, TypeOK, RowsStayReadable, RetiredHaveNoRow
<1>2. /\ Allowed(tasks[i], "downloading")
      /\ tasks[i].version < MaxCounter /\ tasks[i].generation < MaxCounter
      /\ Store(c, i, t) /\ UNCHANGED <<schema, tombstones>>
      /\ claims' = [claims EXCEPT ![c] = @ \cup {<<i, g>>}]
  BY DEF TransitionTask, Claimed
<1>3. tasks[i].version + 1 \in Counter /\ g \in Counter
  BY <1>1, <1>2, NextCounter DEF Task
<1>4. t \in Task /\ t.version = tasks[i].version + 1 /\ t.generation = g
      /\ t.state = "downloading"
  BY <1>1, <1>2, <1>3 DEF Claimed, Task, States
<1>5. Readable(t)
  BY <1>1, <1>2 DEF Claimed, Readable, Complete, Task
<1>6. /\ tasks' \in [Ids -> Task \cup {Absent}]
      /\ held' \in [Callers -> [Ids -> Task \cup {Absent}]]
  BY <1>2, <1>4, StoreKeepsTypes DEF IInv
<1>c. \A d \in Callers : claims'[d] = IF d = c THEN claims[c] \cup {<<i, g>>}
                                             ELSE claims[d]
  BY <1>2 DEF IInv, TypeOK
<1>7. TypeOK'
  <2>1. claims' \in [Callers -> SUBSET (Ids \X Counter)]
    <3>1. claims[c] \cup {<<i, g>>} \in SUBSET (Ids \X Counter)
      BY <1>3 DEF IInv, TypeOK
    <3> HIDE DEF g
    <3> QED BY <3>1, <1>2 DEF IInv, TypeOK
  <2> QED BY <2>1, <1>2, <1>6 DEF IInv, TypeOK
<1>8. /\ UnopenedIsUntouched' /\ RetiredHaveNoRow'
      /\ RowsStayReadable' /\ ConfirmedIsSettled'
  BY <1>1, <1>2, <1>4, <1>5, StoreKeepsRows
<1>9. CopiesAreExactOrBehind'
  BY <1>1, <1>2, <1>4, StoreLeavesCopiesBehind
<1>10. \A d \in Callers : <<i, g>> \notin claims[d]
  <2> SUFFICES ASSUME NEW d \in Callers, <<i, g>> \in claims[d] PROVE FALSE
    OBVIOUS
  <2>1. g <= tasks[i].generation
    BY <1>1, <1>3 DEF IInv, ClaimsAreBehind
  <2> QED BY <2>1, <1>1 DEF Task, Counter
<1>11. ClaimsAreBehind'
  <2> SUFFICES ASSUME NEW d \in Callers, NEW j \in Ids, NEW h \in Counter,
                      <<j, h>> \in claims'[d]
               PROVE  IF tasks'[j] # Absent THEN h <= tasks'[j].generation
                                            ELSE tombstones'[j] # Absent
    BY DEF ClaimsAreBehind
  <2>1. \A k \in Ids : tasks'[k] = IF k = i THEN t ELSE tasks[k]
    BY <1>2 DEF Store, IInv, TypeOK
  <2>2. CASE j # i
    <3>1. <<j, h>> \in claims[d] /\ tasks'[j] = tasks[j]
      BY <2>1, <2>2, <1>c
    <3> QED BY <3>1, <1>2 DEF IInv, ClaimsAreBehind
  <2>3. CASE j = i
    <3>1. h = g \/ h <= tasks[i].generation
      BY <2>3, <1>c, <1>1 DEF IInv, ClaimsAreBehind
    <3>2. h <= g
      BY <3>1, <1>1 DEF Task, Counter
    <3>3. tasks'[j] = t /\ t # Absent
      BY <2>1, <2>3, <1>4, AbsentAssumption
    <3> QED BY <3>2, <3>3, <1>4
  <2> QED BY <2>2, <2>3
<1>12. OneClaimPerGeneration'
  BY <1>10, <1>c DEF IInv, OneClaimPerGeneration
<1> HIDE DEF t, g
<1> QED BY <1>7, <1>8, <1>9, <1>11, <1>12 DEF IInv

LEMMA DeleteTaskIInv ==
  ASSUME IInv, NEW c \in Callers, NEW i \in Ids, DeleteTask(c, i) PROVE IInv'
<1>1. schema = 2 /\ tasks[i] # Absent /\ tasks[i] \in Task
  BY DEF DeleteTask, Row, IInv, TypeOK
<1>2. UNCHANGED <<schema, held, claims>>
  BY DEF DeleteTask
<1>3. \A j \in Ids : tasks'[j] = IF j = i THEN Absent ELSE tasks[j]
  BY DEF DeleteTask, IInv, TypeOK
<1>t. [generation |-> tasks[i].generation, version |-> tasks[i].version] \in Tombstone
  BY <1>1 DEF Task, Tombstone
<1>4. /\ \A j \in Ids \ {i} : tombstones'[j] = tombstones[j]
      /\ tombstones'[i] # Absent /\ tombstones'[i].version = tasks[i].version
  BY <1>t, AbsentAssumption DEF DeleteTask, IInv, TypeOK
<1>5. TypeOK'
  BY <1>2, <1>t DEF DeleteTask, IInv, TypeOK
<1>6. UnopenedIsUntouched' /\ RetiredHaveNoRow'
  BY <1>1, <1>2, <1>3, <1>4 DEF UnopenedIsUntouched, RetiredHaveNoRow, IInv
<1>7. RowsStayReadable' /\ ConfirmedIsSettled'
  BY <1>1, <1>2, <1>3 DEF RowsStayReadable, ConfirmedIsSettled, IInv
<1>8. CopiesAreExactOrBehind'
  <2> SUFFICES ASSUME NEW d \in Callers, NEW j \in Ids, held[d][j] # Absent
               PROVE  IF tasks'[j] # Absent
                      THEN \/ held[d][j] = tasks'[j]
                           \/ held[d][j].version < tasks'[j].version
                      ELSE /\ tombstones'[j] # Absent
                           /\ held[d][j].version <= tombstones'[j].version
    BY <1>2 DEF CopiesAreExactOrBehind
  <2>1. CASE j # i
    BY <2>1, <1>3, <1>4 DEF IInv, CopiesAreExactOrBehind
  <2>2. CASE j = i
    <3>1. held[d][i] = tasks[i] \/ held[d][i].version < tasks[i].version
      BY <2>2, <1>1 DEF IInv, CopiesAreExactOrBehind
    <3>2. held[d][i] \in Task
      BY <2>2 DEF IInv, TypeOK
    <3>3. held[d][i].version <= tasks[i].version
      BY <3>1, <3>2, <1>1 DEF Task, Counter
    <3> QED BY <2>2, <3>3, <1>3, <1>4
  <2> QED BY <2>1, <2>2
<1>9. ClaimsAreBehind' /\ OneClaimPerGeneration'
  BY <1>2, <1>3, <1>4 DEF IInv, ClaimsAreBehind, OneClaimPerGeneration
<1> QED BY <1>5, <1>6, <1>7, <1>8, <1>9 DEF IInv

LEMMA CallerRestartIInv ==
  ASSUME IInv, NEW c \in Callers, CallerRestart(c) PROVE IInv'
<1>1. UNCHANGED <<schema, tasks, tombstones, claims>>
  BY DEF CallerRestart
<1>2. \A d \in Callers, j \in Ids : held'[d][j] = held[d][j] \/ held'[d][j] = Absent
  BY DEF CallerRestart, IInv, TypeOK
<1>3. TypeOK'
  BY <1>1 DEF CallerRestart, IInv, TypeOK
<1>4. UnopenedIsUntouched'
  BY <1>1 DEF CallerRestart, IInv, UnopenedIsUntouched
<1>5. /\ RetiredHaveNoRow' /\ RowsStayReadable' /\ ConfirmedIsSettled'
      /\ ClaimsAreBehind' /\ OneClaimPerGeneration'
  BY <1>1 DEF RetiredHaveNoRow, RowsStayReadable, ConfirmedIsSettled,
              ClaimsAreBehind, OneClaimPerGeneration, IInv
<1>6. CopiesAreExactOrBehind'
  BY <1>1, <1>2 DEF IInv, CopiesAreExactOrBehind
<1> QED BY <1>3, <1>4, <1>5, <1>6 DEF IInv

LEMMA NextIInv == IInv /\ [Next]_vars => IInv'
<1> SUFFICES ASSUME IInv, [Next]_vars PROVE IInv'
  OBVIOUS
<1>1. CASE Open
  BY <1>1, OpenIInv
<1>2. CASE \E c \in Callers : CallerRestart(c)
  BY <1>2, CallerRestartIInv
<1>3. ASSUME NEW c \in Callers, NEW i \in Ids,
             \/ Create(c, i) \/ Get(c, i) \/ ConfirmFinalization(c, i)
             \/ DeleteTask(c, i)
      PROVE  IInv'
  BY <1>3, CreateIInv, GetIInv, ConfirmFinalizationIInv, DeleteTaskIInv
<1>4. ASSUME NEW c \in Callers, NEW i \in Ids, NEW o \in Observation,
             UpdateTransferState(c, i, o)
      PROVE  IInv'
  BY <1>4, UpdateTransferStateIInv
<1>5. ASSUME NEW c \in Callers, NEW i \in Ids, NEW next \in States,
             TransitionTask(c, i, next)
      PROVE  IInv'
  BY <1>5, ClaimIInv, OtherTransitionIInv
<1>6. CASE UNCHANGED vars
  BY <1>6 DEF vars, IInv, TypeOK, UnopenedIsUntouched, RetiredHaveNoRow,
              RowsStayReadable, ConfirmedIsSettled, CopiesAreExactOrBehind,
              ClaimsAreBehind, OneClaimPerGeneration
<1> QED BY <1>1, <1>2, <1>3, <1>4, <1>5, <1>6 DEF Next

\* The strengthening every theorem below follows from.
THEOREM Inductive == Spec => []IInv
BY InitIInv, NextIInv, PTL DEF Spec

\* Well-typed tables: no counter passes the largest SQLite integer
\* (next_counter, to_sqlite_integer).
THEOREM TypesHold == Spec => []TypeOK
BY Inductive, PTL DEF IInv

\* Every stored row passes the validation each read applies, so no legal
\* history of transactions makes a task unreadable (validate_task_record).
THEOREM RowsReadable == Spec => []RowsStayReadable
BY Inductive, PTL DEF IInv

\* The version check is exact, also across deletion (require_version,
\* create_task's tombstone check).
THEOREM VersionsAreExact == Spec => []CopiesAreExactOrBehind
BY Inductive, PTL DEF IInv

\* A generation is begun by one caller at most (the ownership token).
THEOREM ExclusiveGenerations == Spec => []OneClaimPerGeneration
BY Inductive, PTL DEF IInv

-----------------------------------------------------------------------------
\* What one step keeps of the rows it does not delete.
Frozen ==
  \A i \in Ids :
    (schema = 2 /\ tasks[i] # Absent /\ tasks'[i] # Absent) =>
      /\ tasks'[i].bytes >= tasks[i].bytes
      /\ tasks[i].observed => /\ tasks'[i].observed
                              /\ tasks'[i].size = tasks[i].size
                              /\ tasks'[i].identity = tasks[i].identity

LEMMA StoreFreezes ==
  ASSUME IInv, NEW c \in Callers, NEW i \in Ids, NEW t \in Task, Store(c, i, t),
         tasks[i] # Absent => /\ t.bytes >= tasks[i].bytes
                              /\ tasks[i].observed =>
                                   /\ t.observed
                                   /\ t.size = tasks[i].size
                                   /\ t.identity = tasks[i].identity
  PROVE  Frozen
<1>1. \A j \in Ids : tasks'[j] = IF j = i THEN t ELSE tasks[j]
  BY DEF Store, IInv, TypeOK
<1>2. \A j \in Ids : tasks[j] # Absent => tasks[j].bytes \in Nat
  BY ConstantsAssumption DEF IInv, TypeOK, Task, Bytes
<1> QED BY <1>1, <1>2 DEF Frozen

LEMMA UnchangedFreezes ==
  ASSUME IInv, \A i \in Ids : tasks'[i] \in {tasks[i], Absent} PROVE Frozen
<1>1. \A j \in Ids : tasks[j] # Absent => tasks[j].bytes \in Nat
  BY ConstantsAssumption DEF IInv, TypeOK, Task, Bytes
<1> QED BY <1>1 DEF Frozen

LEMMA StepFreezes == ASSUME IInv, Next PROVE Frozen
<1>b. \A i \in Ids : tasks[i] # Absent => tasks[i] \in Task /\ tasks[i].bytes \in Nat
  BY ConstantsAssumption DEF IInv, TypeOK, Task, Bytes
<1>1. CASE Open
  BY <1>1 DEF Open, Frozen
<1>2. CASE \E c \in Callers : CallerRestart(c)
  BY <1>2, UnchangedFreezes DEF CallerRestart
<1>3. ASSUME NEW c \in Callers, NEW i \in Ids, Create(c, i) PROVE Frozen
  BY <1>3, FreshIsReadable, StoreFreezes DEF Create
<1>4. ASSUME NEW c \in Callers, NEW i \in Ids, Get(c, i) PROVE Frozen
  BY <1>4, UnchangedFreezes DEF Get
<1>5. ASSUME NEW c \in Callers, NEW i \in Ids, DeleteTask(c, i) PROVE Frozen
  <2>1. \A j \in Ids : tasks'[j] \in {tasks[j], Absent}
    BY <1>5 DEF DeleteTask, IInv, TypeOK
  <2> QED BY <2>1, UnchangedFreezes
<1>6. ASSUME NEW c \in Callers, NEW i \in Ids, ConfirmFinalization(c, i) PROVE Frozen
  <2> DEFINE t == Confirmed(tasks[i])
  <2>1. tasks[i] \in Task /\ tasks[i].bytes \in Nat /\ tasks[i].version < MaxCounter
    BY <1>6, <1>b DEF ConfirmFinalization, Row
  <2>v. tasks[i].version + 1 \in Counter
    BY <2>1, NextCounter DEF Task
  <2>2. t \in Task /\ t.bytes = tasks[i].bytes /\ t.observed = tasks[i].observed
        /\ t.size = tasks[i].size /\ t.identity = tasks[i].identity
    BY <2>1, <2>v DEF Confirmed, Task
  <2>3. Store(c, i, t)
    BY <1>6 DEF ConfirmFinalization, Confirmed
  <2> HIDE DEF t
  <2> QED BY <2>1, <2>2, <2>3, StoreFreezes
<1>7. ASSUME NEW c \in Callers, NEW i \in Ids, NEW o \in Observation,
             UpdateTransferState(c, i, o)
      PROVE  Frozen
  <2> DEFINE t == Checkpointed(tasks[i], o)
  <2>1. tasks[i] \in Task /\ tasks[i].version < MaxCounter
    BY <1>7, <1>b DEF UpdateTransferState, Row
  <2>o. ValidObservation(o)
    BY <1>7 DEF UpdateTransferState
  <2>v. tasks[i].version + 1 \in Counter
    BY <2>1, NextCounter DEF Task
  <2>2. t \in Task /\ t.bytes = o.bytes /\ t.observed
        /\ t.size = o.size /\ t.identity = o.identity
    BY <2>1, <2>o, <2>v DEF Checkpointed, Task, Observation, ValidObservation
  <2>3. /\ Store(c, i, t) /\ o.bytes >= tasks[i].bytes
        /\ tasks[i].observed => o.size = tasks[i].size /\ o.identity = tasks[i].identity
    BY <1>7 DEF UpdateTransferState, Checkpointed
  <2> HIDE DEF t
  <2> QED BY <2>2, <2>3, StoreFreezes
<1>8. ASSUME NEW c \in Callers, NEW i \in Ids, NEW next \in States,
             TransitionTask(c, i, next)
      PROVE  Frozen
  <2>1. tasks[i] \in Task /\ tasks[i].bytes \in Nat /\ tasks[i].version < MaxCounter
    BY <1>8, <1>b DEF TransitionTask, Row
  <2>v. tasks[i].version + 1 \in Counter
    BY <2>1, NextCounter DEF Task
  <2>2. \E t \in Task : /\ t.bytes = tasks[i].bytes /\ t.observed = tasks[i].observed
                        /\ t.size = tasks[i].size /\ t.identity = tasks[i].identity
                        /\ Store(c, i, t)
    <3>1. CASE next = "downloading"
      <4>1. Claimed(tasks[i]) \in Task
        <5>1. tasks[i].generation + 1 \in Counter
          BY <1>8, <2>1, <3>1, NextCounter DEF TransitionTask, Task
        <5> QED BY <5>1, <2>1, <2>v DEF Claimed, Task, States
      <4>2. Store(c, i, Claimed(tasks[i]))
        BY <1>8, <3>1 DEF TransitionTask, Claimed
      <4> QED BY <4>1, <4>2, <2>1 DEF Claimed, Task
    <3>2. CASE next # "downloading"
      <4>1. Moved(tasks[i], next) \in Task
        BY <2>1, <2>v DEF Moved, Task
      <4>2. Store(c, i, Moved(tasks[i], next))
        BY <1>8, <3>2 DEF TransitionTask, Moved
      <4> QED BY <4>1, <4>2, <2>1 DEF Moved, Task
    <3> QED BY <3>1, <3>2
  <2> QED BY <2>1, <2>2, StoreFreezes
<1> QED BY <1>1, <1>2, <1>3, <1>4, <1>5, <1>6, <1>7, <1>8 DEF Next

\* Progress never goes back and an observed representation never changes
\* while its row exists (update_transfer_state).
THEOREM FrozenRepresentation == Spec => RepresentationFrozen
<1>1. IInv /\ [Next]_vars => [Frozen]_vars
  BY StepFreezes
<1>2. [Frozen]_vars <=>
      [\A i \in Ids :
       (schema = 2 /\ tasks[i] # Absent /\ tasks'[i] # Absent) =>
         /\ tasks'[i].bytes >= tasks[i].bytes
         /\ tasks[i].observed => /\ tasks'[i].observed
                                 /\ tasks'[i].size = tasks[i].size
                                 /\ tasks'[i].identity = tasks[i].identity]_vars
  BY DEF Frozen
<1> QED BY <1>1, <1>2, Inductive, PTL DEF Spec, RepresentationFrozen

-----------------------------------------------------------------------------
\* The abstract state the refinement mapping gives.
PhaseOf == [i \in Ids |-> Phase(i)]
FinalizedSet == {i \in Ids : Finalized(i)}

\* A stored row shows in the abstract state as its own state, and as a
\* finalized file when it is confirmed.
LEMMA StoreShows ==
  ASSUME IInv, NEW c \in Callers, NEW i \in Ids, NEW t \in Task, Store(c, i, t),
         schema = 2, UNCHANGED <<schema, tombstones>>
  PROVE  /\ PhaseOf' = [PhaseOf EXCEPT ![i] = t.state]
         /\ FinalizedSet' = IF t.confirmed THEN FinalizedSet \cup {i}
                                           ELSE FinalizedSet \ {i}
<1>1. \A j \in Ids : tasks'[j] = IF j = i THEN t ELSE tasks[j]
  BY DEF Store, IInv, TypeOK
<1>2. t # Absent
  BY AbsentAssumption
<1>3. \A j \in Ids : Phase(j)' = IF j = i THEN t.state ELSE Phase(j)
  BY <1>1, <1>2 DEF Phase
<1>4. \A j \in Ids : Finalized(j)' <=> IF j = i THEN t.confirmed ELSE Finalized(j)
  BY <1>1, <1>2 DEF Finalized
<1> QED BY <1>3, <1>4 DEF PhaseOf, FinalizedSet

\* A step that touches no row and no tombstone shows nothing.
LEMMA NoRowNoShow ==
  ASSUME UNCHANGED <<schema, tasks, tombstones>>
  PROVE  PhaseOf' = PhaseOf /\ FinalizedSet' = FinalizedSet
BY DEF PhaseOf, FinalizedSet, Phase, Finalized

LEMMA InitImplements == Init => Lifecycle!Init
<1> SUFFICES ASSUME Init PROVE Lifecycle!Init
  OBVIOUS
<1>1. \A i \in Ids : tasks[i] # Absent => schema = 1 /\ tasks[i] \in LegacyTask
  BY DEF Init
<1>2. \A i \in Ids : tasks[i] # Absent => ~tasks[i].confirmed
  <2>1. \A t \in LegacyTask : ~t.confirmed
    BY DEF LegacyTask
  <2> QED BY <1>1, <2>1
<1>3. \A i \in Ids : tombstones[i] = Absent
  BY DEF Init
<1>4. \A i \in Ids : Phase(i) \in {"absent", "legacy"} /\ ~Finalized(i)
  <2>1. \A i \in Ids : tasks[i] # Absent => schema < 2
    BY <1>1
  <2>2. \A i \in Ids : Phase(i) \in {"absent", "legacy"}
    BY <2>1, <1>3 DEF Phase
  <2> QED BY <2>2, <1>2 DEF Finalized
<1> QED BY <1>4 DEF Lifecycle!Init

LEMMA StepImplements == IInv /\ [Next]_vars => [Lifecycle!Next]_(Lifecycle!vars)
<1> SUFFICES ASSUME IInv, [Next]_vars
             PROVE  Lifecycle!Next \/ UNCHANGED <<PhaseOf, FinalizedSet>>
  BY DEF Lifecycle!vars, PhaseOf, FinalizedSet
<1> USE DEF Lifecycle!Next, Lifecycle!Move
<1>p. \A i \in Ids : tasks[i] # Absent /\ schema = 2 => PhaseOf[i] = tasks[i].state
  BY DEF PhaseOf, Phase
<1>f. \A i \in Ids : i \in FinalizedSet <=> tasks[i] # Absent /\ tasks[i].confirmed
  BY DEF FinalizedSet, Finalized
<1>1. CASE Open
  <2>1. \A i \in Ids : Phase(i)' = IF Phase(i) = "legacy" THEN "failed" ELSE Phase(i)
    <3>1. schema < 2 /\ schema' = 2 /\ UNCHANGED tombstones
      BY <1>1 DEF Open
    <3>2. \A i \in Ids : tasks'[i] = IF tasks[i] = Absent THEN Absent ELSE Quarantined
      BY <1>1 DEF Open
    <3>3. Quarantined # Absent /\ Quarantined.state = "failed"
      BY FreshIsReadable, AbsentAssumption
    <3> QED BY <3>1, <3>2, <3>3 DEF Phase
  <2>2. \A i \in Ids : ~Finalized(i)' /\ ~Finalized(i)
    BY <1>1, FreshIsReadable
       DEF Open, Finalized, IInv, UnopenedIsUntouched, LegacyTask
  <2> QED BY <2>1, <2>2 DEF Lifecycle!Upgrade
<1>2. CASE \E c \in Callers : CallerRestart(c)
  BY <1>2, NoRowNoShow DEF CallerRestart
<1>3. ASSUME NEW c \in Callers, NEW i \in Ids, Create(c, i)
      PROVE  Lifecycle!Next
  <2>1. PhaseOf' = [PhaseOf EXCEPT ![i] = FreshTask.state]
        /\ FinalizedSet' = FinalizedSet \ {i}
    BY <1>3, StoreShows, FreshIsReadable DEF Create
  <2>2. FreshTask.state = "pending" /\ i \notin FinalizedSet
        /\ PhaseOf[i] = "absent"
    BY <1>3, <1>f DEF Create, FreshTask, PhaseOf, Phase
  <2> QED BY <2>1, <2>2 DEF Lifecycle!Begin, PhaseOf, FinalizedSet
<1>4. ASSUME NEW c \in Callers, NEW i \in Ids, Get(c, i)
      PROVE  UNCHANGED <<PhaseOf, FinalizedSet>>
  BY <1>4, NoRowNoShow DEF Get
<1>5. ASSUME NEW c \in Callers, NEW i \in Ids, DeleteTask(c, i)
      PROVE  Lifecycle!Next
  <2>1. /\ \A j \in Ids : tasks'[j] = IF j = i THEN Absent ELSE tasks[j]
        /\ \A j \in Ids \ {i} : tombstones'[j] = tombstones[j]
        /\ schema = 2 /\ schema' = 2 /\ tasks[i] # Absent
        /\ tasks[i].state \in {"completed", "failed"}
    BY <1>5 DEF DeleteTask, Row, IInv, TypeOK
  <2>2. tombstones'[i] # Absent
    BY <1>5, AbsentAssumption DEF DeleteTask, Row, IInv, TypeOK, Tombstone, Task
  <2>3. PhaseOf' = [PhaseOf EXCEPT ![i] = "retired"]
    BY <2>1, <2>2 DEF PhaseOf, Phase
  <2>4. FinalizedSet' = FinalizedSet \ {i}
    BY <2>1 DEF FinalizedSet, Finalized
  <2> QED BY <2>1, <2>3, <2>4, <1>p DEF Lifecycle!Retire, PhaseOf, FinalizedSet
<1>6. ASSUME NEW c \in Callers, NEW i \in Ids, ConfirmFinalization(c, i)
      PROVE  Lifecycle!Next
  <2> DEFINE t == Confirmed(tasks[i])
  <2>1. /\ tasks[i] \in Task /\ tasks[i] # Absent /\ tasks[i].version < MaxCounter
        /\ tasks[i].state = "downloading" /\ schema = 2
        /\ UNCHANGED <<schema, tombstones>> /\ Store(c, i, t)
    BY <1>6 DEF ConfirmFinalization, OwnsAttempt, Row, IInv, TypeOK, Confirmed
  <2>v. tasks[i].version + 1 \in Counter
    BY <2>1, NextCounter DEF Task
  <2>2. t \in Task /\ t.state = "downloading" /\ t.confirmed
    BY <2>1, <2>v DEF Confirmed, Task
  <2> HIDE DEF t
  <2>3. PhaseOf' = [PhaseOf EXCEPT ![i] = "downloading"]
        /\ FinalizedSet' = FinalizedSet \cup {i}
    BY <2>1, <2>2, StoreShows
  <2>4. PhaseOf[i] = "downloading" /\ PhaseOf' = PhaseOf
    BY <2>1, <2>3, <1>p DEF PhaseOf
  <2> QED BY <2>3, <2>4 DEF Lifecycle!Finalize, PhaseOf, FinalizedSet
<1>7. ASSUME NEW c \in Callers, NEW i \in Ids, NEW o \in Observation,
             UpdateTransferState(c, i, o)
      PROVE  UNCHANGED <<PhaseOf, FinalizedSet>>
  <2> DEFINE t == Checkpointed(tasks[i], o)
  <2>1. /\ tasks[i] \in Task /\ tasks[i] # Absent /\ tasks[i].version < MaxCounter
        /\ tasks[i].state = "downloading" /\ schema = 2 /\ ~tasks[i].confirmed
        /\ UNCHANGED <<schema, tombstones>> /\ Store(c, i, t)
    BY <1>7 DEF UpdateTransferState, OwnsAttempt, Row, IInv, TypeOK, Checkpointed
  <2>o. ValidObservation(o)
    BY <1>7 DEF UpdateTransferState
  <2>v. tasks[i].version + 1 \in Counter
    BY <2>1, NextCounter DEF Task
  <2>2. t \in Task /\ t.state = "downloading" /\ ~t.confirmed
    BY <2>1, <2>o, <2>v DEF Checkpointed, Task, Observation, ValidObservation
  <2> HIDE DEF t
  <2>3. PhaseOf' = [PhaseOf EXCEPT ![i] = "downloading"]
        /\ FinalizedSet' = FinalizedSet \ {i}
    BY <2>1, <2>2, StoreShows
  <2>4. PhaseOf[i] = "downloading" /\ i \notin FinalizedSet
    BY <2>1, <1>p, <1>f
  <2> QED BY <2>3, <2>4 DEF PhaseOf
<1>8. ASSUME NEW c \in Callers, NEW i \in Ids, NEW next \in States,
             TransitionTask(c, i, next)
      PROVE  Lifecycle!Next
  <2>1. /\ tasks[i] \in Task /\ tasks[i] # Absent /\ tasks[i].version < MaxCounter
        /\ Allowed(tasks[i], next) /\ schema = 2
        /\ (tasks[i].confirmed => tasks[i].state \in {"downloading", "completed"})
        /\ UNCHANGED <<schema, tombstones>>
    BY <1>8 DEF TransitionTask, Row, IInv, TypeOK, ConfirmedIsSettled
  <2>v. tasks[i].version + 1 \in Counter
    BY <2>1, NextCounter DEF Task
  <2>2. \E t \in Task : /\ t.state = next /\ t.confirmed = tasks[i].confirmed
                        /\ Store(c, i, t)
    <3>1. CASE next = "downloading"
      <4>1. Claimed(tasks[i]) \in Task
        <5>1. tasks[i].generation + 1 \in Counter
          BY <1>8, <2>1, <3>1, NextCounter DEF TransitionTask, Task
        <5> QED BY <5>1, <2>1, <2>v DEF Claimed, Task, States
      <4>2. Store(c, i, Claimed(tasks[i]))
        BY <1>8, <3>1 DEF TransitionTask, Claimed
      <4> QED BY <4>1, <4>2, <2>1, <3>1 DEF Claimed, Task
    <3>2. CASE next # "downloading"
      <4>1. Moved(tasks[i], next) \in Task
        BY <2>1, <2>v DEF Moved, Task
      <4>2. Store(c, i, Moved(tasks[i], next))
        BY <1>8, <3>2 DEF TransitionTask, Moved
      <4> QED BY <4>1, <4>2, <2>1 DEF Moved, Task
    <3> QED BY <3>1, <3>2
  <2>3. /\ PhaseOf' = [PhaseOf EXCEPT ![i] = next]
        /\ FinalizedSet' = FinalizedSet
    BY <2>1, <2>2, <1>f, StoreShows DEF FinalizedSet
  <2>4. PhaseOf[i] = tasks[i].state /\ (i \in FinalizedSet <=> tasks[i].confirmed)
    BY <2>1, <1>p, <1>f
  <2>5. Lifecycle!Claim(i) \/ Lifecycle!Park(i) \/ Lifecycle!Fail(i)
        \/ Lifecycle!Retry(i) \/ Lifecycle!Finish(i)
    BY <2>1, <2>3, <2>4
       DEF Allowed, Lifecycle!Claim, Lifecycle!Park, Lifecycle!Fail,
           Lifecycle!Retry, Lifecycle!Finish, PhaseOf, FinalizedSet
  <2> QED BY <2>5
<1>9. CASE UNCHANGED vars
  BY <1>9, NoRowNoShow DEF vars
<1> QED BY <1>1, <1>2, <1>3, <1>4, <1>5, <1>6, <1>7, <1>8, <1>9 DEF Next

\* The transactional table implements the life of a task: documented edges
\* only, completion only after finalization, retirement for ever.
THEOREM TableImplementsLifecycle == Spec => ImplementsLifecycle
BY InitImplements, StepImplements, Inductive, PTL
   DEF Spec, ImplementsLifecycle, Lifecycle!Spec

-----------------------------------------------------------------------------
\* What one step says of the rows it changes or deletes.
Seen ==
  \A i \in Ids :
    (schema = 2 /\ tasks[i] # Absent /\ tasks'[i] # tasks[i]) =>
      \E c \in Callers : /\ held[c][i] = tasks[i]
                         /\ tasks'[i] \in {held'[c][i], Absent}

LEMMA ExactCopy ==
  ASSUME IInv, NEW c \in Callers, NEW i \in Ids, Row(c, i),
         AtVersion(tasks[i], held[c][i])
  PROVE  held[c][i] = tasks[i]
<1>1. held[c][i] = tasks[i] \/ held[c][i].version < tasks[i].version
  BY DEF Row, IInv, CopiesAreExactOrBehind
<1>2. held[c][i].version \in Nat
  BY DEF Row, IInv, TypeOK, Task, Counter
<1> QED BY <1>1, <1>2 DEF AtVersion

\* Storing a row one has an exact copy of.
LEMMA StoreSeen ==
  ASSUME IInv, NEW c \in Callers, NEW i \in Ids, NEW t, Store(c, i, t),
         tasks[i] # Absent => held[c][i] = tasks[i]
  PROVE  Seen
<1>1. \A j \in Ids : tasks'[j] = IF j = i THEN t ELSE tasks[j]
  BY DEF Store, IInv, TypeOK
<1>2. held'[c][i] = t
  BY DEF Store, IInv, TypeOK
<1> QED BY <1>1, <1>2 DEF Seen

LEMMA StepSeen == ASSUME IInv, Next PROVE Seen
<1>1. CASE Open \/ \E c \in Callers : CallerRestart(c)
  BY <1>1 DEF Open, CallerRestart, Seen
<1>2. ASSUME NEW c \in Callers, NEW i \in Ids, Get(c, i) PROVE Seen
  BY <1>2 DEF Get, Seen
<1>3. ASSUME NEW c \in Callers, NEW i \in Ids, Create(c, i) PROVE Seen
  BY <1>3, StoreSeen DEF Create
<1>4. ASSUME NEW c \in Callers, NEW i \in Ids, DeleteTask(c, i) PROVE Seen
  <2>1. held[c][i] = tasks[i] /\ held' = held
    BY <1>4, ExactCopy DEF DeleteTask
  <2>2. \A j \in Ids : tasks'[j] = IF j = i THEN Absent ELSE tasks[j]
    BY <1>4 DEF DeleteTask, IInv, TypeOK
  <2> QED BY <2>1, <2>2 DEF Seen
<1>5. ASSUME NEW c \in Callers, NEW i \in Ids, ConfirmFinalization(c, i) PROVE Seen
  BY <1>5, ExactCopy, StoreSeen DEF ConfirmFinalization, OwnsAttempt
<1>6. ASSUME NEW c \in Callers, NEW i \in Ids, NEW o \in Observation,
             UpdateTransferState(c, i, o)
      PROVE  Seen
  BY <1>6, ExactCopy, StoreSeen DEF UpdateTransferState, OwnsAttempt
<1>7. ASSUME NEW c \in Callers, NEW i \in Ids, NEW next \in States,
             TransitionTask(c, i, next)
      PROVE  Seen
  BY <1>7, ExactCopy, StoreSeen DEF TransitionTask
<1> QED BY <1>1, <1>2, <1>3, <1>4, <1>5, <1>6, <1>7 DEF Next

\* No update is lost: every change to a row was decided on that very row
\* (require_version, and the version predicates of the UPDATE statements).
THEOREM NoLostUpdate == Spec => MutationsSeeCurrentRow
<1>1. IInv /\ [Next]_vars => [Seen]_vars
  BY StepSeen
<1>2. [Seen]_vars <=>
      [\A i \in Ids :
       (schema = 2 /\ tasks[i] # Absent /\ tasks'[i] # tasks[i]) =>
         \E c \in Callers : /\ held[c][i] = tasks[i]
                            /\ tasks'[i] \in {held'[c][i], Absent}]_vars
  BY DEF Seen
<1> QED BY <1>1, <1>2, Inductive, PTL DEF Spec, MutationsSeeCurrentRow
=============================================================================
