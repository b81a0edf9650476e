--------------------------- MODULE DurableInbox ----------------------------
(* The durable inbox between the native host and the desktop application:    *)
(*   - persist_idempotent of apps/native-host/src/inbox.rs, run by one host  *)
(*     per request, one action for each file-system step it takes;           *)
(*   - BrowserInboxWatcher.drain of src/core/browser_inbox_watcher.py with   *)
(*     the delivery handler of the main window, which inserts a row.         *)
(* An envelope has the id of the request that created it (Uuid::new_v4).     *)
EXTENDS NativePort, FiniteSets

CONSTANTS
    KeyOf,        \* [Requests -> Keys], the idempotency key of each request
    NoTransfer,   \* Option::None for a transfer id
    UserRemoves   \* does the user remove rows from the download list?

ASSUME InboxAssumption ==
    /\ NoTransfer \notin Requests
    /\ DOMAIN KeyOf = Requests
    /\ UserRemoves \in BOOLEAN

VARIABLES
    lock,       \* [Keys -> BOOLEAN], does the .lock file exist?
    record,     \* [Keys -> transfer or NoTransfer], the .record file
    envelope,   \* [Requests -> Places], where the envelope's file is
    overtaken,  \* the hosts during whose scan a file was renamed
    host,       \* [Requests -> HostStates], what serves the request
    transfer,   \* [Requests -> transfer or NoTransfer], the host's local
    desk,       \* the watcher: [at |-> .., file |-> ..]
    rows,       \* [Requests -> Nat], rows ever inserted for an envelope
    gone,       \* [Requests -> Nat], how many of them the user removed
    disposed    \* history: requests answered before their row was removed

hostVars == <<lock, record, host, transfer>>
deskVars == <<desk, rows, gone, disposed>>
inbox == <<envelope, overtaken>>
inboxVars == <<hostVars, inbox, deskVars>>

Keys == {KeyOf[r] : r \in Requests}
Transfers == Requests \union {NoTransfer}

\* "torn" is a .pending file cut short; "staged" a whole .pending file;
\* "published" .json; "claimed" .processing; "unlinked" delivered and removed.
Kept == {"published", "claimed", "quarantined"}
Issued == Kept \union {"unlinked"}
Places == Issued \union {"none", "torn", "staged"}

Locked == {"looking", "scanning", "staging", "recording", "publishing",
           "ensuring", "releasing", "failing"}
Ended == {"done", "dead"}
HostStates == Locked \union Ended \union
              {"idle", "locking", "accepting", "rejecting"}

Idle == [at |-> "idle", file |-> NoTransfer]
DeskStates == [at : {"holding", "added"}, file : Requests] \union {Idle}

InboxType ==
    /\ lock \in [Keys -> BOOLEAN]
    /\ record \in [Keys -> Transfers]
    /\ envelope \in [Requests -> Places]
    /\ overtaken \subseteq Requests
    /\ host \in [Requests -> HostStates]
    /\ transfer \in [Requests -> Transfers]
    /\ desk \in DeskStates
    /\ rows \in [Requests -> Nat]
    /\ gone \in [Requests -> Nat]
    /\ disposed \subseteq Requests

InboxInit ==
    /\ lock = [k \in Keys |-> FALSE]
    /\ record = [k \in Keys |-> NoTransfer]
    /\ envelope = [r \in Requests |-> "none"]
    /\ overtaken = {}
    /\ host = [r \in Requests |-> "idle"]
    /\ transfer = [r \in Requests |-> NoTransfer]
    /\ desk = Idle
    /\ rows = [r \in Requests |-> 0]
    /\ gone = [r \in Requests |-> 0]
    /\ disposed = {}

----------------------------------------------------------------------------
(* The native host: persist_idempotent *)

Goto(r, place) == host' = [host EXCEPT ![r] = place]

\* The file of an envelope comes to be in a place, or to be in none.
Move(t, place) ==
    /\ envelope' = [envelope EXCEPT ![t] = place]
    /\ UNCHANGED overtaken

\* A .pending or .json file is renamed and the directory synced.  A host that
\* scans the directory meanwhile, for whatever key, may have the old name listed.
Rename(t, place) ==
    /\ envelope' = [envelope EXCEPT ![t] = place]
    /\ overtaken' = overtaken \union {r \in Requests : host[r] = "scanning"}

\* The host's main loop reads the request.
Receive(r) ==
    /\ port[r] = "asked"
    /\ host[r] = "idle"
    /\ Goto(r, "locking")
    /\ UNCHANGED <<port, faults, lock, record, transfer, inbox, deskVars>>

\* A mutant of Lock: the file is opened without create_new.
LockShared(r) ==
    /\ host[r] = "locking"
    /\ lock' = [lock EXCEPT ![KeyOf[r]] = TRUE]
    /\ Goto(r, "looking")
    /\ UNCHANGED <<port, faults, record, transfer, inbox, deskVars>>

\* acquire_idempotency_lock creates the .lock file, which must not exist.
Lock(r) ==
    /\ host[r] = "locking"
    /\ ~lock[KeyOf[r]]
    /\ lock' = [lock EXCEPT ![KeyOf[r]] = TRUE]
    /\ Goto(r, "looking")
    /\ UNCHANGED <<port, faults, record, transfer, inbox, deskVars>>

\* A mutant of LockBusy: it tries again for ever.
LockAwaited(r) ==
    /\ host[r] = "locking"
    /\ lock[KeyOf[r]]
    /\ UNCHANGED <<port, faults, hostVars, inbox, deskVars>>

\* It has tried 20 times, 25 ms apart, and found the file each time.
LockBusy(r) ==
    /\ host[r] = "locking"
    /\ lock[KeyOf[r]]
    /\ Goto(r, "rejecting")
    /\ UNCHANGED <<port, faults, lock, record, transfer, inbox, deskVars>>

\* The envelope is found invalid, the inbox cannot be prepared or the .lock
\* file not created: the request is rejected without the lock.
Refuse(r) ==
    /\ host[r] = "locking"
    /\ Fault
    /\ Goto(r, "rejecting")
    /\ UNCHANGED <<port, lock, record, transfer, inbox, deskVars>>

\* A mutant of Look: the envelope is staged before the scan.
LookStaging(r) ==
    /\ host[r] = "looking"
    /\ transfer' = [transfer EXCEPT ![r] = record[KeyOf[r]]]
    /\ IF record[KeyOf[r]] = NoTransfer
       THEN Goto(r, "scanning") /\ Move(r, "staged")
       ELSE Goto(r, "ensuring") /\ UNCHANGED inbox
    /\ UNCHANGED <<port, faults, lock, record, deskVars>>

\* known_transfer_id reads the .record file of the key.
Look(r) ==
    /\ host[r] = "looking"
    /\ transfer' = [transfer EXCEPT ![r] = record[KeyOf[r]]]
    /\ Goto(r, IF record[KeyOf[r]] = NoTransfer THEN "scanning" ELSE "ensuring")
    /\ UNCHANGED <<port, faults, lock, record, inbox, deskVars>>

\* The envelopes find_envelope_transfer_id can read, and of the same key.
Matching(r) ==
    {t \in Requests : /\ KeyOf[t] = KeyOf[r]
                      /\ envelope[t] \in {"staged", "published"}}

\* A listed file is gone before the scan reads it, which is taken for a failure
\* of the inbox although the file was another key's.
ScanOvertaken(r) ==
    /\ host[r] = "scanning"
    /\ r \in overtaken
    /\ Goto(r, "failing")
    /\ UNCHANGED <<port, faults, lock, record, transfer, inbox, deskVars>>

\* Without a record, a host that failed earlier may have left an envelope.
ScanFinds(r) ==
    /\ host[r] = "scanning"
    /\ \E t \in Matching(r) : transfer' = [transfer EXCEPT ![r] = t]
    /\ Goto(r, "recording")
    /\ UNCHANGED <<port, faults, lock, record, inbox, deskVars>>

ScanFindsNone(r) ==
    /\ host[r] = "scanning"
    /\ Matching(r) = {}
    /\ transfer' = [transfer EXCEPT ![r] = r]
    /\ Goto(r, "staging")
    /\ UNCHANGED <<port, faults, lock, record, inbox, deskVars>>

\* stage_envelope writes and syncs the .pending file.
Stage(r) ==
    /\ host[r] = "staging"
    /\ Move(r, "staged")
    /\ Goto(r, "recording")
    /\ UNCHANGED <<port, faults, lock, record, transfer, deskVars>>

\* persist_idempotency_record publishes the .record file.  It would fail on a
\* record of another transfer, which under the lock there never is.
Record(r) ==
    /\ host[r] = "recording"
    /\ record' = [record EXCEPT ![KeyOf[r]] = transfer[r]]
    /\ Goto(r, IF transfer[r] = r THEN "publishing" ELSE "ensuring")
    /\ UNCHANGED <<port, faults, lock, transfer, inbox, deskVars>>

\* publish_staged_envelope renames .pending to .json.
Publish(r) ==
    /\ host[r] = "publishing"
    /\ Rename(transfer[r], "published")
    /\ Goto(r, "releasing")
    /\ UNCHANGED <<port, faults, lock, record, transfer, deskVars>>

\* A mutant of Ensure: a transfer on record is taken to be published.
EnsureAssumed(r) ==
    /\ host[r] = "ensuring"
    /\ Goto(r, "releasing")
    /\ UNCHANGED <<port, faults, lock, record, transfer, inbox, deskVars>>

\* ensure_envelope_is_published does so only if the .pending file is there.
Ensure(r) ==
    /\ host[r] = "ensuring"
    /\ IF envelope[transfer[r]] = "staged"
       THEN Rename(transfer[r], "published")
       ELSE UNCHANGED inbox
    /\ Goto(r, "releasing")
    /\ UNCHANGED <<port, faults, lock, record, transfer, deskVars>>

\* Drop for IdempotencyLock removes the .lock file and ignores a failure.
Release(r) ==
    /\ host[r] \in {"releasing", "failing"}
    /\ \/ lock' = [lock EXCEPT ![KeyOf[r]] = FALSE] /\ UNCHANGED faults
       \/ Fault /\ UNCHANGED lock
    /\ Goto(r, IF host[r] = "releasing" THEN "accepting" ELSE "rejecting")
    /\ UNCHANGED <<port, record, transfer, inbox, deskVars>>

\* A mutant of Answer: the status is not one the client knows.
AnswerInternally(r) ==
    /\ host[r] \in {"accepting", "rejecting"}
    /\ Respond(r, host[r])
    /\ Goto(r, "done")
    /\ UNCHANGED <<faults, lock, record, transfer, inbox, deskVars>>

\* prepare_capture turns the result into a response and main writes it.
Answer(r) ==
    /\ host[r] \in {"accepting", "rejecting"}
    /\ Respond(r, IF host[r] = "accepting" THEN "accepted" ELSE "rejected")
    /\ Goto(r, "done")
    /\ UNCHANGED <<faults, lock, record, transfer, inbox, deskVars>>

\* What a file-system step that is cut short or returns an error leaves behind:
\* a part of the file, or the whole effect with only its sync missing.
CutShort(r) ==
    \/ UNCHANGED <<record, inbox>>
    \/ /\ host[r] = "staging"
       /\ \E place \in {"torn", "staged"} : Move(r, place)
       /\ UNCHANGED record
    \/ /\ host[r] = "recording"
       /\ record' = [record EXCEPT ![KeyOf[r]] = transfer[r]]
       /\ UNCHANGED inbox
    \/ /\ host[r] \in {"publishing", "ensuring"}
       /\ envelope[transfer[r]] = "staged"
       /\ Rename(transfer[r], "published")
       /\ UNCHANGED record

\* A step returns an error: persist_idempotent drops the lock and returns it.
StepFails(r) ==
    /\ host[r] \in Locked \ {"releasing", "failing"}
    /\ Fault
    /\ CutShort(r)
    /\ Goto(r, "failing")
    /\ UNCHANGED <<port, lock, transfer, deskVars>>

\* The host process ends, before it has read the request or at any step of it;
\* the browser also ends it when it closes the port.  A .lock file stays.
HostDies(r) ==
    /\ port[r] = "asked"
    /\ host[r] \notin Ended
    /\ Fault
    /\ CutShort(r)
    /\ Goto(r, "dead")
    /\ UNCHANGED <<port, lock, transfer, deskVars>>

----------------------------------------------------------------------------
(* The desktop application: BrowserInboxWatcher.drain *)

Holds(t, place) == desk' = [at |-> place, file |-> t]

\* drain claims a .json file by renaming it to .processing.
Claim(t) ==
    /\ desk = Idle
    /\ envelope[t] = "published"
    /\ Rename(t, "claimed")
    /\ Holds(t, "holding")
    /\ UNCHANGED <<port, faults, hostVars, rows, gone, disposed>>

\* A mutant of Recover: no _drain_in_progress, so that a timer that fires in a
\* dialog of the delivery handler takes up the file being delivered.
RecoverNested(t) ==
    /\ envelope[t] = "claimed"
    /\ Holds(t, "holding")
    /\ UNCHANGED <<port, faults, hostVars, inbox, rows, gone, disposed>>

\* A mutant of Recover: the pattern does not match names that begin with a dot.
RecoverNothing(t) ==
    /\ desk = Idle
    /\ envelope[t] = "claimed"
    /\ UNCHANGED <<port, faults, hostVars, inbox, deskVars>>

\* _recover_claimed_envelopes takes up a .processing file left earlier.
Recover(t) ==
    /\ desk = Idle
    /\ envelope[t] = "claimed"
    /\ Holds(t, "holding")
    /\ UNCHANGED <<port, faults, hostVars, inbox, rows, gone, disposed>>

\* A mutant of Quarantine: the file is removed instead.
QuarantineDeletes(t) ==
    /\ desk = [at |-> "holding", file |-> t]
    /\ Fault
    /\ Move(t, "unlinked")
    /\ desk' = Idle
    /\ UNCHANGED <<port, hostVars, rows, gone, disposed>>

\* An envelope that cannot be read or parsed goes to quarantine for good.
Quarantine(t) ==
    /\ desk = [at |-> "holding", file |-> t]
    /\ Fault
    /\ Move(t, "quarantined")
    /\ desk' = Idle
    /\ UNCHANGED <<port, hostVars, rows, gone, disposed>>

\* The delivery handler inserts the row of the download and commits it.
Deliver(t) ==
    /\ desk = [at |-> "holding", file |-> t]
    /\ rows' = [rows EXCEPT ![t] = @ + 1]
    /\ Holds(t, "added")
    /\ UNCHANGED <<port, faults, hostVars, inbox, gone, disposed>>

\* The envelope is acknowledged: its file is removed.
Unlink(t) ==
    /\ desk = [at |-> "added", file |-> t]
    /\ Move(t, "unlinked")
    /\ desk' = Idle
    /\ UNCHANGED <<port, faults, hostVars, rows, gone, disposed>>

\* The file stays for the next drain: the insert failed, the handler raised
\* after it, the file could not be removed, or the application ended.
Retain ==
    /\ desk # Idle
    /\ Fault
    /\ desk' = Idle
    /\ UNCHANGED <<port, hostVars, inbox, rows, gone, disposed>>

\* The user removes the rows of an envelope from the list; that disposes of
\* the requests whose host had come to accept it, and of no later one.
RemoveRows(t) ==
    /\ UserRemoves
    /\ gone[t] < rows[t]
    /\ gone' = [gone EXCEPT ![t] = rows[t]]
    /\ disposed' = disposed \union
           {r \in Requests : /\ transfer[r] = t
                             /\ host[r] \in {"releasing", "accepting", "done"}}
    /\ UNCHANGED <<port, faults, hostVars, inbox, desk, rows>>

----------------------------------------------------------------------------
(* The host and the watcher, for any client *)

\* The steps of a host that meets no error.
Serve(r) ==
    \/ Receive(r) \/ Lock(r) \/ LockBusy(r) \/ Look(r)
    \/ ScanOvertaken(r) \/ ScanFinds(r) \/ ScanFindsNone(r)
    \/ Stage(r) \/ Record(r) \/ Publish(r) \/ Ensure(r) \/ Release(r) \/ Answer(r)

HostStep(r) == Serve(r) \/ Refuse(r) \/ StepFails(r) \/ HostDies(r)

Drain(t) == Claim(t) \/ Recover(t) \/ Deliver(t) \/ Unlink(t)

DeskStep == \/ \E t \in Requests : Drain(t) \/ Quarantine(t) \/ RemoveRows(t)
            \/ Retain

InboxStep == DeskStep \/ \E r \in Requests : HostStep(r)

\* A client that asks and does nothing else.
Ask(r) == Post(r) /\ UNCHANGED <<faults, inboxVars>>

vars == <<port, faults, inboxVars>>

Init == PortInit /\ InboxInit

Next == InboxStep \/ \E r \in Requests : Ask(r)

Spec == Init /\ [][Next]_vars

InboxFairness ==
    /\ \A r \in Requests : WF_vars(Serve(r))
    /\ \A t \in Requests : WF_vars(Drain(t))

FairSpec == Spec /\ InboxFairness

----------------------------------------------------------------------------
(* Properties *)

TypeOK == PortType /\ InboxType

\* Whatever host dies or fails at whatever step, and whatever the watcher has
\* claimed meanwhile, the desktop never sees two envelopes of one key (the
\* promise of persist_idempotent, and of the comment in Drop for its lock).
OneEnvelopePerKey ==
    \A r, s \in Requests :
        KeyOf[r] = KeyOf[s] /\ envelope[r] \in Issued /\ envelope[s] \in Issued
            => r = s

\* An accepted response is durable: the envelope it names is on disk, or it has
\* become a row of the list and not merely been removed.
AcceptedIsKept ==
    \A r \in Requests :
        port[r] = "accepted" =>
            /\ transfer[r] # NoTransfer
            /\ envelope[transfer[r]] \in Kept \/ rows[transfer[r]] > 0

\* The watcher delivers an envelope again only after something has failed, and
\* only as often.
RepeatsAreFailures == \A t \in Requests : rows[t] <= 1 + faults

\* A rejection that no failing call and no dead host explains, for a busy lock or
\* an overtaken scan, has left no envelope of its own: the browser keeps such a
\* download, and Barq must not come to have it as well (prepare_capture).
RejectedLeavesNothing ==
    \A r \in Requests :
        port[r] = "rejected" /\ faults = 0 => envelope[r] = "none"

\* Every request is answered or its host has died, whoever else holds the lock:
\* none is left for ever with a host that waits.
RequestsEnd ==
    []<>(\A r \in Requests : port[r] = "asked" => host[r] \in Ended)

\* No envelope that was published stays without a row, nor one that a watcher
\* has claimed and not delivered, unless it is put in quarantine.
EnvelopesArrive ==
    []<>(\A t \in Requests :
            envelope[t] \in {"published", "claimed"} => rows[t] > 0)
============================================================================
