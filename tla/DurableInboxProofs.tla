------------------------- MODULE DurableInboxProofs ------------------------
(* Proofs about DurableInbox for any requests, keys and number of faults.    *)
EXTENDS DurableInbox, TLAPS

\* The directory's files are its envelopes and the scans they have overtaken.
USE DEF inbox

----------------------------------------------------------------------------
(* The inductive invariant *)

\* The lock file is there while a host is at work under it, and only for one.
LockInv ==
    /\ \A r \in Requests : host[r] \in Locked => lock[KeyOf[r]]
    /\ \A r, s \in Requests :
         /\ host[r] \in Locked
         /\ host[s] \in Locked
         /\ KeyOf[r] = KeyOf[s]
         => r = s

\* Transfers and records belong to the key they are used for.
KeyInv ==
    /\ \A r \in Requests :
         transfer[r] # NoTransfer => KeyOf[transfer[r]] = KeyOf[r]
    /\ \A k \in Keys : record[k] # NoTransfer => KeyOf[record[k]] = k

\* A host that holds the lock and has seen no record can rely on there being none.
Searching(r) == host[r] \in {"scanning", "staging", "recording"}

SearchInv ==
    \A r \in Requests :
        /\ Searching(r) => record[KeyOf[r]] = NoTransfer
        /\ host[r] = "staging" => transfer[r] = r
        /\ host[r] = "recording" =>
             transfer[r] # NoTransfer /\ envelope[transfer[r]] = "staged"

\* From its record on, the host works on the envelope the record names.
Settled(r) ==
    \/ host[r] \in {"publishing", "ensuring", "releasing", "accepting"}
    \/ port[r] = "accepted"

Granted(r) == host[r] \in {"releasing", "accepting"} \/ port[r] = "accepted"

SettleInv ==
    \A r \in Requests :
        /\ Settled(r) =>
             transfer[r] # NoTransfer /\ record[KeyOf[r]] = transfer[r]
        /\ host[r] = "publishing" => envelope[transfer[r]] = "staged"
        /\ Granted(r) => envelope[transfer[r]] \in Issued
        /\ port[r] = "accepted" => host[r] = "done"

\* An envelope is issued only under its record, and a record has an envelope.
RecordInv ==
    /\ \A r \in Requests : envelope[r] \in Issued => record[KeyOf[r]] = r
    /\ \A k \in Keys :
         record[k] # NoTransfer =>
             envelope[record[k]] \in Issued \union {"staged"}

\* The watcher works on a claimed file, and removes it only for a row.
DeskInv ==
    /\ desk # Idle => envelope[desk.file] = "claimed"
    /\ desk.at = "added" => rows[desk.file] > 0
    /\ \A t \in Requests : envelope[t] = "unlinked" => rows[t] > 0

IInv ==
    /\ TypeOK /\ LockInv /\ KeyInv /\ SearchInv /\ SettleInv
    /\ RecordInv /\ DeskInv

----------------------------------------------------------------------------
(* Which steps leave which variables alone *)

\* The host never touches the list, nor the watcher the record and the lock.
LEMMA HostLeavesDesk ==
    ASSUME NEW r \in Requests, HostStep(r)
    PROVE  UNCHANGED deskVars
BY DEF HostStep, Serve, Receive, Lock, LockBusy, Refuse, Look, ScanOvertaken,
ScanFinds, ScanFindsNone, Stage, Record, Publish, Ensure, Release, Answer,
StepFails, HostDies

LEMMA DeskLeavesHost ==
    ASSUME DeskStep
    PROVE  UNCHANGED <<port, hostVars>>
BY DEF DeskStep, Drain, Claim, Recover, Quarantine, Deliver, Unlink, RemoveRows,
       Retain

LEMMA KeysOfRequests ==
    /\ \A r \in Requests : KeyOf[r] \in Keys
    /\ \A k \in Keys : \E r \in Requests : k = KeyOf[r]
    /\ NoTransfer \notin Requests
BY InboxAssumption DEF Keys

----------------------------------------------------------------------------
(* Types *)

LEMMA HostTypes ==
    ASSUME TypeOK, NEW r \in Requests, HostStep(r)
    PROVE  TypeOK'
<1> USE KeysOfRequests, FaultsAssumption
    DEF TypeOK, PortType, PortStates, InboxType, HostStates, Locked, Ended,
        Transfers, Places, Issued, Kept, hostVars, deskVars
<1>1. ASSUME Receive(r) PROVE TypeOK'
  BY <1>1 DEF Receive, Goto
<1>2. ASSUME Lock(r) PROVE TypeOK'
  BY <1>2 DEF Lock, Goto
<1>3. ASSUME LockBusy(r) PROVE TypeOK'
  BY <1>3 DEF LockBusy, Goto
<1>4. ASSUME Refuse(r) PROVE TypeOK'
  BY <1>4 DEF Refuse, Fault, Goto
<1>5. ASSUME Look(r) PROVE TypeOK'
  BY <1>5 DEF Look, Goto
<1>6. ASSUME ScanFinds(r) PROVE TypeOK'
  BY <1>6 DEF ScanFinds, Matching, Goto
<1>7. ASSUME ScanFindsNone(r) PROVE TypeOK'
  BY <1>7 DEF ScanFindsNone, Goto
<1>8. ASSUME Stage(r) PROVE TypeOK'
  BY <1>8 DEF Stage, Move, Goto
<1>9. ASSUME Record(r) PROVE TypeOK'
  BY <1>9 DEF Record, Goto
<1>10. ASSUME Publish(r) PROVE TypeOK'
  BY <1>10 DEF Publish, Rename, Goto
<1>11. ASSUME Ensure(r) PROVE TypeOK'
  BY <1>11 DEF Ensure, Rename, Goto
<1>12. ASSUME Release(r) PROVE TypeOK'
  <2>1. lock' \in [Keys -> BOOLEAN]
    BY <1>12 DEF Release
  <2>2. faults' \in 0 .. MaxFaults
    BY <1>12 DEF Release, Fault
  <2>3. host' \in [Requests -> HostStates]
    BY <1>12 DEF Release, Goto
  <2> QED BY <1>12, <2>1, <2>2, <2>3 DEF Release
<1>13. ASSUME Answer(r) PROVE TypeOK'
  BY <1>13 DEF Answer, Respond, Goto
<1>14. ASSUME StepFails(r) PROVE TypeOK'
  BY <1>14 DEF StepFails, Fault, CutShort, Move, Rename, Goto
<1>15. ASSUME HostDies(r) PROVE TypeOK'
  BY <1>15 DEF HostDies, Fault, CutShort, Move, Rename, Goto
<1>16. ASSUME ScanOvertaken(r) PROVE TypeOK'
  BY <1>16 DEF ScanOvertaken, Goto
<1> QED BY <1>1, <1>2, <1>3, <1>4, <1>5, <1>6, <1>7, <1>8, <1>9, <1>10, <1>11,
     <1>12, <1>13, <1>14, <1>15, <1>16 DEF HostStep, Serve

LEMMA DeskTypes ==
    ASSUME TypeOK, DeskStep
    PROVE  TypeOK'
<1> USE KeysOfRequests, FaultsAssumption
    DEF TypeOK, PortType, PortStates, InboxType, Places, Issued, Kept, hostVars,
        deskVars, DeskStates, Idle
<1>1. ASSUME NEW t \in Requests, Claim(t) PROVE TypeOK'
  BY <1>1 DEF Claim, Rename, Holds
<1>2. ASSUME NEW t \in Requests, Recover(t) PROVE TypeOK'
  BY <1>2 DEF Recover, Holds
<1>3. ASSUME NEW t \in Requests, Quarantine(t) PROVE TypeOK'
  BY <1>3 DEF Quarantine, Fault, Move
<1>4. ASSUME NEW t \in Requests, Deliver(t) PROVE TypeOK'
  BY <1>4 DEF Deliver, Holds
<1>5. ASSUME NEW t \in Requests, Unlink(t) PROVE TypeOK'
  BY <1>5 DEF Unlink, Move
<1>6. ASSUME NEW t \in Requests, RemoveRows(t) PROVE TypeOK'
  BY <1>6 DEF RemoveRows
<1>7. ASSUME Retain PROVE TypeOK'
  BY <1>7 DEF Retain, Fault
<1> QED BY <1>1, <1>2, <1>3, <1>4, <1>5, <1>6, <1>7 DEF DeskStep, Drain

----------------------------------------------------------------------------
(* The invariant *)

\* Transfers and records that are set name requests.
LEMMA Names ==
    ASSUME IInv
    PROVE  /\ \A s \in Requests :
                transfer[s] # NoTransfer => transfer[s] \in Requests
           /\ \A k \in Keys : record[k] # NoTransfer => record[k] \in Requests
BY DEF IInv, TypeOK, InboxType, Transfers

\* Two hosts never work under the same lock.
LEMMA Alone ==
    ASSUME IInv, NEW r \in Requests, host[r] \in Locked,
           NEW s \in Requests, s # r, KeyOf[s] = KeyOf[r]
    PROVE  host[s] \notin Locked
BY DEF IInv, LockInv

\* A host that is about to publish has a whole envelope, and it is of its key.
LEMMA Grounds ==
    ASSUME IInv, NEW r \in Requests, host[r] \in {"publishing", "ensuring"}
    PROVE  /\ transfer[r] \in Requests
           /\ KeyOf[transfer[r]] = KeyOf[r]
           /\ record[KeyOf[r]] = transfer[r]
           /\ envelope[transfer[r]] \in Issued \union {"staged"}
BY KeysOfRequests
   DEF IInv, TypeOK, InboxType, Transfers, KeyInv, SettleInv, Settled, RecordInv

\* Publishing the staged envelope of a transfer on record keeps every claim that
\* other hosts and the watcher rely on.
Promotes(r) ==
    /\ host[r] \in {"publishing", "ensuring"}
    /\ envelope[transfer[r]] = "staged"
    /\ Rename(transfer[r], "published")
    /\ UNCHANGED <<port, lock, record, transfer, deskVars>>

LEMMA PromotionIsSafe ==
    ASSUME IInv, NEW r \in Requests, Promotes(r),
           NEW place \in {"releasing", "failing", "dead"}, Goto(r, place),
           place = "dead" => port[r] # "accepted"
    PROVE  SearchInv' /\ SettleInv' /\ RecordInv' /\ DeskInv'
<1> DEFINE t == transfer[r]
<1>1. /\ t \in Requests /\ KeyOf[t] = KeyOf[r] /\ record[KeyOf[r]] = t
      /\ t # NoTransfer
  BY Grounds, KeysOfRequests DEF Promotes
<1>2. \A u \in Requests :
         envelope'[u] = IF u = t THEN "published" ELSE envelope[u]
  BY <1>1 DEF Promotes, Rename, IInv, TypeOK, InboxType
<1>3. \A s \in Requests :
         /\ host'[s] = IF s = r THEN place ELSE host[s]
         /\ s # r /\ KeyOf[s] = KeyOf[r] => host[s] \notin Locked
  BY Alone DEF Goto, Promotes, Locked, IInv, TypeOK, InboxType
<1>4. \A s \in Requests :
         s # r /\ transfer[s] = t => KeyOf[s] = KeyOf[r]
  BY <1>1 DEF IInv, KeyInv
<1>5. envelope[t] = "staged" /\ port[r] # "accepted"
  BY DEF Promotes, IInv, SettleInv
<1>6. SearchInv'
  BY <1>1, <1>2, <1>3, <1>4, Names
     DEF IInv, SearchInv, Searching, Promotes, Locked
<1>7. SettleInv'
  BY <1>1, <1>2, <1>3, <1>4, <1>5, Names
     DEF IInv, SettleInv, Settled, Granted, Promotes, Locked, Issued, Kept
<1>8. RecordInv'
  BY <1>1, <1>2, Names DEF IInv, RecordInv, Promotes, Issued, Kept
<1>9. DeskInv'
  BY <1>2, <1>5 DEF IInv, DeskInv, Promotes, deskVars, TypeOK, InboxType,
     DeskStates, Idle
<1> QED BY <1>6, <1>7, <1>8, <1>9

\* So does every other way in which a step may be cut short.
LEMMA CutShortIsSafe ==
    ASSUME IInv, NEW r \in Requests, CutShort(r), port[r] # "accepted",
           NEW place \in {"failing", "dead"}, Goto(r, place),
           UNCHANGED <<port, lock, transfer, deskVars>>
    PROVE  SearchInv' /\ SettleInv' /\ RecordInv' /\ DeskInv'
<1>1. \A s \in Requests : host'[s] = IF s = r THEN place ELSE host[s]
  BY DEF Goto, IInv, TypeOK, InboxType
<1>2. CASE UNCHANGED <<record, inbox>>
  BY <1>1, <1>2 DEF IInv, SearchInv, Searching, SettleInv, Settled, Granted,
     RecordInv, DeskInv, deskVars
<1>3. CASE /\ host[r] = "staging"
           /\ \E p \in {"torn", "staged"} : Move(r, p)
           /\ UNCHANGED record
  <2>1. /\ envelope[r] \notin Issued /\ record[KeyOf[r]] = NoTransfer
    BY <1>3, KeysOfRequests
       DEF IInv, SearchInv, Searching, RecordInv
  <2>2. \A u \in Requests : u # r => envelope'[u] = envelope[u]
    BY <1>3 DEF Move, IInv, TypeOK, InboxType
  <2>3. envelope'[r] \in {"torn", "staged"}
    BY <1>3 DEF Move, IInv, TypeOK, InboxType
  <2>4. \A s \in Requests :
           s # r /\ transfer[s] = r => host[s] \notin Locked
    BY <1>3, Alone, KeysOfRequests DEF IInv, KeyInv, Locked
  <2>5. SearchInv'
    BY <1>1, <1>3, <2>2, <2>4, Names DEF IInv, SearchInv, Searching, Locked
  <2>6. SettleInv'
    BY <1>1, <1>3, <2>1, <2>2, <2>4, Names, KeysOfRequests
       DEF IInv, SettleInv, Settled, Granted, Locked
  <2>7. RecordInv'
    BY <1>3, <2>1, <2>2, <2>3, Names, KeysOfRequests
       DEF IInv, RecordInv, KeyInv, Issued, Kept
  <2>8. DeskInv'
    BY <2>1, <2>2, <2>3
       DEF IInv, DeskInv, deskVars, Issued, Kept, TypeOK, InboxType, DeskStates,
           Idle
  <2> QED BY <2>5, <2>6, <2>7, <2>8
<1>4. CASE /\ host[r] = "recording"
           /\ record' = [record EXCEPT ![KeyOf[r]] = transfer[r]]
           /\ UNCHANGED inbox
  <2>1. \A k \in Keys :
           record'[k] = IF k = KeyOf[r] THEN transfer[r] ELSE record[k]
    BY <1>4 DEF IInv, TypeOK, InboxType
  <2>2. /\ record[KeyOf[r]] = NoTransfer /\ transfer[r] # NoTransfer
        /\ envelope[transfer[r]] = "staged"
    BY <1>4 DEF IInv, SearchInv, Searching
  <2>3. \A s \in Requests :
           s # r /\ KeyOf[s] = KeyOf[r] => host[s] \notin Locked
    BY <1>4, Alone DEF Locked
  <2>4. SearchInv'
    BY <1>1, <1>4, <2>1, <2>3, KeysOfRequests
       DEF IInv, SearchInv, Searching, Locked
  <2>5. SettleInv'
    BY <1>1, <1>4, <2>1, <2>2, <2>3, KeysOfRequests
       DEF IInv, SettleInv, Settled, Granted, Locked
  <2>6. RecordInv'
    BY <1>4, <2>1, <2>2, KeysOfRequests DEF IInv, RecordInv
  <2>7. DeskInv'
    BY <1>4 DEF IInv, DeskInv, deskVars
  <2> QED BY <2>4, <2>5, <2>6, <2>7
<1>5. CASE /\ host[r] \in {"publishing", "ensuring"}
           /\ envelope[transfer[r]] = "staged"
           /\ Rename(transfer[r], "published")
           /\ UNCHANGED record
  BY <1>5, PromotionIsSafe DEF Promotes
<1> QED BY <1>2, <1>3, <1>4, <1>5 DEF CutShort

\* Only the host that creates the lock file works under it.
LEMMA HostLocks ==
    ASSUME IInv, NEW r \in Requests, HostStep(r)
    PROVE  LockInv'
<1> USE KeysOfRequests DEF IInv, TypeOK, InboxType, hostVars, deskVars,
        LockInv, Locked
<1>1. ASSUME Receive(r) PROVE LockInv'
  BY <1>1 DEF Receive, Goto
<1>2. ASSUME Lock(r) PROVE LockInv'
  BY <1>2 DEF Lock, Goto
<1>3. ASSUME LockBusy(r) PROVE LockInv'
  BY <1>3 DEF LockBusy, Goto
<1>4. ASSUME Refuse(r) PROVE LockInv'
  BY <1>4 DEF Refuse, Fault, Goto
<1>5. ASSUME Look(r) PROVE LockInv'
  BY <1>5 DEF Look, Goto
<1>6. ASSUME ScanFinds(r) PROVE LockInv'
  BY <1>6 DEF ScanFinds, Matching, Goto
<1>7. ASSUME ScanFindsNone(r) PROVE LockInv'
  BY <1>7 DEF ScanFindsNone, Goto
<1>8. ASSUME Stage(r) PROVE LockInv'
  BY <1>8 DEF Stage, Move, Goto
<1>9. ASSUME Record(r) PROVE LockInv'
  BY <1>9 DEF Record, Goto
<1>10. ASSUME Publish(r) PROVE LockInv'
  BY <1>10 DEF Publish, Rename, Goto
<1>11. ASSUME Ensure(r) PROVE LockInv'
  BY <1>11 DEF Ensure, Rename, Goto
<1>12. ASSUME Release(r) PROVE LockInv'
  BY <1>12 DEF Release, Goto, Fault
<1>13. ASSUME Answer(r) PROVE LockInv'
  BY <1>13 DEF Answer, Respond, Goto
<1>14. ASSUME StepFails(r) PROVE LockInv'
  BY <1>14 DEF StepFails, Fault, CutShort, Move, Rename, Goto
<1>15. ASSUME HostDies(r) PROVE LockInv'
  BY <1>15 DEF HostDies, Fault, CutShort, Move, Rename, Goto
<1>16. ASSUME ScanOvertaken(r) PROVE LockInv'
  BY <1>16 DEF ScanOvertaken, Goto
<1> QED BY <1>1, <1>2, <1>3, <1>4, <1>5, <1>6, <1>7, <1>8, <1>9, <1>10, <1>11,
     <1>12, <1>13, <1>14, <1>15, <1>16 DEF HostStep, Serve

\* What a host looks up or finds belongs to its key.
LEMMA HostKeys ==
    ASSUME IInv, NEW r \in Requests, HostStep(r)
    PROVE  KeyInv'
<1> USE KeysOfRequests DEF IInv, TypeOK, InboxType, hostVars, deskVars, KeyInv
<1>1. ASSUME Receive(r) PROVE KeyInv'
  BY <1>1 DEF Receive, Goto
<1>2. ASSUME Lock(r) PROVE KeyInv'
  BY <1>2 DEF Lock, Goto
<1>3. ASSUME LockBusy(r) PROVE KeyInv'
  BY <1>3 DEF LockBusy, Goto
<1>4. ASSUME Refuse(r) PROVE KeyInv'
  BY <1>4 DEF Refuse, Fault, Goto
<1>5. ASSUME Look(r) PROVE KeyInv'
  BY <1>5 DEF Look, Goto
<1>6. ASSUME ScanFinds(r) PROVE KeyInv'
  BY <1>6 DEF ScanFinds, Matching, Goto
<1>7. ASSUME ScanFindsNone(r) PROVE KeyInv'
  BY <1>7 DEF ScanFindsNone, Goto
<1>8. ASSUME Stage(r) PROVE KeyInv'
  BY <1>8 DEF Stage, Move, Goto
<1>9. ASSUME Record(r) PROVE KeyInv'
  BY <1>9 DEF Record, Goto
<1>10. ASSUME Publish(r) PROVE KeyInv'
  BY <1>10 DEF Publish, Rename, Goto
<1>11. ASSUME Ensure(r) PROVE KeyInv'
  BY <1>11 DEF Ensure, Rename, Goto
<1>12. ASSUME Release(r) PROVE KeyInv'
  BY <1>12 DEF Release, Goto, Fault
<1>13. ASSUME Answer(r) PROVE KeyInv'
  BY <1>13 DEF Answer, Respond, Goto
<1>14. ASSUME StepFails(r) PROVE KeyInv'
  BY <1>14 DEF StepFails, Fault, CutShort, Move, Rename, Goto
<1>15. ASSUME HostDies(r) PROVE KeyInv'
  BY <1>15 DEF HostDies, Fault, CutShort, Move, Rename, Goto
<1>16. ASSUME ScanOvertaken(r) PROVE KeyInv'
  BY <1>16 DEF ScanOvertaken, Goto
<1> QED BY <1>1, <1>2, <1>3, <1>4, <1>5, <1>6, <1>7, <1>8, <1>9, <1>10, <1>11,
     <1>12, <1>13, <1>14, <1>15, <1>16 DEF HostStep, Serve

\* No other host writes the record of a key while one searches.
LEMMA HostSearches ==
    ASSUME IInv, NEW r \in Requests, HostStep(r)
    PROVE  SearchInv'
<1> USE KeysOfRequests DEF IInv, TypeOK, InboxType, hostVars, deskVars,
        LockInv, Locked, KeyInv, SearchInv, Searching, RecordInv, Issued, Kept
<1>1. ASSUME Receive(r) PROVE SearchInv'
  BY <1>1 DEF Receive, Goto
<1>2. ASSUME Lock(r) PROVE SearchInv'
  BY <1>2 DEF Lock, Goto
<1>3. ASSUME LockBusy(r) PROVE SearchInv'
  BY <1>3 DEF LockBusy, Goto
<1>4. ASSUME Refuse(r) PROVE SearchInv'
  BY <1>4 DEF Refuse, Fault, Goto
<1>5. ASSUME Look(r) PROVE SearchInv'
  BY <1>5 DEF Look, Goto
<1>6. ASSUME ScanFinds(r) PROVE SearchInv'
  BY <1>6 DEF ScanFinds, Matching, Goto
<1>7. ASSUME ScanFindsNone(r) PROVE SearchInv'
  BY <1>7 DEF ScanFindsNone, Goto
<1>8. ASSUME Stage(r) PROVE SearchInv'
  BY <1>8 DEF Stage, Move, Goto
<1>9. ASSUME Record(r) PROVE SearchInv'
  BY <1>9 DEF Record, Goto
<1>10. ASSUME Publish(r) PROVE SearchInv'
  <2>1. envelope[transfer[r]] = "staged"
    BY <1>10 DEF Publish, IInv, SettleInv
  <2> QED BY <1>10, <2>1, PromotionIsSafe DEF Publish, Promotes
<1>11. ASSUME Ensure(r) PROVE SearchInv'
  <2>1. CASE envelope[transfer[r]] = "staged"
    BY <1>11, <2>1, PromotionIsSafe DEF Ensure, Promotes
  <2>2. CASE envelope[transfer[r]] # "staged"
    <3>1. envelope' = envelope /\ envelope[transfer[r]] \in Issued
      BY <1>11, <2>2, Grounds DEF Ensure
    <3> QED BY <1>11, <3>1, Grounds DEF Ensure, Goto
  <2> QED BY <2>1, <2>2
<1>12. ASSUME Release(r) PROVE SearchInv'
  BY <1>12 DEF Release, Goto, Fault
<1>13. ASSUME Answer(r) PROVE SearchInv'
  BY <1>13 DEF Answer, Respond, Goto
<1>14. ASSUME StepFails(r) PROVE SearchInv'
  <2>1. port[r] # "accepted"
    BY <1>14 DEF StepFails, IInv, SettleInv, Locked, Ended
  <2> QED BY <1>14, <2>1, CutShortIsSafe DEF StepFails
<1>15. ASSUME HostDies(r) PROVE SearchInv'
  <2>1. port[r] # "accepted"
    BY <1>15 DEF HostDies, IInv, SettleInv, Locked, Ended
  <2> QED BY <1>15, <2>1, CutShortIsSafe DEF HostDies
<1>16. ASSUME ScanOvertaken(r) PROVE SearchInv'
  BY <1>16 DEF ScanOvertaken, Goto
<1> QED BY <1>1, <1>2, <1>3, <1>4, <1>5, <1>6, <1>7, <1>8, <1>9, <1>10, <1>11,
     <1>12, <1>13, <1>14, <1>15, <1>16 DEF HostStep, Serve

\* A host accepts only what has been issued under the record.
LEMMA HostSettles ==
    ASSUME IInv, NEW r \in Requests, HostStep(r)
    PROVE  SettleInv'
<1> USE KeysOfRequests DEF IInv, TypeOK, InboxType, hostVars, deskVars,
        LockInv, Locked, KeyInv, SearchInv, Searching, SettleInv, Settled,
        Granted, RecordInv, Issued, Kept, Ended
<1>1. ASSUME Receive(r) PROVE SettleInv'
  BY <1>1 DEF Receive, Goto
<1>2. ASSUME Lock(r) PROVE SettleInv'
  BY <1>2 DEF Lock, Goto
<1>3. ASSUME LockBusy(r) PROVE SettleInv'
  BY <1>3 DEF LockBusy, Goto
<1>4. ASSUME Refuse(r) PROVE SettleInv'
  BY <1>4 DEF Refuse, Fault, Goto
<1>5. ASSUME Look(r) PROVE SettleInv'
  BY <1>5 DEF Look, Goto
<1>6. ASSUME ScanFinds(r) PROVE SettleInv'
  BY <1>6 DEF ScanFinds, Matching, Goto
<1>7. ASSUME ScanFindsNone(r) PROVE SettleInv'
  BY <1>7 DEF ScanFindsNone, Goto
<1>8. ASSUME Stage(r) PROVE SettleInv'
  BY <1>8 DEF Stage, Move, Goto
<1>9. ASSUME Record(r) PROVE SettleInv'
  BY <1>9 DEF Record, Goto
<1>10. ASSUME Publish(r) PROVE SettleInv'
  <2>1. envelope[transfer[r]] = "staged"
    BY <1>10 DEF Publish, IInv, SettleInv
  <2> QED BY <1>10, <2>1, PromotionIsSafe DEF Publish, Promotes
<1>11. ASSUME Ensure(r) PROVE SettleInv'
  <2>1. CASE envelope[transfer[r]] = "staged"
    BY <1>11, <2>1, PromotionIsSafe DEF Ensure, Promotes
  <2>2. CASE envelope[transfer[r]] # "staged"
    <3>1. envelope' = envelope /\ envelope[transfer[r]] \in Issued
      BY <1>11, <2>2, Grounds DEF Ensure
    <3> QED BY <1>11, <3>1, Grounds DEF Ensure, Goto
  <2> QED BY <2>1, <2>2
<1>12. ASSUME Release(r) PROVE SettleInv'
  BY <1>12 DEF Release, Goto, Fault
<1>13. ASSUME Answer(r) PROVE SettleInv'
  BY <1>13 DEF Answer, Respond, Goto
<1>14. ASSUME StepFails(r) PROVE SettleInv'
  <2>1. port[r] # "accepted"
    BY <1>14 DEF StepFails, IInv, SettleInv, Locked, Ended
  <2> QED BY <1>14, <2>1, CutShortIsSafe DEF StepFails
<1>15. ASSUME HostDies(r) PROVE SettleInv'
  <2>1. port[r] # "accepted"
    BY <1>15 DEF HostDies, IInv, SettleInv, Locked, Ended
  <2> QED BY <1>15, <2>1, CutShortIsSafe DEF HostDies
<1>16. ASSUME ScanOvertaken(r) PROVE SettleInv'
  BY <1>16 DEF ScanOvertaken, Goto
<1> QED BY <1>1, <1>2, <1>3, <1>4, <1>5, <1>6, <1>7, <1>8, <1>9, <1>10, <1>11,
     <1>12, <1>13, <1>14, <1>15, <1>16 DEF HostStep, Serve

\* Envelopes are issued one per record.
LEMMA HostRecords ==
    ASSUME IInv, NEW r \in Requests, HostStep(r)
    PROVE  RecordInv'
<1> USE KeysOfRequests DEF IInv, TypeOK, InboxType, hostVars, deskVars,
        LockInv, Locked, KeyInv, SearchInv, Searching, SettleInv, Settled,
        RecordInv, Issued, Kept
<1>1. ASSUME Receive(r) PROVE RecordInv'
  BY <1>1 DEF Receive, Goto
<1>2. ASSUME Lock(r) PROVE RecordInv'
  BY <1>2 DEF Lock, Goto
<1>3. ASSUME LockBusy(r) PROVE RecordInv'
  BY <1>3 DEF LockBusy, Goto
<1>4. ASSUME Refuse(r) PROVE RecordInv'
  BY <1>4 DEF Refuse, Fault, Goto
<1>5. ASSUME Look(r) PROVE RecordInv'
  BY <1>5 DEF Look, Goto
<1>6. ASSUME ScanFinds(r) PROVE RecordInv'
  BY <1>6 DEF ScanFinds, Matching, Goto
<1>7. ASSUME ScanFindsNone(r) PROVE RecordInv'
  BY <1>7 DEF ScanFindsNone, Goto
<1>8. ASSUME Stage(r) PROVE RecordInv'
  BY <1>8 DEF Stage, Move, Goto
<1>9. ASSUME Record(r) PROVE RecordInv'
  BY <1>9 DEF Record, Goto
<1>10. ASSUME Publish(r) PROVE RecordInv'
  <2>1. envelope[transfer[r]] = "staged"
    BY <1>10 DEF Publish, IInv, SettleInv
  <2> QED BY <1>10, <2>1, PromotionIsSafe DEF Publish, Promotes
<1>11. ASSUME Ensure(r) PROVE RecordInv'
  <2>1. CASE envelope[transfer[r]] = "staged"
    BY <1>11, <2>1, PromotionIsSafe DEF Ensure, Promotes
  <2>2. CASE envelope[transfer[r]] # "staged"
    <3>1. envelope' = envelope /\ envelope[transfer[r]] \in Issued
      BY <1>11, <2>2, Grounds DEF Ensure
    <3> QED BY <1>11, <3>1, Grounds DEF Ensure, Goto
  <2> QED BY <2>1, <2>2
<1>12. ASSUME Release(r) PROVE RecordInv'
  BY <1>12 DEF Release, Goto, Fault
<1>13. ASSUME Answer(r) PROVE RecordInv'
  BY <1>13 DEF Answer, Respond, Goto
<1>14. ASSUME StepFails(r) PROVE RecordInv'
  <2>1. port[r] # "accepted"
    BY <1>14 DEF StepFails, IInv, SettleInv, Locked, Ended
  <2> QED BY <1>14, <2>1, CutShortIsSafe DEF StepFails
<1>15. ASSUME HostDies(r) PROVE RecordInv'
  <2>1. port[r] # "accepted"
    BY <1>15 DEF HostDies, IInv, SettleInv, Locked, Ended
  <2> QED BY <1>15, <2>1, CutShortIsSafe DEF HostDies
<1>16. ASSUME ScanOvertaken(r) PROVE RecordInv'
  BY <1>16 DEF ScanOvertaken, Goto
<1> QED BY <1>1, <1>2, <1>3, <1>4, <1>5, <1>6, <1>7, <1>8, <1>9, <1>10, <1>11,
     <1>12, <1>13, <1>14, <1>15, <1>16 DEF HostStep, Serve

\* A host moves no envelope that the watcher has claimed.
LEMMA HostSparesDesk ==
    ASSUME IInv, NEW r \in Requests, HostStep(r)
    PROVE  DeskInv'
<1> USE KeysOfRequests DEF IInv, TypeOK, InboxType, hostVars, deskVars,
        LockInv, Locked, KeyInv, SearchInv, Searching, SettleInv, Settled,
        RecordInv, Issued, Kept, DeskInv
<1>1. ASSUME Receive(r) PROVE DeskInv'
  BY <1>1 DEF Receive, Goto
<1>2. ASSUME Lock(r) PROVE DeskInv'
  BY <1>2 DEF Lock, Goto
<1>3. ASSUME LockBusy(r) PROVE DeskInv'
  BY <1>3 DEF LockBusy, Goto
<1>4. ASSUME Refuse(r) PROVE DeskInv'
  BY <1>4 DEF Refuse, Fault, Goto
<1>5. ASSUME Look(r) PROVE DeskInv'
  BY <1>5 DEF Look, Goto
<1>6. ASSUME ScanFinds(r) PROVE DeskInv'
  BY <1>6 DEF ScanFinds, Matching, Goto
<1>7. ASSUME ScanFindsNone(r) PROVE DeskInv'
  BY <1>7 DEF ScanFindsNone, Goto
<1>8. ASSUME Stage(r) PROVE DeskInv'
  BY <1>8 DEF Stage, Move, Goto
<1>9. ASSUME Record(r) PROVE DeskInv'
  BY <1>9 DEF Record, Goto
<1>10. ASSUME Publish(r) PROVE DeskInv'
  <2>1. envelope[transfer[r]] = "staged"
    BY <1>10 DEF Publish, IInv, SettleInv
  <2> QED BY <1>10, <2>1, PromotionIsSafe DEF Publish, Promotes
<1>11. ASSUME Ensure(r) PROVE DeskInv'
  <2>1. CASE envelope[transfer[r]] = "staged"
    BY <1>11, <2>1, PromotionIsSafe DEF Ensure, Promotes
  <2>2. CASE envelope[transfer[r]] # "staged"
    <3>1. envelope' = envelope /\ envelope[transfer[r]] \in Issued
      BY <1>11, <2>2, Grounds DEF Ensure
    <3> QED BY <1>11, <3>1, Grounds DEF Ensure, Goto
  <2> QED BY <2>1, <2>2
<1>12. ASSUME Release(r) PROVE DeskInv'
  BY <1>12 DEF Release, Goto, Fault
<1>13. ASSUME Answer(r) PROVE DeskInv'
  BY <1>13 DEF Answer, Respond, Goto
<1>14. ASSUME StepFails(r) PROVE DeskInv'
  <2>1. port[r] # "accepted"
    BY <1>14 DEF StepFails, IInv, SettleInv, Locked, Ended
  <2> QED BY <1>14, <2>1, CutShortIsSafe DEF StepFails
<1>15. ASSUME HostDies(r) PROVE DeskInv'
  <2>1. port[r] # "accepted"
    BY <1>15 DEF HostDies, IInv, SettleInv, Locked, Ended
  <2> QED BY <1>15, <2>1, CutShortIsSafe DEF HostDies
<1>16. ASSUME ScanOvertaken(r) PROVE DeskInv'
  BY <1>16 DEF ScanOvertaken, Goto
<1> QED BY <1>1, <1>2, <1>3, <1>4, <1>5, <1>6, <1>7, <1>8, <1>9, <1>10, <1>11,
     <1>12, <1>13, <1>14, <1>15, <1>16 DEF HostStep, Serve

\* The watcher moves only what has been published, and never below that.
LEMMA DeskMoves ==
    ASSUME IInv, DeskStep
    PROVE  \A t \in Requests :
             \/ envelope'[t] = envelope[t]
             \/ /\ envelope[t] \in {"published", "claimed"}
                /\ envelope'[t] \in Issued
<1> USE DEF IInv, TypeOK, InboxType, DeskInv, DeskStates, Idle, Issued, Kept
<1>1. ASSUME NEW t \in Requests, Claim(t) PROVE
             \A u \in Requests :
                 \/ envelope'[u] = envelope[u]
                 \/ /\ envelope[u] \in {"published", "claimed"}
                    /\ envelope'[u] \in Issued
  BY <1>1 DEF Claim, Rename
<1>2. ASSUME NEW t \in Requests, Quarantine(t) PROVE
             \A u \in Requests :
                 \/ envelope'[u] = envelope[u]
                 \/ /\ envelope[u] \in {"published", "claimed"}
                    /\ envelope'[u] \in Issued
  BY <1>2 DEF Quarantine, Move
<1>3. ASSUME NEW t \in Requests, Unlink(t) PROVE
             \A u \in Requests :
                 \/ envelope'[u] = envelope[u]
                 \/ /\ envelope[u] \in {"published", "claimed"}
                    /\ envelope'[u] \in Issued
  BY <1>3 DEF Unlink, Move
<1> QED BY <1>1, <1>2, <1>3 DEF DeskStep, Drain, Recover, Deliver, RemoveRows,
     Retain

LEMMA DeskKeepsClaims ==
    ASSUME IInv, DeskStep
    PROVE  DeskInv'
<1> USE DEF IInv, TypeOK, InboxType, DeskInv, DeskStates, Idle
<1>1. ASSUME NEW t \in Requests, Claim(t) PROVE DeskInv'
  BY <1>1 DEF Claim, Rename, Holds
<1>2. ASSUME NEW t \in Requests, Recover(t) PROVE DeskInv'
  BY <1>2 DEF Recover, Holds
<1>3. ASSUME NEW t \in Requests, Quarantine(t) PROVE DeskInv'
  BY <1>3 DEF Quarantine, Fault, Move
<1>4. ASSUME NEW t \in Requests, Deliver(t) PROVE DeskInv'
  BY <1>4 DEF Deliver, Holds
<1>5. ASSUME NEW t \in Requests, Unlink(t) PROVE DeskInv'
  BY <1>5 DEF Unlink, Move
<1>6. ASSUME NEW t \in Requests, RemoveRows(t) PROVE DeskInv'
  BY <1>6 DEF RemoveRows
<1>7. ASSUME Retain PROVE DeskInv'
  BY <1>7 DEF Retain
<1> QED BY <1>1, <1>2, <1>3, <1>4, <1>5, <1>6, <1>7 DEF DeskStep, Drain

LEMMA DeskPreserves ==
    ASSUME IInv, DeskStep
    PROVE  IInv'
<1>1. UNCHANGED <<port, lock, record, host, transfer>>
  BY DeskLeavesHost DEF hostVars
<1>2. TypeOK' /\ DeskInv'
  BY DeskTypes, DeskKeepsClaims DEF IInv
<1>3. LockInv' /\ KeyInv'
  BY <1>1 DEF IInv, LockInv, KeyInv
<1>4. SearchInv'
  BY <1>1, DeskMoves, Names DEF IInv, SearchInv, Searching
<1>5. SettleInv'
  BY <1>1, DeskMoves, Names
     DEF IInv, SettleInv, Settled, Granted, Issued, Kept
<1>6. RecordInv'
  BY <1>1, DeskMoves, Names DEF IInv, RecordInv, Issued, Kept
<1> QED BY <1>2, <1>3, <1>4, <1>5, <1>6 DEF IInv

LEMMA HostPreserves ==
    ASSUME IInv, NEW r \in Requests, HostStep(r)
    PROVE  IInv'
BY HostTypes, HostLocks, HostKeys, HostSearches, HostSettles, HostRecords,
   HostSparesDesk
   DEF IInv

LEMMA AskPreserves ==
    ASSUME IInv, NEW r \in Requests, Ask(r)
    PROVE  IInv'
<1>1. UNCHANGED <<faults, lock, record, host, transfer, envelope, overtaken,
                  desk, rows, gone, disposed>>
  BY DEF Ask, inboxVars, hostVars, deskVars
<1>2. \A s \in Requests :
         \/ port'[s] = port[s]
         \/ port'[s] = "asked" /\ port[s] = "closed"
  <2>1. port[r] = "closed" /\ port' = [port EXCEPT ![r] = "asked"]
    BY DEF Ask, Post
  <2>2. port \in [Requests -> PortStates]
    BY DEF IInv, TypeOK, PortType
  <2>3. ASSUME NEW s \in Requests, s # r
        PROVE  port'[s] = port[s]
    BY <2>1, <2>2, <2>3
  <2>4. port'[r] = "asked"
    BY <2>1, <2>2
  <2> QED BY <2>1, <2>3, <2>4
<1>3. TypeOK'
  BY <1>1 DEF Ask, Post, IInv, TypeOK, PortType, PortStates, InboxType
<1>4. LockInv' /\ KeyInv' /\ SearchInv' /\ RecordInv' /\ DeskInv'
  BY <1>1 DEF IInv, LockInv, KeyInv, SearchInv, Searching, RecordInv, DeskInv
<1>5. SettleInv'
  BY <1>1, <1>2 DEF IInv, SettleInv, Settled, Granted
<1> QED BY <1>3, <1>4, <1>5 DEF IInv

----------------------------------------------------------------------------
(* Theorems *)

LEMMA InitInv == Init => IInv
<1> SUFFICES ASSUME Init PROVE IInv
  OBVIOUS
<1> USE KeysOfRequests DEF Init, PortInit, InboxInit
<1>1. TypeOK
  BY FaultsAssumption
     DEF TypeOK, PortType, PortStates, InboxType, HostStates, Locked, Ended,
         Transfers, Places, Issued, Kept, DeskStates
<1>2. LockInv /\ KeyInv /\ SearchInv
  BY DEF LockInv, Locked, KeyInv, SearchInv, Searching
<1>3. SettleInv /\ RecordInv
  BY DEF SettleInv, Settled, Granted, RecordInv, Issued, Kept
<1>4. DeskInv
  BY DEF DeskInv, Idle
<1> QED BY <1>1, <1>2, <1>3, <1>4 DEF IInv

\* IInv holds initially and every step of hosts, watcher and client keeps it.
THEOREM Inductive == Spec => []IInv
<1>1. IInv /\ [Next]_vars => IInv'
  <2> SUFFICES ASSUME IInv, [Next]_vars PROVE IInv'
    OBVIOUS
  <2>1. CASE DeskStep
    BY <2>1, DeskPreserves
  <2>2. ASSUME NEW r \in Requests, HostStep(r) PROVE IInv'
    BY <2>2, HostPreserves
  <2>3. ASSUME NEW r \in Requests, Ask(r) PROVE IInv'
    BY <2>3, AskPreserves
  <2>4. CASE UNCHANGED vars
    BY <2>4 DEF vars, inboxVars, hostVars, deskVars, IInv, TypeOK, PortType,
       InboxType, LockInv, KeyInv, SearchInv, Searching, SettleInv, Settled,
       Granted, RecordInv, DeskInv
  <2> QED BY <2>1, <2>2, <2>3, <2>4 DEF Next, InboxStep
<1> QED BY InitInv, <1>1, PTL DEF Spec

\* Every variable keeps its type, for any requests, keys and number of faults.
THEOREM TypesHold == Spec => []TypeOK
<1>1. IInv => TypeOK
  BY DEF IInv
<1> QED BY Inductive, <1>1, PTL

\* Of all envelopes of a key, whatever hosts are killed at whatever step, at most
\* one is ever published to the desktop (persist_idempotent).
THEOREM PublishedOnce == Spec => []OneEnvelopePerKey
<1>1. IInv => OneEnvelopePerKey
  BY DEF IInv, RecordInv, OneEnvelopePerKey
<1> QED BY Inductive, <1>1, PTL

\* A response that says accepted names an envelope that is on disk or has become
\* a row (persist_idempotent, prepare_capture, drain).
THEOREM AcceptanceIsDurable == Spec => []AcceptedIsKept
<1>1. IInv => AcceptedIsKept
  <2> SUFFICES ASSUME IInv, NEW r \in Requests, port[r] = "accepted"
               PROVE  /\ transfer[r] # NoTransfer
                      /\ envelope[transfer[r]] \in Kept \/ rows[transfer[r]] > 0
    BY DEF AcceptedIsKept
  <2>1. transfer[r] # NoTransfer /\ envelope[transfer[r]] \in Issued
    BY DEF IInv, SettleInv, Settled, Granted
  <2>2. transfer[r] \in Requests
    BY <2>1, Names
  <2>3. envelope[transfer[r]] = "unlinked" => rows[transfer[r]] > 0
    BY <2>2 DEF IInv, DeskInv
  <2> QED BY <2>1, <2>3 DEF Issued
<1> QED BY Inductive, <1>1, PTL

----------------------------------------------------------------------------
(* What hosts and watcher do to the envelopes *)

\* A host publishes what is staged, or stages its own where there is no record.
LEMMA HostMoves ==
    ASSUME IInv, NEW r \in Requests, HostStep(r), NEW t \in Requests
    PROVE  \/ envelope'[t] = envelope[t]
           \/ envelope[t] = "staged" /\ envelope'[t] = "published"
           \/ /\ t = r /\ host[r] = "staging"
              /\ envelope[t] \notin Issued /\ envelope'[t] \notin Issued
              /\ record[KeyOf[t]] = NoTransfer /\ record' = record
<1> USE KeysOfRequests DEF Move, Rename
<1>1. envelope \in [Requests -> Places]
  BY DEF IInv, TypeOK, InboxType
<1>2. host[r] = "staging" =>
        record[KeyOf[r]] = NoTransfer /\ envelope[r] \notin Issued
  BY DEF IInv, SearchInv, Searching, RecordInv
<1>3. host[r] = "publishing" => envelope[transfer[r]] = "staged"
  BY DEF IInv, SettleInv
<1>4. CASE Stage(r)
  BY <1>1, <1>2, <1>4 DEF Stage, Issued, Kept
<1>5. CASE Publish(r)
  BY <1>1, <1>3, <1>5 DEF Publish
<1>6. CASE Ensure(r)
  BY <1>1, <1>6 DEF Ensure
<1>7. CASE StepFails(r) \/ HostDies(r)
  BY <1>1, <1>2, <1>3, <1>7 DEF StepFails, HostDies, CutShort, Issued, Kept
<1>8. CASE UNCHANGED envelope
  BY <1>8
<1> QED BY <1>4, <1>5, <1>6, <1>7, <1>8 DEF HostStep, Serve, Receive, Lock,
LockBusy, Refuse, Look, ScanOvertaken, ScanFinds, ScanFindsNone, Record, Release,
Answer

\* A record is written once, for an envelope that is staged.
LEMMA HostWritesOnce ==
    ASSUME IInv, NEW r \in Requests, HostStep(r), NEW k \in Keys
    PROVE  \/ record'[k] = record[k]
           \/ /\ host[r] = "recording" /\ k = KeyOf[r]
              /\ record[k] = NoTransfer
              /\ record'[k] = transfer[r] /\ transfer[r] \in Requests
              /\ envelope[transfer[r]] = "staged" /\ envelope' = envelope
<1> USE KeysOfRequests
<1>1. record \in [Keys -> Transfers]
  BY DEF IInv, TypeOK, InboxType
<1>2. host[r] = "recording" =>
        /\ record[KeyOf[r]] = NoTransfer
        /\ transfer[r] \in Requests /\ envelope[transfer[r]] = "staged"
  BY Names DEF IInv, SearchInv, Searching
<1>3. CASE Record(r)
  BY <1>1, <1>2, <1>3 DEF Record
<1>4. CASE StepFails(r) \/ HostDies(r)
  BY <1>1, <1>2, <1>4 DEF StepFails, HostDies, CutShort
<1>5. CASE UNCHANGED record
  BY <1>5
<1> QED BY <1>3, <1>4, <1>5 DEF HostStep, Serve, Receive, Lock, LockBusy, Refuse,
     Look, ScanOvertaken, ScanFinds, ScanFindsNone, Stage, Publish, Ensure,
     Release, Answer

\* The row that an envelope has now, if it has one that no fault need explain.
Settling(t) == desk = [at |-> "added", file |-> t] \/ envelope[t] = "unlinked"

\* Of the rows of an envelope all but that one stand for a fault each.
RepeatInv ==
    \A t \in Requests : \/ rows[t] <= faults
                        \/ Settling(t) /\ rows[t] <= 1 + faults

\* The number of faults only grows.
LEMMA FaultsGrow ==
    ASSUME TypeOK, [Next]_vars
    PROVE  faults' \in Nat /\ faults <= faults'
<1> USE FaultsAssumption DEF TypeOK, PortType
<1>1. faults' = faults \/ faults' = faults + 1
  BY DEF Next, InboxStep, DeskStep, Drain, Claim, Recover, Quarantine, Deliver,
     Unlink, RemoveRows, Retain, HostStep, Serve, Receive, Lock, LockBusy, Refuse,
     Look, ScanOvertaken, ScanFinds, ScanFindsNone, Stage, Record, Publish,
     Ensure, Release, Answer, StepFails, HostDies, Ask, Fault, vars
<1> QED BY <1>1

\* What no step unsettles without a fault stays counted.
LEMMA CountStays ==
    ASSUME TypeOK, RepeatInv, [Next]_vars, NEW t \in Requests,
           rows'[t] = rows[t],
           Settling(t) => Settling(t)' \/ Fault
    PROVE  rows'[t] <= faults' \/ (Settling(t)' /\ rows'[t] <= 1 + faults')
<1>1. rows[t] \in Nat /\ faults \in Nat
  BY FaultsAssumption DEF TypeOK, InboxType, PortType
<1>2. faults' \in Nat /\ faults <= faults'
  BY FaultsGrow
<1>3. rows[t] <= faults \/ (Settling(t) /\ rows[t] <= 1 + faults)
  BY DEF RepeatInv
<1>4. CASE rows[t] <= faults
  <2>1. rows'[t] <= faults'
    BY <1>1, <1>2, <1>4
  <2> QED BY <2>1
<1>5. CASE Settling(t) /\ rows[t] <= 1 + faults
  <2>1. rows'[t] <= 1 + faults'
    BY <1>1, <1>2, <1>5
  <2>2. CASE Fault
    BY <1>1, <1>5, <2>2 DEF Fault
  <2> QED BY <1>5, <2>1, <2>2
<1> QED BY <1>3, <1>4, <1>5

LEMMA RepeatStep ==
    ASSUME IInv, RepeatInv, [Next]_vars
    PROVE  RepeatInv'
<1>1. TypeOK
  BY DEF IInv
<1>2. rows \in [Requests -> Nat] /\ envelope \in [Requests -> Places]
  BY <1>1 DEF TypeOK, InboxType
<1>3. ASSUME NEW r \in Requests, HostStep(r) PROVE RepeatInv'
  <2>1. rows' = rows /\ desk' = desk
    BY <1>3, HostLeavesDesk DEF deskVars
  <2>2. \A t \in Requests : Settling(t) => Settling(t)'
    BY <1>3, <2>1, HostMoves DEF Settling, Issued
  <2> QED BY <1>1, <2>1, <2>2, CountStays DEF RepeatInv
<1>4. ASSUME NEW u \in Requests, Claim(u) \/ Recover(u) PROVE RepeatInv'
  <2>1. rows' = rows
    BY <1>4 DEF Claim, Recover
  <2>2. \A t \in Requests : Settling(t) => Settling(t)'
    BY <1>2, <1>4 DEF Claim, Recover, Rename, Settling, Idle
  <2> QED BY <1>1, <2>1, <2>2, CountStays DEF RepeatInv
<1>5. CASE Retain \/ \E u \in Requests : Quarantine(u)
  <2>1. rows' = rows /\ Fault
    BY <1>5 DEF Quarantine, Retain
  <2> QED BY <1>1, <2>1, CountStays DEF RepeatInv
<1>6. ASSUME NEW u \in Requests, Deliver(u) PROVE RepeatInv'
  <2>1. ~Settling(u)
    BY <1>6 DEF Deliver, Settling, IInv, DeskInv, Idle
  <2>2. rows[u] <= faults
    BY <2>1 DEF RepeatInv
  <2>3. /\ faults' = faults /\ envelope' = envelope
        /\ rows' = [rows EXCEPT ![u] = rows[u] + 1]
        /\ desk' = [at |-> "added", file |-> u]
    BY <1>6 DEF Deliver, Holds
  <2>4. Settling(u)' /\ \A t \in Requests : Settling(t) => Settling(t)'
    <3>1. \A t \in Requests : Settling(t) => envelope[t] = "unlinked"
      BY <1>6 DEF Deliver, Settling
    <3> QED BY <2>3, <3>1 DEF Settling
  <2>5. rows'[u] <= 1 + faults'
    <3>1. rows[u] \in Nat /\ faults \in Nat /\ rows'[u] = rows[u] + 1
      BY <1>1, <1>2, <2>3, FaultsAssumption DEF TypeOK, PortType
    <3> QED BY <2>2, <2>3, <3>1
  <2>6. ASSUME NEW t \in Requests, t # u
        PROVE  rows'[t] <= faults' \/ (Settling(t)' /\ rows'[t] <= 1 + faults')
    <3>1. rows'[t] = rows[t]
      BY <1>2, <2>3, <2>6
    <3> QED BY <1>1, <2>4, <3>1, CountStays
  <2> QED BY <2>4, <2>5, <2>6 DEF RepeatInv
<1>7. ASSUME NEW u \in Requests, Unlink(u) PROVE RepeatInv'
  <2>1. rows' = rows
    BY <1>7 DEF Unlink
  <2>2. \A t \in Requests : Settling(t) => Settling(t)'
    BY <1>2, <1>7 DEF Unlink, Move, Settling
  <2> QED BY <1>1, <2>1, <2>2, CountStays DEF RepeatInv
<1>8. CASE UNCHANGED <<rows, desk, envelope>>
  <2>1. \A t \in Requests : Settling(t) => Settling(t)'
    BY <1>8 DEF Settling
  <2>2. rows' = rows
    BY <1>8
  <2> QED BY <1>1, <2>1, <2>2, CountStays DEF RepeatInv
<1> QED BY <1>3, <1>4, <1>5, <1>6, <1>7, <1>8 DEF Next, InboxStep, DeskStep, Drain,
     RemoveRows, Ask, vars, inboxVars, hostVars, deskVars

\* The watcher delivers an envelope again only after something has failed, and only
\* as often, for any requests, keys and number of faults (drain).
THEOREM RepeatsAreExplained == Spec => []RepeatsAreFailures
<1>1. Init => RepeatInv
  BY FaultsAssumption DEF Init, PortInit, InboxInit, RepeatInv
<1>2. IInv /\ RepeatInv /\ [Next]_vars => RepeatInv'
  BY RepeatStep
<1>3. IInv /\ RepeatInv => RepeatsAreFailures
  <2> SUFFICES ASSUME IInv, RepeatInv, NEW t \in Requests
               PROVE  rows[t] <= 1 + faults
    BY DEF RepeatsAreFailures
  <2>1. rows[t] \in Nat /\ faults \in Nat
    BY FaultsAssumption DEF IInv, TypeOK, InboxType, PortType
  <2> QED BY <2>1 DEF RepeatInv
<1> QED BY Inductive, <1>1, <1>2, <1>3, PTL DEF Spec
----------------------------------------------------------------------------
(* Rejections that no fault explains *)

\* The hosts that, while nothing has failed, have staged nothing and will not.
Fresh(r) ==
    \/ host[r] \in {"idle", "locking", "looking", "scanning", "staging"}
    \/ host[r] \in {"failing", "rejecting"}
    \/ port[r] = "rejected"

FreshInv ==
    /\ \A r \in Requests : port[r] = "rejected" => host[r] = "done"
    /\ faults = 0 => \A r \in Requests : Fresh(r) => envelope[r] = "none"

\* Without a fault a host stages only on its way to acceptance.
LEMMA HostStaysFresh ==
    ASSUME IInv, FreshInv, NEW r \in Requests, HostStep(r)
    PROVE  FreshInv'
<1> USE DEF IInv, TypeOK, PortType, PortStates, InboxType
<1>1. faults' = 0 => faults = 0 /\ ~Fault
  <2>1. faults' \in Nat /\ faults <= faults'
    BY FaultsGrow DEF Next, InboxStep
  <2>2. faults \in Nat
    BY FaultsAssumption
  <2> QED BY <2>1, <2>2 DEF Fault
<1>2. \A s \in Requests : s # r => host'[s] = host[s] /\ port'[s] = port[s]
  BY DEF HostStep, Serve, Receive, Lock, LockBusy, Refuse, Look, ScanOvertaken,
     ScanFinds, ScanFindsNone, Stage, Record, Publish, Ensure, Release, Answer,
     Respond, StepFails, HostDies, Goto
<1>3. \A s \in Requests : s # r /\ envelope[s] = "none" => envelope'[s] = "none"
  BY HostMoves
<1>4. port'[r] = "rejected" => host'[r] = "done"
  BY DEF FreshInv, HostStep, Serve, Receive, Lock, LockBusy, Refuse, Look,
     ScanOvertaken, ScanFinds, ScanFindsNone, Stage, Record, Publish, Ensure,
     Release, Answer, Respond, StepFails, HostDies, Goto, Locked, Ended
<1>5. ~Fault /\ Fresh(r)' => Fresh(r) /\ host[r] # "staging"
  BY <1>4 DEF Fresh, FreshInv, HostStep, Serve, Receive, Lock, LockBusy, Refuse,
     Look, ScanOvertaken, ScanFinds, ScanFindsNone, Stage, Record, Publish, Ensure,
     Release, Answer, Respond, StepFails, HostDies, Goto
<1>6. host[r] # "staging" /\ envelope[r] = "none" => envelope'[r] = "none"
  BY HostMoves
<1> QED BY <1>1, <1>2, <1>3, <1>4, <1>5, <1>6 DEF FreshInv, Fresh

\* A rejection without a fault, for a lock that is held or for a scan that other
\* files have overtaken, leaves no envelope of its own behind, for any requests
\* and keys (persist_idempotent, find_envelope_transfer_id).
THEOREM RejectionIsClean == Spec => []RejectedLeavesNothing
<1>1. Init => FreshInv
  BY DEF Init, PortInit, InboxInit, FreshInv, Fresh
<1>2. IInv /\ FreshInv /\ [Next]_vars => FreshInv'
  <2> SUFFICES ASSUME IInv, FreshInv, [Next]_vars PROVE FreshInv'
    OBVIOUS
  <2>1. ASSUME NEW r \in Requests, HostStep(r) PROVE FreshInv'
    BY <2>1, HostStaysFresh
  <2>2. faults' = 0 => faults = 0
    <3>1. faults' \in Nat /\ faults <= faults' /\ faults \in Nat
      BY FaultsGrow, FaultsAssumption DEF IInv, TypeOK, PortType
    <3> QED BY <3>1
  <2>3. CASE DeskStep
    <3>1. UNCHANGED <<port, host>>
      BY <2>3, DeskLeavesHost DEF hostVars
    <3>2. \A t \in Requests : envelope[t] = "none" => envelope'[t] = "none"
      BY <2>3, DeskMoves
    <3> QED BY <2>2, <3>1, <3>2 DEF FreshInv, Fresh
  <2>4. ASSUME NEW r \in Requests, Ask(r) PROVE FreshInv'
    <3>1. UNCHANGED <<faults, host, envelope>>
      BY <2>4 DEF Ask, inboxVars, hostVars
    <3>2. \A s \in Requests : port'[s] = "rejected" => port[s] = "rejected"
      BY <2>4 DEF Ask, Post, IInv, TypeOK, PortType
    <3> QED BY <3>1, <3>2 DEF FreshInv, Fresh
  <2>5. CASE UNCHANGED vars
    BY <2>5 DEF vars, inboxVars, hostVars, FreshInv, Fresh
  <2> QED BY <2>1, <2>3, <2>4, <2>5 DEF Next, InboxStep
<1>3. FreshInv => RejectedLeavesNothing
  BY DEF FreshInv, Fresh, RejectedLeavesNothing
<1> QED BY Inductive, <1>1, <1>2, <1>3, PTL DEF Spec
============================================================================
