------------------------ MODULE DesktopInstanceProofs ------------------------
(***************************************************************************)
(* Theorems about DesktopInstance, for any number of launches and files.   *)
(***************************************************************************)
EXTENDS DesktopInstance, TLAPS

\* The types that the argument needs.
Shape ==
  /\ at \in [Launches -> {"off", "probing", "sent", "running", "ended"}
                         \cup Starting]
  /\ port \in Launches \cup {Nobody}
  /\ envelope \in [Files -> {"published", "claimed", "gone"}]
  /\ hand \in [Launches -> [file : Files \cup {NoFile}, added : BOOLEAN]]
  /\ rows \in [Files -> Nat] /\ by \in [Files -> SUBSET Launches]
  /\ overlap \in BOOLEAN /\ cut \subseteq Files

\* Only a running instance holds a file or listens, and nothing is added
\* without a file.
HandsRun ==
  /\ \A l \in Launches : hand[l].file # NoFile => Running(l)
  /\ \A l \in Launches : hand[l].added => hand[l].file # NoFile
  /\ port # Nobody => Running(port)

\* Without an overlap there is one instance, and it listens as long as it runs.
Alone ==
  ~overlap => /\ \A l, m \in Launches : Live(l) /\ Live(m) => l = m
              /\ \A l \in Launches : Running(l) => port = l

\* Its file is claimed until it is unlinked.
HandsClaim ==
  ~overlap => \A l \in Launches :
                hand[l].file # NoFile => envelope[hand[l].file] = "claimed"

\* The row of a file that is still in the inbox was inserted by the instance
\* that has the file in hand.
RowsExplained ==
  ~overlap => \A f \in Files \ cut :
                \/ rows[f] = 0
                \/ rows[f] = 1 /\ envelope[f] = "gone"
                \/ /\ rows[f] = 1
                   /\ \E l \in Launches : hand[l].added /\ hand[l].file = f

\* An instance that has inserted the row of a file is about to unlink it, has
\* ended, or the file is gone; it has not taken it up again.
InsertedOnce ==
  /\ \A l \in Launches, f \in Files :
       l \in by[f] => \/ envelope[f] = "gone"
                     \/ at[l] = "ended"
                     \/ (hand[l].file = f /\ hand[l].added)
  /\ \A l \in Launches, f \in Files :
       hand[l].file = f /\ ~hand[l].added => l \notin by[f]

\* Who sends and who answers.
Mailbox ==
  /\ mail \in Seq(Launches) /\ lost \subseteq Launches /\ shown \subseteq Launches
  /\ mail # <<>> => port # Nobody
  /\ visible \subseteq Launches /\ \A l \in visible : Running(l)

IInv ==
  /\ Shape /\ Mailbox /\ HandsRun /\ Alone /\ HandsClaim /\ RowsExplained
  /\ InsertedOnce

LEMMA InitInv == Init => IInv
<1> SUFFICES ASSUME Init  PROVE IInv
  OBVIOUS
<1>1. Shape
  BY InstanceAssumption DEF Init, Shape, Empty, Starting
<1>2. Mailbox
  BY DEF Init, Mailbox
<1>3. HandsRun /\ Alone /\ HandsClaim /\ RowsExplained /\ InsertedOnce
  BY DEF Init, HandsRun, Alone, HandsClaim, RowsExplained, InsertedOnce, Empty,
         Live, Running, Starting
<1> QED  BY <1>1, <1>2, <1>3 DEF IInv

\* Every step keeps the types.
LEMMA ShapeStep ==
  ASSUME Shape, HandsRun, [Next]_vars
  PROVE  Shape'
<1> USE InstanceAssumption DEF Shape, HandsRun, Starting, Running, Live
<1>1. ASSUME NEW l \in Launches, Launch(l)  PROVE Shape'
  BY <1>1 DEF Launch, desk, ipc
<1>2. ASSUME NEW l \in Launches, Forward(l)  PROVE Shape'
  BY <1>2 DEF Forward, desk, ipc
<1>3. ASSUME NEW l \in Launches, BecomeInstance(l)  PROVE Shape'
  BY <1>3 DEF BecomeInstance, desk, ipc
<1>4. ASSUME NEW l \in Launches, RetireLegacy(l)  PROVE Shape'
  BY <1>4 DEF RetireLegacy, desk, ipc
<1>5. ASSUME NEW l \in Launches, DismissWarning(l)  PROVE Shape'
  BY <1>5 DEF DismissWarning, desk, ipc
<1>6. ASSUME NEW l \in Launches, OpenWindow(l)  PROVE Shape'
  BY <1>6 DEF OpenWindow, desk, ipc
<1>7. ASSUME NEW l \in Launches, ReadRequest(l)  PROVE Shape'
  BY <1>7 DEF ReadRequest, desk, ipc
<1>8. ASSUME NEW l \in Launches, CloseWindow(l)  PROVE Shape'
  BY <1>8 DEF CloseWindow, desk, ipc
<1>9. ASSUME NEW l \in Launches, ShowFromTray(l)  PROVE Shape'
  BY <1>9 DEF ShowFromTray, desk, ipc
<1>10. ASSUME NEW l \in Launches, Exit(l)  PROVE Shape'
  BY <1>10 DEF Exit, desk, ipc, Empty
<1>11. ASSUME NEW l \in Launches, NEW f \in Files, Claim(l, f)  PROVE Shape'
  BY <1>11 DEF Claim, TakeUp, ipc, Empty
<1>12. ASSUME NEW l \in Launches, NEW f \in Files, Recover(l, f)  PROVE Shape'
  BY <1>12 DEF Recover, TakeUp, ipc, Empty
<1>13. ASSUME NEW l \in Launches, InsertRow(l)  PROVE Shape'
  BY <1>13 DEF InsertRow, ipc, Empty
<1>14. ASSUME NEW l \in Launches, RefuseRow(l)  PROVE Shape'
  BY <1>14 DEF RefuseRow, ipc, Empty
<1>15. ASSUME NEW l \in Launches, Unlink(l)  PROVE Shape'
  BY <1>15 DEF Unlink, ipc, Empty
<1>16. ASSUME UNCHANGED vars  PROVE Shape'
  BY <1>16 DEF vars, desk, ipc
<1> QED
  BY <1>1, <1>2, <1>3, <1>4, <1>5, <1>6, <1>7, <1>8, <1>9, <1>10, <1>11, <1>12,
     <1>13, <1>14, <1>15, <1>16 DEF Next, Start, Watch

\* What ends lets go of what it holds.
LEMMA HandsRunStep ==
  ASSUME Shape, HandsRun, Shape', [Next]_vars
  PROVE  HandsRun'
<1> USE InstanceAssumption DEF Shape, HandsRun, Starting, Running, Live
<1>1. ASSUME NEW l \in Launches, Launch(l)  PROVE HandsRun'
  BY <1>1 DEF Launch, desk, ipc
<1>2. ASSUME NEW l \in Launches, Forward(l)  PROVE HandsRun'
  BY <1>2 DEF Forward, desk, ipc
<1>3. ASSUME NEW l \in Launches, BecomeInstance(l)  PROVE HandsRun'
  BY <1>3 DEF BecomeInstance, desk, ipc
<1>4. ASSUME NEW l \in Launches, RetireLegacy(l)  PROVE HandsRun'
  BY <1>4 DEF RetireLegacy, desk, ipc
<1>5. ASSUME NEW l \in Launches, DismissWarning(l)  PROVE HandsRun'
  BY <1>5 DEF DismissWarning, desk, ipc
<1>6. ASSUME NEW l \in Launches, OpenWindow(l)  PROVE HandsRun'
  BY <1>6 DEF OpenWindow, desk, ipc
<1>7. ASSUME NEW l \in Launches, ReadRequest(l)  PROVE HandsRun'
  BY <1>7 DEF ReadRequest, desk, ipc
<1>8. ASSUME NEW l \in Launches, CloseWindow(l)  PROVE HandsRun'
  BY <1>8 DEF CloseWindow, desk, ipc
<1>9. ASSUME NEW l \in Launches, ShowFromTray(l)  PROVE HandsRun'
  BY <1>9 DEF ShowFromTray, desk, ipc
<1>10. ASSUME NEW l \in Launches, Exit(l)  PROVE HandsRun'
  BY <1>10 DEF Exit, desk, ipc, Empty
<1>11. ASSUME NEW l \in Launches, NEW f \in Files, Claim(l, f)  PROVE HandsRun'
  BY <1>11 DEF Claim, TakeUp, ipc, Empty
<1>12. ASSUME NEW l \in Launches, NEW f \in Files, Recover(l, f)  PROVE HandsRun'
  BY <1>12 DEF Recover, TakeUp, ipc, Empty
<1>13. ASSUME NEW l \in Launches, InsertRow(l)  PROVE HandsRun'
  BY <1>13 DEF InsertRow, ipc, Empty
<1>14. ASSUME NEW l \in Launches, RefuseRow(l)  PROVE HandsRun'
  BY <1>14 DEF RefuseRow, ipc, Empty
<1>15. ASSUME NEW l \in Launches, Unlink(l)  PROVE HandsRun'
  BY <1>15 DEF Unlink, ipc, Empty
<1>16. ASSUME UNCHANGED vars  PROVE HandsRun'
  BY <1>16 DEF vars, desk, ipc
<1> QED
  BY <1>1, <1>2, <1>3, <1>4, <1>5, <1>6, <1>7, <1>8, <1>9, <1>10, <1>11, <1>12,
     <1>13, <1>14, <1>15, <1>16 DEF Next, Start, Watch

\* A launch becomes an instance only when it finds nobody.
LEMMA AloneStep ==
  ASSUME Shape, HandsRun, Alone, [Next]_vars
  PROVE  Alone'
<1> USE InstanceAssumption DEF Shape, HandsRun, Alone, Live, Starting, Running
<1>1. ASSUME NEW l \in Launches, Launch(l)  PROVE Alone'
  BY <1>1 DEF Launch, desk, ipc
<1>2. ASSUME NEW l \in Launches, Forward(l)  PROVE Alone'
  BY <1>2 DEF Forward, desk, ipc
<1>3. ASSUME NEW l \in Launches, BecomeInstance(l)  PROVE Alone'
  <2>1. SUFFICES ASSUME ~overlap'
                 PROVE  /\ \A j, k \in Launches : Live(j)' /\ Live(k)' => j = k
                        /\ \A k \in Launches : Running(k)' => port' = k
    OBVIOUS
  <2>2. \A k \in Launches : ~Live(k)
    BY <1>3, <2>1 DEF BecomeInstance
  <2>4. at'[l] = "retiring" /\ \A k \in Launches : k # l => at'[k] = at[k]
    BY <1>3 DEF BecomeInstance
  <2> QED
    BY <2>2, <2>4
<1>4. ASSUME NEW l \in Launches, RetireLegacy(l)  PROVE Alone'
  BY <1>4 DEF RetireLegacy, desk, ipc
<1>5. ASSUME NEW l \in Launches, DismissWarning(l)  PROVE Alone'
  BY <1>5 DEF DismissWarning, desk, ipc
<1>6. ASSUME NEW l \in Launches, OpenWindow(l)  PROVE Alone'
  BY <1>6 DEF OpenWindow, desk, ipc
<1>7. ASSUME NEW l \in Launches, ReadRequest(l)  PROVE Alone'
  BY <1>7 DEF ReadRequest, desk, ipc
<1>8. ASSUME NEW l \in Launches, CloseWindow(l)  PROVE Alone'
  BY <1>8 DEF CloseWindow, desk, ipc
<1>9. ASSUME NEW l \in Launches, ShowFromTray(l)  PROVE Alone'
  BY <1>9 DEF ShowFromTray, desk, ipc
<1>10. ASSUME NEW l \in Launches, Exit(l)  PROVE Alone'
  BY <1>10 DEF Exit, desk, ipc, Empty
<1>11. ASSUME NEW l \in Launches, NEW f \in Files, Claim(l, f)  PROVE Alone'
  BY <1>11 DEF Claim, TakeUp, ipc, Empty
<1>12. ASSUME NEW l \in Launches, NEW f \in Files, Recover(l, f)  PROVE Alone'
  BY <1>12 DEF Recover, TakeUp, ipc, Empty
<1>13. ASSUME NEW l \in Launches, InsertRow(l)  PROVE Alone'
  BY <1>13 DEF InsertRow, ipc, Empty
<1>14. ASSUME NEW l \in Launches, RefuseRow(l)  PROVE Alone'
  BY <1>14 DEF RefuseRow, ipc, Empty
<1>15. ASSUME NEW l \in Launches, Unlink(l)  PROVE Alone'
  BY <1>15 DEF Unlink, ipc, Empty
<1>16. ASSUME UNCHANGED vars  PROVE Alone'
  BY <1>16 DEF vars, desk, ipc
<1> QED
  BY <1>1, <1>2, <1>3, <1>4, <1>5, <1>6, <1>7, <1>8, <1>9, <1>10, <1>11, <1>12,
     <1>13, <1>14, <1>15, <1>16 DEF Next, Start, Watch

\* The one instance claims what it takes up, and lets go of what it unlinks.
LEMMA HandsClaimStep ==
  ASSUME Shape, HandsRun, Alone, HandsClaim, [Next]_vars
  PROVE  HandsClaim'
<1> USE InstanceAssumption DEF Shape, HandsRun, Alone, HandsClaim, Live,
   Starting, Running
<1>1. ASSUME NEW l \in Launches, Launch(l)  PROVE HandsClaim'
  BY <1>1 DEF Launch, desk, ipc
<1>2. ASSUME NEW l \in Launches, Forward(l)  PROVE HandsClaim'
  BY <1>2 DEF Forward, desk, ipc
<1>3. ASSUME NEW l \in Launches, BecomeInstance(l)  PROVE HandsClaim'
  BY <1>3 DEF BecomeInstance, desk, ipc
<1>4. ASSUME NEW l \in Launches, RetireLegacy(l)  PROVE HandsClaim'
  BY <1>4 DEF RetireLegacy, desk, ipc
<1>5. ASSUME NEW l \in Launches, DismissWarning(l)  PROVE HandsClaim'
  BY <1>5 DEF DismissWarning, desk, ipc
<1>6. ASSUME NEW l \in Launches, OpenWindow(l)  PROVE HandsClaim'
  BY <1>6 DEF OpenWindow, desk, ipc
<1>7. ASSUME NEW l \in Launches, ReadRequest(l)  PROVE HandsClaim'
  BY <1>7 DEF ReadRequest, desk, ipc
<1>8. ASSUME NEW l \in Launches, CloseWindow(l)  PROVE HandsClaim'
  BY <1>8 DEF CloseWindow, desk, ipc
<1>9. ASSUME NEW l \in Launches, ShowFromTray(l)  PROVE HandsClaim'
  BY <1>9 DEF ShowFromTray, desk, ipc
<1>10. ASSUME NEW l \in Launches, Exit(l)  PROVE HandsClaim'
  BY <1>10 DEF Exit, desk, ipc, Empty
<1>11. ASSUME NEW l \in Launches, NEW f \in Files, Claim(l, f)  PROVE HandsClaim'
  BY <1>11 DEF Claim, TakeUp, ipc, Empty
<1>12. ASSUME NEW l \in Launches, NEW f \in Files, Recover(l, f)  PROVE HandsClaim'
  BY <1>12 DEF Recover, TakeUp, ipc, Empty
<1>13. ASSUME NEW l \in Launches, InsertRow(l)  PROVE HandsClaim'
  BY <1>13 DEF InsertRow, ipc, Empty
<1>14. ASSUME NEW l \in Launches, RefuseRow(l)  PROVE HandsClaim'
  BY <1>14 DEF RefuseRow, ipc, Empty
<1>15. ASSUME NEW l \in Launches, Unlink(l)  PROVE HandsClaim'
  BY <1>15 DEF Unlink, ipc, Empty
<1>16. ASSUME UNCHANGED vars  PROVE HandsClaim'
  BY <1>16 DEF vars, desk, ipc
<1> QED
  BY <1>1, <1>2, <1>3, <1>4, <1>5, <1>6, <1>7, <1>8, <1>9, <1>10, <1>11, <1>12,
     <1>13, <1>14, <1>15, <1>16 DEF Next, Start, Watch

\* An instance takes up only files whose row it has not inserted.
LEMMA InsertedStep ==
  ASSUME Shape, HandsRun, InsertedOnce, [Next]_vars
  PROVE  InsertedOnce'
<1> USE InstanceAssumption DEF Shape, HandsRun, InsertedOnce, Starting, Running, Live
<1>1. ASSUME NEW l \in Launches, Launch(l)  PROVE InsertedOnce'
  BY <1>1 DEF Launch, desk, ipc
<1>2. ASSUME NEW l \in Launches, Forward(l)  PROVE InsertedOnce'
  BY <1>2 DEF Forward, desk, ipc
<1>3. ASSUME NEW l \in Launches, BecomeInstance(l)  PROVE InsertedOnce'
  BY <1>3 DEF BecomeInstance, desk, ipc
<1>4. ASSUME NEW l \in Launches, RetireLegacy(l)  PROVE InsertedOnce'
  BY <1>4 DEF RetireLegacy, desk, ipc
<1>5. ASSUME NEW l \in Launches, DismissWarning(l)  PROVE InsertedOnce'
  BY <1>5 DEF DismissWarning, desk, ipc
<1>6. ASSUME NEW l \in Launches, OpenWindow(l)  PROVE InsertedOnce'
  BY <1>6 DEF OpenWindow, desk, ipc
<1>7. ASSUME NEW l \in Launches, ReadRequest(l)  PROVE InsertedOnce'
  BY <1>7 DEF ReadRequest, desk, ipc
<1>8. ASSUME NEW l \in Launches, CloseWindow(l)  PROVE InsertedOnce'
  BY <1>8 DEF CloseWindow, desk, ipc
<1>9. ASSUME NEW l \in Launches, ShowFromTray(l)  PROVE InsertedOnce'
  BY <1>9 DEF ShowFromTray, desk, ipc
<1>10. ASSUME NEW l \in Launches, Exit(l)  PROVE InsertedOnce'
  <2>1. /\ at' = [at EXCEPT ![l] = "ended"] /\ hand' = [hand EXCEPT ![l] = Empty]
        /\ UNCHANGED <<envelope, by>>
    BY <1>10 DEF Exit
  <2>2. hand'[l].file \notin Files /\ at'[l] = "ended"
    BY <2>1 DEF Empty
  <2>3. \A k \in Launches \ {l} : hand'[k] = hand[k] /\ at'[k] = at[k]
    BY <2>1
  <2> QED
    BY <2>1, <2>2, <2>3
<1>11. ASSUME NEW l \in Launches, NEW f \in Files, Claim(l, f)  PROVE InsertedOnce'
  BY <1>11 DEF Claim, TakeUp, ipc, Empty
<1>12. ASSUME NEW l \in Launches, NEW f \in Files, Recover(l, f)  PROVE InsertedOnce'
  BY <1>12 DEF Recover, TakeUp, ipc, Empty
<1>13. ASSUME NEW l \in Launches, InsertRow(l)  PROVE InsertedOnce'
  BY <1>13 DEF InsertRow, ipc, Empty
<1>14. ASSUME NEW l \in Launches, RefuseRow(l)  PROVE InsertedOnce'
  BY <1>14 DEF RefuseRow, ipc, Empty
<1>15. ASSUME NEW l \in Launches, Unlink(l)  PROVE InsertedOnce'
  <2>1. /\ envelope' = [envelope EXCEPT ![hand[l].file] = "gone"]
        /\ hand' = [hand EXCEPT ![l] = Empty] /\ hand[l].added
        /\ UNCHANGED <<at, by>>
    BY <1>15 DEF Unlink
  <2>2. \A f \in Files : envelope'[f] = IF f = hand[l].file THEN "gone"
                                          ELSE envelope[f]
    BY <2>1
  <2>3. hand'[l].file \notin Files
    BY <2>1 DEF Empty
  <2>4. \A k \in Launches \ {l} : hand'[k] = hand[k]
    BY <2>1
  <2> QED
    BY <2>1, <2>2, <2>3, <2>4
<1>16. ASSUME UNCHANGED vars  PROVE InsertedOnce'
  BY <1>16 DEF vars, desk, ipc
<1> QED
  BY <1>1, <1>2, <1>3, <1>4, <1>5, <1>6, <1>7, <1>8, <1>9, <1>10, <1>11, <1>12,
     <1>13, <1>14, <1>15, <1>16 DEF Next, Start, Watch

\* A row is inserted only for a file in hand that has none.
LEMMA RowsStep ==
  ASSUME Shape, HandsRun, Alone, HandsClaim, RowsExplained, [Next]_vars
  PROVE  RowsExplained'
<1> USE InstanceAssumption DEF Shape, HandsRun, Alone, HandsClaim,
   RowsExplained, Live, Starting, Running
<1>1. ASSUME NEW l \in Launches, Launch(l)  PROVE RowsExplained'
  BY <1>1 DEF Launch, desk, ipc
<1>2. ASSUME NEW l \in Launches, Forward(l)  PROVE RowsExplained'
  BY <1>2 DEF Forward, desk, ipc
<1>3. ASSUME NEW l \in Launches, BecomeInstance(l)  PROVE RowsExplained'
  BY <1>3 DEF BecomeInstance, desk, ipc
<1>4. ASSUME NEW l \in Launches, RetireLegacy(l)  PROVE RowsExplained'
  BY <1>4 DEF RetireLegacy, desk, ipc
<1>5. ASSUME NEW l \in Launches, DismissWarning(l)  PROVE RowsExplained'
  BY <1>5 DEF DismissWarning, desk, ipc
<1>6. ASSUME NEW l \in Launches, OpenWindow(l)  PROVE RowsExplained'
  BY <1>6 DEF OpenWindow, desk, ipc
<1>7. ASSUME NEW l \in Launches, ReadRequest(l)  PROVE RowsExplained'
  BY <1>7 DEF ReadRequest, desk, ipc
<1>8. ASSUME NEW l \in Launches, CloseWindow(l)  PROVE RowsExplained'
  BY <1>8 DEF CloseWindow, desk, ipc
<1>9. ASSUME NEW l \in Launches, ShowFromTray(l)  PROVE RowsExplained'
  BY <1>9 DEF ShowFromTray, desk, ipc
<1>10. ASSUME NEW l \in Launches, Exit(l)  PROVE RowsExplained'
  BY <1>10 DEF Exit, desk, ipc, Empty
<1>11. ASSUME NEW l \in Launches, NEW f \in Files, Claim(l, f)  PROVE RowsExplained'
  BY <1>11 DEF Claim, TakeUp, ipc, Empty
<1>12. ASSUME NEW l \in Launches, NEW f \in Files, Recover(l, f)  PROVE RowsExplained'
  BY <1>12 DEF Recover, TakeUp, ipc, Empty
<1>13. ASSUME NEW l \in Launches, InsertRow(l)  PROVE RowsExplained'
  BY <1>13 DEF InsertRow, ipc, Empty
<1>14. ASSUME NEW l \in Launches, RefuseRow(l)  PROVE RowsExplained'
  BY <1>14 DEF RefuseRow, ipc, Empty
<1>15. ASSUME NEW l \in Launches, Unlink(l)  PROVE RowsExplained'
  BY <1>15 DEF Unlink, ipc, Empty
<1>16. ASSUME UNCHANGED vars  PROVE RowsExplained'
  BY <1>16 DEF vars, desk, ipc
<1> QED
  BY <1>1, <1>2, <1>3, <1>4, <1>5, <1>6, <1>7, <1>8, <1>9, <1>10, <1>11, <1>12,
     <1>13, <1>14, <1>15, <1>16 DEF Next, Start, Watch

\* Requests come from launches and wait only for an instance that listens, and only
\* a running instance shows a window.
LEMMA MailStep ==
  ASSUME Shape, HandsRun, Mailbox, [Next]_vars
  PROVE  Mailbox'
<1> USE InstanceAssumption DEF Shape, HandsRun, Mailbox, Starting, Running
<1>1. ASSUME NEW l \in Launches, Launch(l)  PROVE Mailbox'
  BY <1>1 DEF Launch, desk, ipc
<1>2. ASSUME NEW l \in Launches, Forward(l)  PROVE Mailbox'
  BY <1>2 DEF Forward, desk, ipc
<1>3. ASSUME NEW l \in Launches, BecomeInstance(l)  PROVE Mailbox'
  BY <1>3 DEF BecomeInstance, desk, ipc
<1>4. ASSUME NEW l \in Launches, RetireLegacy(l)  PROVE Mailbox'
  BY <1>4 DEF RetireLegacy, desk, ipc
<1>5. ASSUME NEW l \in Launches, DismissWarning(l)  PROVE Mailbox'
  BY <1>5 DEF DismissWarning, desk, ipc
<1>6. ASSUME NEW l \in Launches, OpenWindow(l)  PROVE Mailbox'
  BY <1>6 DEF OpenWindow, desk, ipc
<1>7. ASSUME NEW l \in Launches, ReadRequest(l)  PROVE Mailbox'
  BY <1>7 DEF ReadRequest, desk, ipc
<1>8. ASSUME NEW l \in Launches, CloseWindow(l)  PROVE Mailbox'
  BY <1>8 DEF CloseWindow, desk, ipc
<1>9. ASSUME NEW l \in Launches, ShowFromTray(l)  PROVE Mailbox'
  BY <1>9 DEF ShowFromTray, desk, ipc
<1>10. ASSUME NEW l \in Launches, Exit(l)  PROVE Mailbox'
  <2>1. ToSet(mail) \subseteq Launches
    BY DEF ToSet
  <2>2. /\ lost' \subseteq Launches /\ shown' = shown /\ mail' \in Seq(Launches)
        /\ mail' # <<>> => port' # Nobody
    <3>1. CASE port = l
      <4>1. mail' = <<>> /\ lost' = lost \cup ToSet(mail) /\ shown' = shown
        BY <1>10, <3>1 DEF Exit
      <4>2. mail' \in Seq(Launches)
        BY <4>1
      <4> QED
        BY <2>1, <4>1, <4>2
    <3>2. CASE port # l
      BY <1>10, <3>2 DEF Exit
    <3> QED
      BY <3>1, <3>2
  <2>3. visible' = visible \ {l} /\ at' = [at EXCEPT ![l] = "ended"]
    BY <1>10 DEF Exit
  <2> QED
    BY <2>2, <2>3
<1>11. ASSUME NEW l \in Launches, NEW f \in Files, Claim(l, f)  PROVE Mailbox'
  BY <1>11 DEF Claim, TakeUp, desk, ipc
<1>12. ASSUME NEW l \in Launches, NEW f \in Files, Recover(l, f)  PROVE Mailbox'
  BY <1>12 DEF Recover, TakeUp, desk, ipc
<1>13. ASSUME NEW l \in Launches, InsertRow(l)  PROVE Mailbox'
  BY <1>13 DEF InsertRow, desk, ipc
<1>14. ASSUME NEW l \in Launches, RefuseRow(l)  PROVE Mailbox'
  BY <1>14 DEF RefuseRow, desk, ipc
<1>15. ASSUME NEW l \in Launches, Unlink(l)  PROVE Mailbox'
  BY <1>15 DEF Unlink, desk, ipc
<1>16. ASSUME UNCHANGED vars  PROVE Mailbox'
  BY <1>16 DEF vars, desk, ipc
<1> QED
  BY <1>1, <1>2, <1>3, <1>4, <1>5, <1>6, <1>7, <1>8, <1>9, <1>10, <1>11, <1>12,
     <1>13, <1>14, <1>15, <1>16 DEF Next, Start, Watch

LEMMA IInvHolds == Spec => []IInv
<1>1. IInv /\ [Next]_vars => IInv'
  <2> SUFFICES ASSUME IInv, [Next]_vars  PROVE IInv'
    OBVIOUS
  <2>1. /\ Shape /\ Mailbox /\ HandsRun /\ Alone /\ HandsClaim /\ RowsExplained
        /\ InsertedOnce
    BY DEF IInv
  <2>2. Shape'  BY <2>1, ShapeStep
  <2>3. HandsRun'  BY <2>1, <2>2, HandsRunStep
  <2>4. Alone' /\ HandsClaim' /\ RowsExplained' /\ InsertedOnce' /\ Mailbox'
    BY <2>1, AloneStep, HandsClaimStep, InsertedStep, RowsStep, MailStep
  <2> QED  BY <2>2, <2>3, <2>4 DEF IInv
<1> QED  BY <1>1, InitInv, PTL DEF Spec

\* Only a running instance listens, shows a window or delivers, requests wait only
\* for one that listens, and the rest of the state keeps its shape.
THEOREM TypesAreKept == Spec => []TypeOK
<1>1. ASSUME IInv
      PROVE  TypeOK
  <2>1. Shape /\ Mailbox /\ HandsRun
    BY <1>1 DEF IInv
  <2>2. ToSet(mail) \subseteq Launches
    BY <2>1 DEF Mailbox, ToSet
  <2>3. ASSUME NEW l \in Launches, hand[l] # Empty
        PROVE  Running(l) /\ hand[l].file \in Files
    <3>1. hand[l] \in [file : Files \cup {NoFile}, added : BOOLEAN]
      BY <2>1 DEF Shape
    <3>2. hand[l].file # NoFile \/ hand[l].added
      BY <2>3, <3>1 DEF Empty
    <3> QED
      BY <2>1, <3>1, <3>2 DEF HandsRun
  <2> QED
    BY <2>1, <2>2, <2>3 DEF Shape, Mailbox, HandsRun, TypeOK
<1> QED  BY <1>1, IInvHolds, PTL

\* For any number of launches and envelopes, however launches interleave and
\* wherever instances end: a second row of an envelope needs a launch that became
\* an instance beside another one, or an instance that ended between the
\* insertion of the row and the removal of the file.
THEOREM RowsAreUnique == Spec => []OneRowUnlessOverlap
<1>1. IInv => OneRowUnlessOverlap
  <2> SUFFICES ASSUME IInv, NEW f \in Files, ~overlap, f \notin cut
               PROVE  rows[f] <= 1
    BY DEF OneRowUnlessOverlap
  <2>1. rows[f] \in {0, 1}
    BY DEF IInv, RowsExplained
  <2> QED  BY <2>1
<1> QED  BY <1>1, IInvHolds, PTL

\* Without such an overlap only one launch is an instance at any time, and it
\* is the one that listens.
THEOREM OneInstance == Spec => []Alone
<1>1. IInv => Alone
  BY DEF IInv
<1> QED  BY <1>1, IInvHolds, PTL

\* With any number of instances at work on the inbox, and whatever they do with
\* the same file, none inserts its row twice.
THEOREM InstancesInsertOnce == Spec => NoInstanceTwice
<1> DEFINE Once == \A l \in Launches, f \in Files :
                     InsertRow(l) /\ hand[l].file = f => l \notin by[f]
<1>1. IInv /\ [Next]_vars => [Once]_vars
  BY DEF IInv, InsertedOnce, InsertRow
<1> QED  BY <1>1, IInvHolds, PTL DEF Spec, NoInstanceTwice
==============================================================================
