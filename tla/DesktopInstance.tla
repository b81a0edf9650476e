--------------------------- MODULE DesktopInstance ---------------------------
(***************************************************************************)
(* Launches of the desktop application: barq_app.py, core/ipc_server.py    *)
(* and the part of ui/main_window.py that starts, hides and ends an        *)
(* instance.                                                               *)
(*                                                                         *)
(* A launch first tries to hand its address over to the instance that      *)
(* listens on the IPC port, and ends if it can.  Otherwise, when nobody    *)
(* listens or the attempt fails for any other reason, it becomes an        *)
(* instance: it retires the legacy browser bridge, which may open a        *)
(* warning and wait for the user, builds its window, starts the watcher of *)
(* the browser inbox and only then listens; it runs on when it cannot.     *)
(* Several launches can be under way at once, and every instance watches   *)
(* the one inbox of the user.  The file system steps of one watcher are    *)
(* the subject of DurableInbox.                                            *)
(***************************************************************************)
EXTENDS Naturals, FiniteSets, SequencesExt

CONSTANTS
  Launches,  \* processes the user ever starts
  HasUrl,    \* launches with an address on the command line
  Files,     \* envelopes of the browser inbox
  HasTray,   \* is there a system tray?
  Nobody, NoFile

ASSUME InstanceAssumption ==
  /\ HasUrl \subseteq Launches /\ HasTray \in BOOLEAN
  /\ Nobody \notin Launches /\ NoFile \notin Files

VARIABLES
  at,        \* where each launch is in main()
  port,      \* the instance that listens, or Nobody
  mail,      \* requests the listening instance has not read, oldest first
  shown,     \* launches whose address was put before the user
  lost,      \* launches whose request ended with the instance it was sent to
  visible,   \* instances whose window is open
  legacy,    \* is a manifest of the legacy bridge still registered?
  envelope,  \* each file of the inbox: published, claimed or gone
  hand,      \* what each watcher delivers: the file, and if its row exists
  rows,      \* rows inserted for each envelope
  overlap,   \* history: a launch became an instance beside another one
  cut,       \* history: files whose instance ended after inserting the row
  by         \* history: the instances that inserted a row for each file

desk == <<envelope, hand, rows, by>>
ipc == <<port, mail, shown, lost>>
vars == <<at, ipc, visible, legacy, desk, overlap, cut>>

Empty == [file |-> NoFile, added |-> FALSE]
Starting == {"retiring", "warning", "opening"}
Running(l) == at[l] = "running"
Live(l) == at[l] \in Starting \cup {"running"}

Init ==
  /\ at = [l \in Launches |-> "off"]
  /\ port = Nobody /\ mail = <<>> /\ shown = {} /\ lost = {}
  /\ visible = {} /\ legacy \in BOOLEAN
  /\ envelope = [f \in Files |-> "published"]
  /\ hand = [l \in Launches |-> Empty]
  /\ rows = [f \in Files |-> 0]
  /\ overlap = FALSE /\ cut = {} /\ by = [f \in Files |-> {}]

(***************************************************************************)
(* main(): from the probe of the port to the event loop.                   *)
(***************************************************************************)
Launch(l) ==
  /\ at[l] = "off"
  /\ at' = [at EXCEPT ![l] = "probing"]
  /\ UNCHANGED <<ipc, visible, legacy, desk, overlap, cut>>

\* send_to_existing_instance succeeds: the launch ends.
Forward(l) ==
  /\ at[l] = "probing" /\ port # Nobody
  /\ at' = [at EXCEPT ![l] = "sent"]
  /\ mail' = Append(mail, l)
  /\ UNCHANGED <<port, shown, lost, visible, legacy, desk, overlap, cut>>

\* It fails, as nobody listens, or on a timeout or a reset connection: any
\* exception is taken for an absent instance, and the launch will own the
\* user interface.
BecomeInstance(l) ==
  /\ at[l] = "probing"
  /\ at' = [at EXCEPT ![l] = "retiring"]
  /\ overlap' = (overlap \/ \E m \in Launches : Live(m))
  /\ UNCHANGED <<ipc, visible, legacy, desk, cut>>

\* retire_legacy_browser_bridge; a file that cannot be removed stays.
RetireLegacy(l) ==
  /\ at[l] = "retiring"
  /\ legacy' \in {legacy, FALSE}
  /\ at' = [at EXCEPT ![l] = IF legacy' # legacy THEN "warning" ELSE "opening"]
  /\ UNCHANGED <<ipc, visible, desk, overlap, cut>>

\* The user answers the remediation warning, which is modal.
DismissWarning(l) ==
  /\ at[l] = "warning"
  /\ at' = [at EXCEPT ![l] = "opening"]
  /\ UNCHANGED <<ipc, visible, legacy, desk, overlap, cut>>

\* BarqMainWindow: the pages, the watcher and the IPC server, whose failure
\* to listen has no consequence.
OpenWindow(l) ==
  /\ at[l] = "opening"
  /\ at' = [at EXCEPT ![l] = "running"]
  /\ port' = IF port = Nobody THEN l ELSE port
  /\ visible' = visible \cup {l}
  /\ shown' = shown \cup ({l} \cap HasUrl)
  /\ UNCHANGED <<mail, lost, legacy, desk, overlap, cut>>

(***************************************************************************)
(* The event loop of an instance.                                          *)
(***************************************************************************)
\* Mutant: whatever comes is taken for read.
ReadNothing(l) ==
  /\ Running(l) /\ port = l /\ mail # <<>>
  /\ mail' = Tail(mail)
  /\ UNCHANGED <<at, port, lost, shown, visible, legacy, desk, overlap, cut>>

\* _read_data: parse_request rejects a request without an address, any other
\* raises the window and opens the dialog of a new download.
ReadRequest(l) ==
  /\ Running(l) /\ port = l /\ mail # <<>>
  /\ mail' = Tail(mail)
  /\ IF Head(mail) \in HasUrl
     THEN shown' = shown \cup {Head(mail)} /\ visible' = visible \cup {l}
     ELSE UNCHANGED <<shown, visible>>
  /\ UNCHANGED <<at, port, lost, legacy, desk, overlap, cut>>

\* closeEvent: to the tray with one, and for good without; the application
\* does not end with its last window.
CloseWindow(l) ==
  /\ Running(l) /\ l \in visible
  /\ visible' = visible \ {l}
  /\ UNCHANGED <<at, ipc, legacy, desk, overlap, cut>>

ShowFromTray(l) ==
  /\ HasTray /\ Running(l) /\ l \notin visible
  /\ visible' = visible \cup {l}
  /\ UNCHANGED <<at, ipc, legacy, desk, overlap, cut>>

\* "Exit App", a crash, or the end of the user's session.
Exit(l) ==
  /\ Live(l)
  /\ at' = [at EXCEPT ![l] = "ended"]
  /\ IF port = l
     THEN port' = Nobody /\ mail' = <<>> /\ lost' = lost \cup ToSet(mail)
     ELSE UNCHANGED <<port, mail, lost>>
  /\ visible' = visible \ {l}
  /\ cut' = IF hand[l].added THEN cut \cup {hand[l].file} ELSE cut
  /\ hand' = [hand EXCEPT ![l] = Empty]
  /\ UNCHANGED <<shown, legacy, envelope, rows, by, overlap>>

(***************************************************************************)
(* The watcher of an instance.  _drain_in_progress keeps it to one file.   *)
(***************************************************************************)
TakeUp(l, f) ==
  /\ Running(l) /\ hand[l] = Empty
  /\ hand' = [hand EXCEPT ![l] = [file |-> f, added |-> FALSE]]
  /\ UNCHANGED <<at, ipc, visible, legacy, rows, by, overlap, cut>>

Claim(l, f) ==
  /\ envelope[f] = "published"
  /\ envelope' = [envelope EXCEPT ![f] = "claimed"]
  /\ TakeUp(l, f)

\* Mutant: claimed files are not looked for.
RecoverNothing(l, f) == FALSE /\ UNCHANGED vars

\* _recover_claimed_envelopes: left by an instance that ended, or refused, or
\* at work in another instance now.
Recover(l, f) ==
  /\ envelope[f] = "claimed" /\ UNCHANGED envelope
  /\ TakeUp(l, f)

\* handle_browser_download: the window is raised and the row inserted ...
InsertRow(l) ==
  /\ Running(l) /\ hand[l].file # NoFile /\ ~hand[l].added
  /\ rows' = [rows EXCEPT ![hand[l].file] = @ + 1]
  /\ hand' = [hand EXCEPT ![l] = [file |-> @.file, added |-> TRUE]]
  /\ by' = [by EXCEPT ![hand[l].file] = @ \cup {l}]
  /\ visible' = visible \cup {l}
  /\ UNCHANGED <<at, ipc, legacy, envelope, overlap, cut>>

\* ... or refused, and the file stays claimed.
RefuseRow(l) ==
  /\ Running(l) /\ hand[l].file # NoFile /\ ~hand[l].added
  /\ hand' = [hand EXCEPT ![l] = Empty]
  /\ visible' = visible \cup {l}
  /\ UNCHANGED <<at, ipc, legacy, envelope, rows, by, overlap, cut>>

\* Mutant: the delivered file stays.
ForgetUnlink(l) ==
  /\ hand[l].added
  /\ hand' = [hand EXCEPT ![l] = Empty]
  /\ UNCHANGED <<at, ipc, visible, legacy, envelope, rows, by, overlap, cut>>

\* The delivered file is removed, unless another instance has done it.
Unlink(l) ==
  /\ hand[l].added
  /\ envelope' = [envelope EXCEPT ![hand[l].file] = "gone"]
  /\ hand' = [hand EXCEPT ![l] = Empty]
  /\ UNCHANGED <<at, ipc, visible, legacy, rows, by, overlap, cut>>

Watch(l) == \/ \E f \in Files : Claim(l, f) \/ Recover(l, f)
            \/ Unlink(l)

Start(l) == \/ Forward(l) \/ BecomeInstance(l) \/ RetireLegacy(l)
            \/ OpenWindow(l)

Next ==
  \E l \in Launches :
    \/ Launch(l) \/ Start(l) \/ DismissWarning(l)
    \/ ReadRequest(l) \/ CloseWindow(l) \/ ShowFromTray(l) \/ Exit(l)
    \/ Watch(l) \/ InsertRow(l) \/ RefuseRow(l)

Spec == Init /\ [][Next]_vars

\* Processes run, the event loop reads its socket and its timer fires; a
\* delivery that is tried again and again succeeds at last, as does the user
\* with the dialogs it opens.  Nothing is assumed of the user besides.
Fairness ==
  \A l \in Launches :
    /\ WF_vars(Start(l)) /\ WF_vars(ReadRequest(l)) /\ WF_vars(Unlink(l))
    /\ \A f \in Files : SF_vars(Claim(l, f)) /\ SF_vars(Recover(l, f))
    /\ SF_vars(InsertRow(l))
FairSpec == Spec /\ Fairness

(***************************************************************************)
(* Properties                                                              *)
(***************************************************************************)
\* The shape of the state; only a running instance listens, shows a window or
\* delivers, and there is mail only for one that listens.
TypeOK ==
  /\ at \in [Launches -> {"off", "probing", "sent", "running", "ended"}
                         \cup Starting]
  /\ port = Nobody \/ (port \in Launches /\ Running(port))
  /\ mail # <<>> => port # Nobody
  /\ ToSet(mail) \cup lost \cup shown \subseteq Launches
  /\ \A l \in visible : Running(l)
  /\ envelope \in [Files -> {"published", "claimed", "gone"}]
  /\ \A l \in Launches : hand[l] # Empty => Running(l) /\ hand[l].file \in Files
  /\ rows \in [Files -> Nat] /\ by \in [Files -> SUBSET Launches]

\* An envelope becomes a second row only if a launch became an instance
\* beside another one, however much later, or if an instance ended between
\* the insertion and the removal of the file: one instance and its successors
\* never deliver twice.
OneRowUnlessOverlap ==
  \A f \in Files : rows[f] <= 1 \/ overlap \/ f \in cut

\* Whatever other instances do with the same file meanwhile, no instance
\* inserts its row a second time: an envelope has at most as many rows as
\* there were instances at work on it.
NoInstanceTwice ==
  [][\A l \in Launches, f \in Files :
       InsertRow(l) /\ hand[l].file = f => l \notin by[f]]_vars

\* An address handed over to the running instance is put before the user,
\* unless that instance ends before it has read it.
UrlArrives ==
  \A l \in HasUrl : at[l] = "sent" ~> l \in shown \cup lost

\* Whatever instances claimed, refused or ended with, an envelope becomes a
\* row as long as an instance runs.
EnvelopesLand ==
  \A f \in Files : []<>(rows[f] > 0 \/ \A l \in Launches : ~Running(l))
==============================================================================
