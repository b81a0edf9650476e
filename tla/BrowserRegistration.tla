------------------------- MODULE BrowserRegistration -------------------------
(***************************************************************************)
(* Registration of the native messaging host with the browsers of a Linux  *)
(* user: scripts/setup_browser_integration.py with browser_registry.py.    *)
(*                                                                         *)
(* A browser reads one manifest, in its own directory, and connects the    *)
(* extensions (callers) that the manifest names; the host has the callers  *)
(* it accepts compiled in.  One command may register several browsers: it  *)
(* collects the callers of the manifests it can find, builds the host anew *)
(* for these and the new ones, writes one manifest per target, and records *)
(* the targets in an index, which is the only way to find a custom         *)
(* directory again.  A command can fail or be killed between any two of    *)
(* its steps, and files can be edited by hand or by other programs at any  *)
(* time: manifests lost, spoilt, written by hand or restored from the .bak *)
(* beside them, the index and the binary removed.  Commands run one at a   *)
(* time, and nobody else compiles the host.                                *)
(***************************************************************************)
EXTENDS Naturals, FiniteSets

CONSTANTS
  Standard,  \* manifests of the Chromium family in BROWSER_SPECS
  Custom,    \* manifests in custom directories inside the user's home
  Callers,   \* valid extension ids, as origins
  MaxEdits   \* bound on what happens to files outside the commands

Places == Standard \cup Custom

ASSUME RegistrationAssumption ==
  /\ Standard \cap Custom = {}
  /\ MaxEdits \in Nat

VARIABLES
  kind,     \* what each manifest file is
  callers,  \* its allowed_origins
  index,    \* manifests in the state file; {} when it is missing or damaged
  built,    \* the host's binary exists
  host,     \* callers compiled into it
  step,     \* the next step of the command that runs, or "idle"
  wish,     \* callers that the command registers for each manifest
  found,    \* callers it has found to be preserved
  left,     \* manifests it has still to write
  asked,    \* history: callers asked for by a command, or put in by hand
  touched,  \* history: manifests edited since the command began or wrote them
  edited,   \* history: the same, since the host's callers were collected
  lost,     \* history: the binary has been removed since it was built
  edits     \* number of edits so far

files == <<kind, callers, index>>
binary == <<built, host>>
command == <<step, wish, found, left>>
history == <<asked, touched, edited, lost>>
vars == <<files, binary, command, history, edits>>

\* "missing": no file, or a JSON object without a name; "barq": one of ours;
\* "unsafe": ours, with an origin in it that is not a canonical one;
\* "foreign": of another host; "broken": not a JSON object.
Kinds == {"missing", "barq", "unsafe", "foreign", "broken"}
Writable == {"missing", "barq", "unsafe"}

Nothing == [p \in Places |-> {}]
Targets(w) == {p \in Places : w[p] # {}}
All(w) == UNION {w[p] : p \in Places}

\* What the arguments of `register' can ask for: at least one manifest, and
\* one caller for at most one custom directory.
Requests ==
  {w \in [Places -> SUBSET Callers] :
     /\ Targets(w) # {}
     /\ \A p, q \in Custom : w[p] # {} /\ w[q] # {} => p = q
     /\ \A p \in Custom : \A a, b \in w[p] : a = b}

\* validate_on_disk_manifest.
OnDisk(p) == IF kind[p] = "barq" THEN callers[p] ELSE {}

\* Mutant: the index is not read.
DiscoverStandard(w) == UNION {OnDisk(p) : p \in Standard}

\* discover_existing_chromium_origins, with the custom target as extra path.
Discover(w) ==
  UNION {OnDisk(p) : p \in Standard \cup index \cup (Targets(w) \cap Custom)}

Init ==
  /\ kind = [p \in Places |-> "missing"] /\ callers = Nothing /\ index = {}
  /\ built = FALSE /\ host = {}
  /\ step = "idle" /\ wish = Nothing /\ found = {} /\ left = {}
  /\ asked = Nothing /\ touched = {} /\ edited = {} /\ lost = FALSE
  /\ edits = 0

(***************************************************************************)
(* The command, step by step.                                              *)
(***************************************************************************)
\* The arguments are checked before anything is done.
Register(w) ==
  /\ step = "idle"
  /\ step' = "clean"
  /\ wish' = w
  /\ found' = Discover(w)
  /\ left' = Targets(w)
  /\ asked' = [p \in Places |-> asked[p] \cup w[p]]
  /\ touched' = {}
  /\ UNCHANGED <<files, binary, edited, lost, edits>>

\* build_native_host: `cargo clean' removes the binary ...
CleanHost ==
  /\ step = "clean"
  /\ step' = "build"
  /\ built' = FALSE
  /\ UNCHANGED <<files, host, wish, found, left, history, edits>>

\* Mutant: the host is built for the callers it had.
BuildFound ==
  /\ step = "build"
  /\ step' = "write"
  /\ built' = TRUE /\ host' = found
  /\ edited' = touched /\ lost' = FALSE
  /\ UNCHANGED <<files, wish, found, left, asked, touched, edits>>

\* ... and `cargo build' makes it anew, for the union.
BuildHost ==
  /\ step = "build"
  /\ step' = "write"
  /\ built' = TRUE /\ host' = found \cup All(wish)
  /\ edited' = touched /\ lost' = FALSE
  /\ UNCHANGED <<files, wish, found, left, asked, touched, edits>>

\* Mutant: every manifest names every caller of the host.
WriteUnion(p) ==
  /\ step = "write" /\ p \in left
  /\ p \in Custom => left = {p}
  /\ kind[p] \in Writable
  /\ kind' = [kind EXCEPT ![p] = "barq"]
  /\ callers' = [callers EXCEPT ![p] = host]
  /\ left' = left \ {p}
  /\ touched' = touched \ {p} /\ edited' = edited \ {p}
  /\ UNCHANGED <<index, binary, step, wish, found, asked, lost, edits>>

\* write_manifest_atomic; the custom directory is the last one.
WriteManifest(p) ==
  /\ step = "write" /\ p \in left
  /\ p \in Custom => left = {p}
  /\ kind[p] \in Writable
  /\ kind' = [kind EXCEPT ![p] = "barq"]
  /\ callers' = [callers EXCEPT ![p] = wish[p]]
  /\ left' = left \ {p}
  /\ touched' = touched \ {p} /\ edited' = edited \ {p}
  /\ UNCHANGED <<index, binary, step, wish, found, asked, lost, edits>>

\* save_registered_manifest_paths, which adds to what it can read.
SaveIndex ==
  /\ step = "write" /\ left = {}
  /\ step' = "idle"
  /\ index' = index \cup Targets(wish)
  /\ wish' = Nothing /\ found' = {}
  /\ UNCHANGED <<kind, callers, binary, left, history, edits>>

\* The command ends early: no cargo, a failed build, a manifest it refuses
\* to replace, an OSError, an interrupt.
Fail ==
  /\ step # "idle"
  /\ step' = "idle"
  /\ wish' = Nothing /\ found' = {} /\ left' = {}
  /\ UNCHANGED <<files, binary, history, edits>>

(***************************************************************************)
(* What happens to the files outside the commands.                         *)
(***************************************************************************)
Edit == edits < MaxEdits /\ edits' = edits + 1
Touch(p) == touched' = touched \cup {p} /\ edited' = edited \cup {p}

\* A manifest is deleted, damaged or replaced by one of another host.
LoseManifest(p, k) ==
  /\ Edit /\ Touch(p)
  /\ kind' = [kind EXCEPT ![p] = k] /\ callers' = [callers EXCEPT ![p] = {}]
  /\ UNCHANGED <<index, binary, command, asked, lost>>

\* Someone adds an origin that is not a canonical one.
SpoilManifest(p) ==
  /\ Edit /\ Touch(p)
  /\ kind[p] = "barq" /\ kind' = [kind EXCEPT ![p] = "unsafe"]
  /\ UNCHANGED <<callers, index, binary, command, asked, lost>>

\* Someone writes a good manifest: adds or takes away an origin, repairs a
\* spoilt one, or puts back the .bak that write_manifest_atomic leaves.
RestoreManifest(p, C) ==
  /\ Edit /\ Touch(p)
  /\ kind' = [kind EXCEPT ![p] = "barq"] /\ callers' = [callers EXCEPT ![p] = C]
  /\ asked' = [asked EXCEPT ![p] = @ \cup C]
  /\ UNCHANGED <<index, binary, command, lost>>

LoseIndex ==
  /\ Edit
  /\ index # {} /\ index' = {}
  /\ UNCHANGED <<kind, callers, binary, command, history>>

LoseBinary ==
  /\ Edit
  /\ built /\ built' = FALSE /\ lost' = TRUE
  /\ UNCHANGED <<files, host, command, asked, touched, edited>>

Next ==
  \/ \E w \in Requests : Register(w)
  \/ CleanHost \/ BuildHost \/ SaveIndex \/ Fail
  \/ \E p \in Places :
       \/ WriteManifest(p) \/ SpoilManifest(p)
       \/ \E k \in {"missing", "foreign", "broken"} : LoseManifest(p, k)
       \/ \E C \in SUBSET Callers : RestoreManifest(p, C)
  \/ LoseIndex \/ LoseBinary

Spec == Init /\ [][Next]_vars

(***************************************************************************)
(* Properties                                                              *)
(***************************************************************************)
\* The shape of the files, the binary and the command.
TypeOK ==
  /\ kind \in [Places -> Kinds] /\ callers \in [Places -> SUBSET Callers]
  /\ index \subseteq Places
  /\ built \in BOOLEAN /\ host \subseteq Callers
  /\ step \in {"idle", "clean", "build", "write"}
  /\ wish \in [Places -> SUBSET Callers]
  /\ found \subseteq Callers /\ left \subseteq Places
  /\ asked \in [Places -> SUBSET Callers]
  /\ touched \subseteq Places /\ edited \subseteq Places /\ lost \in BOOLEAN
  /\ edits \in 0..MaxEdits

\* "Lifecycle preservation of existing callers": whenever there is a host,
\* it accepts every caller of every manifest that the tools can find, at
\* every step of every command, however earlier commands ended.  (Manifests
\* edited by hand since the callers of this host were collected excepted.)
HostServesTracked ==
  built => \A p \in (Standard \cup index) \ edited : OnDisk(p) \subseteq host

\* Least privilege: a manifest names only callers that a command or a hand
\* put there, and the host accepts only callers asked for somewhere.
LeastPrivilege ==
  /\ \A p \in Places : callers[p] \subseteq asked[p]
  /\ host \subseteq All(asked)

\* A command that reports success has registered every target: there is a
\* host, the manifest names what was asked for and nothing else, the host
\* accepts that, and the next command will find it.  (A binary or a
\* manifest that someone changed after the command made it excepted.)
CompletedMeansServed ==
  [][SaveIndex =>
       /\ built \/ lost
       /\ \A p \in Targets(wish) :
            /\ p \in index' /\ wish[p] \subseteq host
            /\ p \notin touched => OnDisk(p) = wish[p]]_vars
==============================================================================
