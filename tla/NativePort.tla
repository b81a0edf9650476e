---------------------------- MODULE NativePort -----------------------------
(* The native-messaging channel between the extension's NativeClient         *)
(* (packages/browser-core/src/native/client.ts) and the native host          *)
(* (apps/native-host/src/main.rs): one capture request and its response.     *)
(* Each request has its own channel.  Requests of one browser do share a     *)
(* port and a host process that serves them in turn; independent channels    *)
(* allow every interleaving of those and more.                               *)
EXTENDS Naturals

CONSTANTS
    Requests,   \* the capture requests, each named for its browser download
    MaxFaults   \* bound: failing calls, crashes and restarts of one behaviour

ASSUME FaultsAssumption == MaxFaults \in Nat

VARIABLES
    port,    \* [Requests -> PortStates]
    faults   \* how many calls have failed and processes died so far

PortStates == {"closed", "asked", "accepted", "rejected"}

PortType ==
    /\ port \in [Requests -> PortStates]
    /\ faults \in 0 .. MaxFaults

PortInit ==
    /\ port = [r \in Requests |-> "closed"]
    /\ faults = 0

\* prepareCapture posts the request once the host has greeted back.
Post(r) ==
    /\ port[r] = "closed"
    /\ port' = [port EXCEPT ![r] = "asked"]

\* The host writes its response; a client that no longer waits ignores it.
Respond(r, status) ==
    port' = [port EXCEPT ![r] = status]

\* A call fails or a process dies, at most MaxFaults times.
Fault ==
    /\ faults < MaxFaults
    /\ faults' = faults + 1
============================================================================
