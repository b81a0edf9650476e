---------------------- MODULE BrowserRegistrationProofs ----------------------
(***************************************************************************)
(* Proofs about BrowserRegistration, for any browsers, custom directories, *)
(* callers and number of edits.                                            *)
(***************************************************************************)
EXTENDS BrowserRegistration, TLAPS

\* What the properties need to know of the command that runs: before the
\* build it has found every caller that must be kept, after the build the
\* host accepts what it asked for, and what it has written is as asked,
\* unless it was edited since.
CommandInv ==
  /\ step \in {"clean", "build"} =>
       /\ left = Targets(wish)
       /\ \A p \in (Standard \cup index) \ touched : OnDisk(p) \subseteq found
  /\ step = "write" =>
       /\ built \/ lost
       /\ touched \subseteq edited
       /\ \A p \in Places :
            /\ wish[p] \subseteq host
            /\ p \in Targets(wish) \ (left \cup touched) => OnDisk(p) = wish[p]

\* Whatever is written or compiled was asked for.
AskedInv ==
  /\ \A p \in Places : wish[p] \subseteq asked[p]
  /\ found \subseteq All(asked)

IInv == TypeOK /\ HostServesTracked /\ LeastPrivilege /\ CommandInv /\ AskedInv

\* The first state of the files: nothing is registered.
LEMMA InitInv == Init => IInv
<1> SUFFICES ASSUME Init PROVE IInv
  OBVIOUS
<1> USE DEF Init, Nothing
<1>1. TypeOK
  <2>1. edits \in 0..MaxEdits
    BY RegistrationAssumption
  <2>2. built \in BOOLEAN
    OBVIOUS
  <2> QED  BY <2>1, <2>2 DEF TypeOK, Kinds
<1>2. HostServesTracked
  BY DEF HostServesTracked
<1>3. LeastPrivilege /\ AskedInv
  BY DEF LeastPrivilege, AskedInv, Places
<1>4. CommandInv
  BY DEF CommandInv
<1> QED
  BY <1>1, <1>2, <1>3, <1>4 DEF IInv

\* What a request may ask for has the type of `wish'.
LEMMA RequestType ==
  ASSUME NEW w \in Requests
  PROVE  w \in [Places -> SUBSET Callers]
BY DEF Requests

\* The callers found are callers, and include those of every manifest that
\* the tools can find.
LEMMA DiscoverFinds ==
  ASSUME TypeOK, NEW w \in Requests
  PROVE  /\ Discover(w) \subseteq UNION {callers[p] : p \in Places}
         /\ Discover(w) \subseteq Callers
         /\ \A p \in Standard \cup index : OnDisk(p) \subseteq Discover(w)
<1> DEFINE S == Standard \cup index \cup (Targets(w) \cap Custom)
<1>1. S \subseteq Places
  BY DEF TypeOK, Places, Targets
<1>2. \A p \in Places : OnDisk(p) \subseteq callers[p]
  BY DEF OnDisk
<1>3. Discover(w) = UNION {OnDisk(p) : p \in S}
  BY DEF Discover
<1>4. \A p \in Places : callers[p] \subseteq Callers
  BY DEF TypeOK
<1> HIDE DEF S
<1>5. Discover(w) \subseteq UNION {callers[p] : p \in Places}
  BY <1>1, <1>2, <1>3
<1>6. Discover(w) \subseteq Callers
  BY <1>4, <1>5
<1>7. \A p \in S : OnDisk(p) \subseteq Discover(w)
  BY <1>3
<1> QED
  BY <1>5, <1>6, <1>7 DEF S

\* Every step keeps the type.
LEMMA TypeStep ==
  ASSUME TypeOK, [Next]_vars
  PROVE  TypeOK'
<1> USE DEF TypeOK
<1>1. ASSUME NEW w \in Requests, Register(w)  PROVE TypeOK'
  BY <1>1, RequestType, DiscoverFinds
     DEF Register, Targets, files, binary
<1>2. CASE CleanHost  BY <1>2 DEF CleanHost, files, history
<1>3. CASE BuildHost  BY <1>3 DEF BuildHost, files, All
<1>4. CASE SaveIndex
  BY <1>4 DEF SaveIndex, binary, history, Targets, Nothing
<1>5. CASE Fail  BY <1>5 DEF Fail, files, binary, history, Nothing
<1>6. ASSUME NEW p \in Places, WriteManifest(p)  PROVE TypeOK'
  BY <1>6 DEF WriteManifest, binary, Kinds
<1>7. ASSUME NEW p \in Places, SpoilManifest(p)  PROVE TypeOK'
  BY <1>7, RegistrationAssumption
     DEF SpoilManifest, Edit, Touch, binary, command, Kinds
<1>8. ASSUME NEW p \in Places, NEW k \in {"missing", "foreign", "broken"},
             LoseManifest(p, k)
      PROVE  TypeOK'
  BY <1>8, RegistrationAssumption
     DEF LoseManifest, Edit, Touch, binary, command, Kinds
<1>9. CASE LoseIndex
  BY <1>9, RegistrationAssumption
     DEF LoseIndex, Edit, binary, command, history
<1>10. CASE LoseBinary
  <2>1. edits' \in 0..MaxEdits
    BY <1>10, RegistrationAssumption DEF LoseBinary, Edit
  <2> QED  BY <1>10, <2>1 DEF LoseBinary, files, command
<1>11. ASSUME NEW p \in Places, NEW C \in SUBSET Callers, RestoreManifest(p, C)
       PROVE  TypeOK'
  BY <1>11, RegistrationAssumption
     DEF RestoreManifest, Edit, Touch, binary, command, Kinds
<1>12. CASE UNCHANGED vars
  BY <1>12 DEF vars, files, binary, command, history
<1> QED
  BY <1>1, <1>2, <1>3, <1>4, <1>5, <1>6, <1>7, <1>8, <1>9, <1>10, <1>11,
     <1>12 DEF Next

\* Every step leaves the host with the callers of every manifest that the
\* tools can find.
LEMMA ServesStep ==
  ASSUME IInv, [Next]_vars
  PROVE  HostServesTracked'
<1> USE DEF HostServesTracked, OnDisk
<1>0. TypeOK /\ HostServesTracked /\ CommandInv
  BY DEF IInv
<1>1. ASSUME NEW w \in Requests, Register(w)  PROVE HostServesTracked'
  BY <1>0, <1>1 DEF Register, files, binary
<1>2. CASE CleanHost  BY <1>2 DEF CleanHost
<1>3. CASE BuildHost
  <2>1. \A p \in (Standard \cup index) \ touched : OnDisk(p) \subseteq found
    BY <1>0, <1>3 DEF CommandInv, BuildHost
  <2> QED  BY <1>3, <2>1 DEF BuildHost, files
<1>4. CASE SaveIndex
  <2>1. \A p \in Targets(wish) \ edited : OnDisk(p) \subseteq host
    BY <1>0, <1>4 DEF CommandInv, SaveIndex, Targets
  <2> QED  BY <1>0, <1>4, <2>1 DEF SaveIndex, binary, history
<1>5. CASE Fail  BY <1>0, <1>5 DEF Fail, files, binary, history
<1>6. ASSUME NEW p \in Places, WriteManifest(p)  PROVE HostServesTracked'
  <2>1. wish[p] \subseteq host
    BY <1>0, <1>6 DEF CommandInv, WriteManifest
  <2>2. /\ callers' = [callers EXCEPT ![p] = wish[p]]
        /\ kind' = [kind EXCEPT ![p] = "barq"]
        /\ edited' = edited \ {p}
        /\ UNCHANGED <<index, built, host>>
    BY <1>6 DEF WriteManifest, binary
  <2> QED  BY <1>0, <2>1, <2>2 DEF TypeOK, Places
<1>7. ASSUME NEW p \in Places, SpoilManifest(p)  PROVE HostServesTracked'
  BY <1>0, <1>7 DEF SpoilManifest, Touch, binary, TypeOK, Places
<1>8. ASSUME NEW p \in Places, NEW k \in {"missing", "foreign", "broken"},
             LoseManifest(p, k)
      PROVE  HostServesTracked'
  BY <1>0, <1>8 DEF LoseManifest, Touch, binary, TypeOK, Places
<1>9. CASE LoseIndex
  BY <1>0, <1>9 DEF LoseIndex, binary, history
<1>10. CASE LoseBinary
  BY <1>0, <1>10 DEF LoseBinary
<1>11. ASSUME NEW p \in Places, NEW C \in SUBSET Callers, RestoreManifest(p, C)
       PROVE  HostServesTracked'
  BY <1>0, <1>11 DEF RestoreManifest, Touch, binary, TypeOK, Places
<1>12. CASE UNCHANGED vars
  BY <1>0, <1>12 DEF vars, files, binary, history
<1> QED
  BY <1>1, <1>2, <1>3, <1>4, <1>5, <1>6, <1>7, <1>8, <1>9, <1>10, <1>11,
     <1>12 DEF Next

\* Every step writes and compiles only what was asked for.
LEMMA AskedStep ==
  ASSUME IInv, [Next]_vars
  PROVE  LeastPrivilege' /\ AskedInv'
<1> USE DEF LeastPrivilege, AskedInv, All
<1>0. TypeOK /\ LeastPrivilege /\ AskedInv
  BY DEF IInv
<1>1. ASSUME NEW w \in Requests, Register(w)
      PROVE  LeastPrivilege' /\ AskedInv'
  <2>1. \A p \in Places : asked'[p] = asked[p] \cup w[p]
    BY <1>1 DEF Register
  <2>2. Discover(w) \subseteq UNION {callers[p] : p \in Places}
    BY <1>0, DiscoverFinds
  <2>3. UNCHANGED <<callers, host>> /\ wish' = w /\ found' = Discover(w)
    BY <1>1 DEF Register, files, binary
  <2> QED  BY <1>0, <2>1, <2>2, <2>3
<1>2. CASE CleanHost  BY <1>0, <1>2 DEF CleanHost, files, history
<1>3. CASE BuildHost  BY <1>0, <1>3 DEF BuildHost, files
<1>4. CASE SaveIndex  BY <1>0, <1>4 DEF SaveIndex, binary, history, Nothing
<1>5. CASE Fail  BY <1>0, <1>5 DEF Fail, files, binary, history, Nothing
<1>6. ASSUME NEW p \in Places, WriteManifest(p)
      PROVE  LeastPrivilege' /\ AskedInv'
  BY <1>0, <1>6 DEF WriteManifest, binary, TypeOK
<1>7. ASSUME NEW p \in Places, SpoilManifest(p)
      PROVE  LeastPrivilege' /\ AskedInv'
  BY <1>0, <1>7 DEF SpoilManifest, binary, command
<1>8. ASSUME NEW p \in Places, NEW k \in {"missing", "foreign", "broken"},
             LoseManifest(p, k)
      PROVE  LeastPrivilege' /\ AskedInv'
  BY <1>0, <1>8 DEF LoseManifest, binary, command, TypeOK
<1>9. CASE LoseIndex
  BY <1>0, <1>9 DEF LoseIndex, binary, command, history
<1>10. CASE LoseBinary
  BY <1>0, <1>10 DEF LoseBinary, files, command
<1>11. ASSUME NEW p \in Places, NEW C \in SUBSET Callers, RestoreManifest(p, C)
       PROVE  LeastPrivilege' /\ AskedInv'
  <2>1. \A q \in Places : callers'[q] \subseteq asked'[q]
    BY <1>0, <1>11 DEF RestoreManifest, TypeOK
  <2>2. \A q \in Places : asked[q] \subseteq asked'[q]
    BY <1>0, <1>11 DEF RestoreManifest, TypeOK
  <2>3. UNCHANGED <<host, wish, found>>
    BY <1>11 DEF RestoreManifest, binary, command
  <2> QED  BY <1>0, <2>1, <2>2, <2>3
<1>12. CASE UNCHANGED vars
  BY <1>0, <1>12 DEF vars, files, binary, command, history
<1> QED
  BY <1>1, <1>2, <1>3, <1>4, <1>5, <1>6, <1>7, <1>8, <1>9, <1>10, <1>11,
     <1>12 DEF Next

\* Every step keeps what the running command relies on.
LEMMA CommandStep ==
  ASSUME IInv, [Next]_vars
  PROVE  CommandInv'
<1> USE DEF CommandInv, OnDisk
<1>0. TypeOK /\ CommandInv
  BY DEF IInv
<1>1. ASSUME NEW w \in Requests, Register(w)  PROVE CommandInv'
  <2>1. \A p \in Standard \cup index : OnDisk(p) \subseteq Discover(w)
    BY <1>0, DiscoverFinds
  <2> QED  BY <1>1, <2>1 DEF Register, files
<1>2. CASE CleanHost  BY <1>0, <1>2 DEF CleanHost, files, history
<1>3. CASE BuildHost
  <2>1. \A p \in Places : wish[p] \subseteq host'
    BY <1>3 DEF BuildHost, All
  <2>2. left = Targets(wish)
    BY <1>0, <1>3 DEF BuildHost
  <2> QED  BY <1>3, <2>1, <2>2 DEF BuildHost, files
<1>4. CASE SaveIndex  BY <1>4 DEF SaveIndex
<1>5. CASE Fail  BY <1>5 DEF Fail
<1>6. ASSUME NEW p \in Places, WriteManifest(p)  PROVE CommandInv'
  <2>1. /\ callers' = [callers EXCEPT ![p] = wish[p]]
        /\ kind' = [kind EXCEPT ![p] = "barq"]
        /\ left' = left \ {p}
        /\ touched' = touched \ {p} /\ edited' = edited \ {p}
        /\ step = "write" /\ UNCHANGED <<index, built, host, step, wish, lost>>
    BY <1>6 DEF WriteManifest, binary
  <2>2. OnDisk(p)' = wish[p]
    BY <1>0, <2>1 DEF TypeOK
  <2>3. \A q \in Places \ {p} : OnDisk(q)' = OnDisk(q)
    BY <1>0, <2>1 DEF TypeOK
  <2> QED  BY <1>0, <2>1, <2>2, <2>3 DEF Targets
<1>7. ASSUME NEW p \in Places, SpoilManifest(p)  PROVE CommandInv'
  BY <1>0, <1>7
     DEF SpoilManifest, Touch, binary, command, TypeOK, Places, Targets
<1>8. ASSUME NEW p \in Places, NEW k \in {"missing", "foreign", "broken"},
             LoseManifest(p, k)
      PROVE  CommandInv'
  BY <1>0, <1>8
     DEF LoseManifest, Touch, binary, command, TypeOK, Places, Targets
<1>9. CASE LoseIndex
  BY <1>0, <1>9 DEF LoseIndex, binary, command, history, Targets
<1>10. CASE LoseBinary
  BY <1>0, <1>10 DEF LoseBinary, files, command, Targets
<1>11. ASSUME NEW p \in Places, NEW C \in SUBSET Callers, RestoreManifest(p, C)
       PROVE  CommandInv'
  BY <1>0, <1>11
     DEF RestoreManifest, Touch, binary, command, TypeOK, Places, Targets
<1>12. CASE UNCHANGED vars
  BY <1>0, <1>12 DEF vars, files, binary, command, history, Targets
<1> QED
  BY <1>1, <1>2, <1>3, <1>4, <1>5, <1>6, <1>7, <1>8, <1>9, <1>10, <1>11,
     <1>12 DEF Next

\* The conjunction is inductive.
LEMMA IInvHolds == Spec => []IInv
<1>1. IInv /\ [Next]_vars => IInv'
  BY TypeStep, ServesStep, AskedStep, CommandStep DEF IInv
<1> QED
  BY InitInv, <1>1, PTL DEF Spec

\* The files, the binary and the command keep their shape.
THEOREM RegistrationTypes == Spec => []TypeOK
<1>1. IInv => TypeOK
  BY DEF IInv
<1> QED
  BY IInvHolds, <1>1, PTL

\* A host, whenever there is one, accepts the callers of all manifests that
\* the tools can find and nobody edited: no failed, repeated or interrupted
\* command loses one.
THEOREM CallersArePreserved == Spec => []HostServesTracked
<1>1. IInv => HostServesTracked
  BY DEF IInv
<1> QED
  BY IInvHolds, <1>1, PTL

\* No manifest and no host has a caller that nobody put there.
THEOREM PrivilegesAreLeast == Spec => []LeastPrivilege
<1>1. IInv => LeastPrivilege
  BY DEF IInv
<1> QED
  BY IInvHolds, <1>1, PTL

\* A command that reports success has registered what it was asked for.
THEOREM SuccessIsComplete == Spec => CompletedMeansServed
<1> DEFINE Served ==
      SaveIndex =>
        /\ built \/ lost
        /\ \A p \in Targets(wish) :
             /\ p \in index' /\ wish[p] \subseteq host
             /\ p \notin touched => OnDisk(p) = wish[p]
<1>1. IInv /\ [Next]_vars => [Served]_vars
  BY DEF IInv, CommandInv, SaveIndex, Targets
<1> QED
  BY IInvHolds, <1>1, PTL DEF Spec, CompletedMeansServed
==============================================================================
