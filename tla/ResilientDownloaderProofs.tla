---------------------- MODULE ResilientDownloaderProofs ----------------------
(***************************************************************************)
(* What is proved of ResilientDownloader for files of any length, in any   *)
(* number of segments, sessions, versions and crashes: that its state has  *)
(* the shape TypeOK gives it, that what state.json counts as downloaded    *)
(* survives a crash and a power loss, and that what a session publishes is *)
(* one version of the file, the one whose ETag it validated.               *)
(***************************************************************************)
EXTENDS ResilientDownloader, SetInduction, SequenceTheorems

-----------------------------------------------------------------------------
(***************************************************************************)
(* The inductive invariant.                                                *)
(***************************************************************************)
\* No file is longer than the one on the server, and a late job writes
\* inside of it.
Bounded ==
  /\ part # NoFile => Len(part) <= Size
  /\ durable # NoFile => Len(durable) <= Size
  /\ saved # NoFile => Len(saved.segs) <= Parts
  /\ \A j \in late :
       /\ j.kind = "write" => j.at \in Blocks /\ j.val \in Versions
       /\ j = Job(j.kind, j.at, j.val)

Active(s) == conn[s] \in {"open", "busy", "wrote"}

\* One segment, of the whole file, or none yet.
Single(map) ==
  map = <<>> \/ (Len(map) = 1 /\ map[1].start = 1 /\ map[1].end = Size)

\* Who may be doing what in which phase of a session.
Control ==
  /\ pc = "idle" => etag = NoTag /\ segs = <<>>
  /\ saver # "off" => pc \in {"range", "stream", "replace", "replaced", "parting"}
  /\ ~Transferring => TasksOver
  /\ ranged => etag # NoTag
  /\ pc \in {"truncate", "extend"} => segs = <<>>
  /\ pc \in {"truncate", "extend", "allocated"} =>
       /\ etag = NoTag => segs = <<>>
       /\ ~ranged => Single(segs) /\ (segs = <<>> => parts = 1)
  /\ pc = "range" =>
       /\ etag # NoTag
       /\ \A s \in 1..Parts : conn[s] # "off" =>
            /\ s <= Len(segs)
            /\ conn[s] \in {"busy", "wrote"} => segs[s].current <= segs[s].end
  /\ pc = "stream" =>
       /\ Single(segs)
       /\ \A s \in 1..Parts : s # 1 => conn[s] = "off"
       /\ conn[1] \notin {"off", "ask"} => segs # <<>>
       /\ conn[1] \in {"busy", "wrote"} => goal <= pos /\ pos <= Size
       /\ conn[1] = "ask" /\ etag = NoTag /\ segs # <<>> => segs[1].current = 1

\* What a session found on disk is still there while it probes.
Loaded ==
  pc = "probe" =>
    \/ segs = <<>> /\ etag = NoTag
    \/ /\ saved # NoFile /\ etag = saved.etag /\ segs = saved.segs
       /\ CoversFile(segs)

Tagged == saved # NoFile /\ saved.etag # NoTag

\* No version is ahead of the server's, and a late write carries the version of
\* the state it could harm, or an older one.
Order ==
  /\ etag # NoTag => etag <= server
  /\ Tagged => saved.etag <= server
  /\ \A s \in 1..Parts : body[s] <= server
  /\ \A j \in late : j.kind = "write" =>
       /\ j.val <= server
       /\ pc \notin {"idle", "probe"} /\ etag # NoTag => j.val <= etag
       /\ Tagged /\ ~outdated => j.val <= saved.etag
  /\ pc \notin {"idle", "probe"} /\ etag # NoTag /\ Tagged => saved.etag <= etag
  /\ pc \notin {"idle", "probe", "truncate"} =>
       saved = NoFile \/ outdated \/ saved.etag = etag
  /\ pc = "extend" => saved = NoFile \/ outdated
  /\ Transferring /\ etag # NoTag =>
       \A s \in 1..Parts : Active(s) => body[s] = etag

\* The file holds version v wherever the map says it was downloaded.
Holds(file, map, v) ==
  \A b \in Claimed(map) : b \in 1..Len(file) /\ file[b] = v

Sound == ~misled /\ ~struck /\ part # NoFile

\* The version that the session is downloading.
Fetched == IF etag # NoTag THEN etag ELSE body[1]

\* What the session counts as downloaded is in .part.
PartHolds == Sound /\ pc \notin {"idle", "probe"} => Holds(part, segs, Fetched)

\* So is a block that was written and not counted yet ...
RangeHolds ==
  Sound /\ pc = "range" =>
    \A s \in 1..Parts : conn[s] = "wrote" =>
      segs[s].current \in 1..Len(part) /\ part[segs[s].current] = etag

\* ... and everything before the position of a stream.
StreamHolds ==
  Sound /\ pc = "stream" /\ Active(1) =>
    \A b \in Blocks :
      b < pos \/ b < goal \/ (b = pos /\ conn[1] = "wrote") =>
        b \in 1..Len(part) /\ part[b] = body[1]

\* While a save holds the event loop, what it is about to count is synced.
SaveHolds ==
  Sound /\ saver = "saving" /\ etag # NoTag =>
    durable # NoFile /\ Holds(durable, segs, etag)

\* What state.json counts is in .part, now and as it was last synced.
SavedHolds ==
  Sound /\ Tagged /\ CoversFile(saved.segs) /\ ~outdated =>
    /\ durable # NoFile
    /\ Holds(durable, saved.segs, saved.etag)
    /\ Holds(part, saved.segs, saved.etag)

\* A file that is verified and not yet renamed.
ReplaceHolds ==
  Sound /\ pc = "replace" =>
    \E v \in Versions : part = Whole(v) /\ (etag # NoTag => v = etag)

Data ==
  /\ PartHolds /\ RangeHolds /\ StreamHolds /\ SaveHolds /\ SavedHolds
  /\ ReplaceHolds

DownloadInv == TypeOK /\ Bounded /\ Control /\ Loaded /\ Order /\ Data

-----------------------------------------------------------------------------
(***************************************************************************)
(* The operators of the model.                                             *)
(***************************************************************************)
Files == Seq(Content)

\* What the assumption on the constants comes to.
LEMMA ConstantsAreSmall ==
  /\ Size \in Nat /\ Size >= 1 /\ Parts \in Nat /\ 1 <= Parts /\ Parts <= Size
  /\ 1 \in Versions /\ Versions \subseteq Content /\ Versions \subseteq Nat
  /\ NoFile \notin Files /\ NoTag \notin Nat /\ Zero \in Content
<1>1. Content = 0..MaxVersion
  BY ConstantsAssumption DEF Content, Versions, Zero
<1> QED
  BY <1>1, ConstantsAssumption DEF Versions, Files, Zero

\* A write of one block changes that block and leaves the others; a gap reads as
\* zeros (write_chunk).
LEMMA PutWritesOneBlock ==
  ASSUME NEW f \in Files, NEW b \in Blocks, NEW v \in Content
  PROVE  /\ Put(f, b, v) \in Files
         /\ Len(Put(f, b, v)) = IF b > Len(f) THEN b ELSE Len(f)
         /\ b \in 1..Len(Put(f, b, v)) /\ Put(f, b, v)[b] = v
         /\ \A i \in 1..Len(f) :
              i # b => i \in 1..Len(Put(f, b, v)) /\ Put(f, b, v)[i] = f[i]
<1> DEFINE n == IF b > Len(f) THEN b ELSE Len(f)
           g == [i \in 1..n |-> IF i = b THEN v
                                ELSE IF i <= Len(f) THEN f[i] ELSE Zero]
<1>1. Len(f) \in Nat /\ b \in Nat /\ 1 <= b
  BY ConstantsAreSmall DEF Files, Blocks
<1>2. n \in Nat /\ b <= n /\ Len(f) <= n
  BY <1>1
<1>3. \A i \in 1..n : (IF i = b THEN v
                       ELSE IF i <= Len(f) THEN f[i] ELSE Zero) \in Content
  BY <1>1, <1>2, ConstantsAreSmall, ElementOfSeq DEF Files
<1>4. g \in [1..n -> Content]
  BY <1>3
<1>5. g \in Seq(Content) /\ Len(g) = n
  BY <1>2, <1>4
<1>6. Put(f, b, v) = g
  BY DEF Put
<1> HIDE DEF g
<1>7. g[b] = v /\ \A i \in 1..Len(f) : i # b => g[i] = f[i]
  BY <1>1, <1>2 DEF g
<1> QED
  BY <1>1, <1>2, <1>5, <1>6, <1>7 DEF Files

\* What a file holds of a version, it still holds after a block of that version
\* is written, wherever that is.
LEMMA PutKeepsVersion ==
  ASSUME NEW f \in Files, NEW b \in Blocks, NEW v \in Content, NEW map,
         Holds(f, map, v)
  PROVE  Holds(Put(f, b, v), map, v)
  BY PutWritesOneBlock DEF Holds

\* The file on the server, of one version throughout, and when another file is it.
LEMMA WholeIsAFile ==
  ASSUME NEW v \in Content
  PROVE  /\ Whole(v) \in Files /\ Len(Whole(v)) = Size
         /\ \A b \in Blocks : Whole(v)[b] = v
<1>1. Whole(v) \in [1..Size -> Content]
  BY DEF Whole, Blocks
<1> QED
  BY <1>1, ConstantsAreSmall DEF Files, Whole, Blocks

LEMMA WholeIfAllBlocks ==
  ASSUME NEW f \in Files, NEW v \in Content, Len(f) = Size,
         \A b \in Blocks : f[b] = v
  PROVE  f = Whole(v)
<1>1. Len(Whole(v)) = Len(f) /\ \A b \in 1..Len(f) : f[b] = Whole(v)[b]
  BY WholeIsAFile, ConstantsAreSmall DEF Blocks
<1> QED
  BY <1>1, WholeIsAFile, SeqEqual DEF Files

\* A block of a version that is written into that version changes nothing.
LEMMA PutInWhole ==
  ASSUME NEW v \in Content, NEW b \in Blocks
  PROVE  Put(Whole(v), b, v) = Whole(v)
<1> DEFINE f == Whole(v)
           g == Put(f, b, v)
<1>1. f \in Files /\ Len(f) = Size /\ \A i \in Blocks : f[i] = v
  BY WholeIsAFile
<1>2. b \in 1..Size /\ Size \in Nat
  BY ConstantsAreSmall DEF Blocks
<1> HIDE DEF f
<1>3. /\ g \in Files /\ Len(g) = IF b > Len(f) THEN b ELSE Len(f)
      /\ g[b] = v /\ \A i \in 1..Len(f) : i # b => g[i] = f[i]
  BY <1>1, PutWritesOneBlock
<1> HIDE DEF g
<1>4. Len(g) = Size /\ \A i \in Blocks : g[i] = v
  BY <1>1, <1>2, <1>3 DEF Blocks
<1>5. g = Whole(v)
  BY <1>3, <1>4, WholeIfAllBlocks
<1> QED
  BY <1>5 DEF f, g

\* The empty map, and a fresh one, claim nothing.
LEMMA EmptyClaimsNothing ==
  Claimed(<<>>) = {}
  BY DEF Claimed

Advanced(map, s, c, d) == [map EXCEPT ![s] = Progress(map[s], c, d)]

\* A segment that goes on claims the blocks it goes over, the others what they did.
LEMMA ProgressClaims ==
  ASSUME NEW map \in Seq(Segment), NEW s \in 1..Len(map),
         NEW c \in 1..(Size + 1), NEW d \in BOOLEAN,
         NEW new, new = Advanced(map, s, c, d)
  PROVE  /\ new \in Seq(Segment) /\ Len(new) = Len(map)
         /\ new[s].start = map[s].start /\ new[s].end = map[s].end
         /\ new[s].current = c
         /\ \A i \in 1..Len(map) : i # s => new[i] = map[i]
         /\ \A b \in Claimed(new) :
              b \in Claimed(map) \/ (b \in map[s].start .. (c - 1))
<1> DEFINE seg == Progress(map[s], c, d)
<1>1. map[s] \in Segment
  BY ElementOfSeq
<1>2. /\ seg \in Segment /\ seg.start = map[s].start /\ seg.end = map[s].end
      /\ seg.current = c
  BY <1>1 DEF Segment, Progress
<1> HIDE DEF seg
<1>3. /\ new \in Seq(Segment) /\ Len(new) = Len(map)
      /\ \A j \in 1..Len(map) : new[j] = IF j = s THEN seg ELSE map[j]
  <2>1. new = [map EXCEPT ![s] = seg]
    BY DEF seg, Advanced
  <2> QED
    BY <1>2, <2>1, ExceptSeq
<1>4. ASSUME NEW b \in Claimed(new)
      PROVE  b \in Claimed(map) \/ (b \in map[s].start .. (c - 1))
  <2>1. PICK i \in 1..Len(new) : b \in new[i].start .. (new[i].current - 1)
    BY <1>4 DEF Claimed
  <2>2. CASE i = s
    BY <1>2, <1>3, <2>1, <2>2
  <2>3. CASE i # s
    BY <1>3, <2>1, <2>3 DEF Claimed
  <2> QED
    BY <2>2, <2>3
<1> QED
  BY <1>2, <1>3, <1>4

\* A fresh map has as many segments as parts and counts nothing as downloaded.
LEMMA SplitIsAMap ==
  ASSUME NEW n \in 1..Parts
  PROVE  /\ Split(n) \in Seq(Segment) /\ Len(Split(n)) = n
         /\ Claimed(Split(n)) = {}
         /\ n = 1 => /\ Single(Split(n)) /\ Split(n) # <<>>
                     /\ Split(n)[1].current = 1
<1> DEFINE chunk == Size \div n
           first(i) == (i - 1) * chunk + 1
           seg(i) == [start |-> first(i),
                      end   |-> IF i < n THEN first(i) + chunk - 1 ELSE Size,
                      current |-> first(i), done |-> FALSE]
<1>1. n \in Nat /\ 1 <= n /\ n <= Size /\ Size \in Nat
  BY ConstantsAreSmall
<1>2. chunk \in Nat /\ 1 <= chunk /\ n * chunk <= Size
  BY <1>1
<1> HIDE DEF chunk
<1>3. ASSUME NEW i \in 1..n
      PROVE  seg(i) \in Segment
  <2> DEFINE k == i - 1
  <2>1. k \in Nat /\ k <= n - 1
    BY <1>1
  <2>2. k * chunk \in Nat /\ k * chunk <= (n - 1) * chunk
    BY <1>1, <1>2, <2>1
  <2>3. (n - 1) * chunk = n * chunk - chunk
    BY <1>1, <1>2
  <2>4. first(i) = k * chunk + 1
    OBVIOUS
  <2> HIDE DEF k
  <2>5. n * chunk \in Nat
    BY <1>1, <1>2
  <2>6. first(i) \in 1..Size /\ first(i) + chunk - 1 \in 1..Size
    BY <1>1, <1>2, <2>2, <2>3, <2>4, <2>5
  <2> HIDE DEF first
  <2> QED
    BY <1>1, <2>6 DEF Segment, Blocks
<1>4. Split(n) = [i \in 1..n |-> seg(i)]
  BY DEF Split, chunk
<1> DEFINE map == [i \in 1..n |-> seg(i)]
<1>5. map \in [1..n -> Segment]
  BY <1>3
<1>6. map \in Seq(Segment) /\ Len(map) = n
  BY <1>1, <1>5
<1>7. \A i \in 1..n : map[i].start = first(i) /\ map[i].current = first(i)
  OBVIOUS
<1>8. \A i \in 1..n : first(i) \in Int
  BY <1>1, <1>2
<1>9. ASSUME n = 1
      PROVE  map[1].start = 1 /\ map[1].end = Size /\ map[1].current = 1
  <2>1. map[1] = seg(1)
    BY <1>1
  <2>2. first(1) = 1
    BY <1>2
  <2> QED
    BY <1>9, <2>1, <2>2
<1> HIDE DEF map, first
<1>10. Claimed(map) = {}
  BY <1>6, <1>7, <1>8 DEF Claimed
<1>11. n = 1 => Single(map) /\ map # <<>> /\ map[1].current = 1
  BY <1>6, <1>9 DEF Single
<1> QED
  BY <1>4, <1>6, <1>10, <1>11 DEF map

\* A map that covers the file without a gap, all of whose segments are done,
\* claims every block (_segments_cover_file, _assert_complete_transfer).
LEMMA CoverIsWhole ==
  ASSUME NEW map \in Seq(Segment), CoversFile(map),
         \A i \in 1..Len(map) : map[i].done
  PROVE  Blocks \subseteq Claimed(map)
<1>1. /\ Len(map) \in Nat /\ 1 <= Len(map)
      /\ \A i \in 1..Len(map) :
           /\ map[i].start \in Nat /\ map[i].end \in Nat
           /\ map[i].current = map[i].end + 1
  <2>1. Len(map) \in Nat /\ 1 <= Len(map)
    BY EmptySeq DEF CoversFile
  <2>2. \A i \in 1..Len(map) : map[i] \in Segment
    BY ElementOfSeq
  <2>3. \A i \in 1..Len(map) : map[i].start \in Nat /\ map[i].end \in Nat
    <3>1. \A e \in Segment : e.start \in Nat /\ e.end \in Nat
      BY ConstantsAreSmall DEF Segment, Blocks
    <3> QED
      BY <2>2, <3>1
  <2>4. \A i \in 1..Len(map) : map[i].current = map[i].end + 1
    BY <2>1 DEF CoversFile
  <2> QED
    BY <2>1, <2>3, <2>4
<1>2. /\ map[1].start = 1 /\ map[Len(map)].end = Size
      /\ \A i \in 2..Len(map) : map[i].start = map[i - 1].end + 1
  BY <1>1 DEF CoversFile
<1> DEFINE T == {n \in Nat : n + 1 \in 1..Len(map) =>
                   \A b \in Nat : 1 <= b /\ b <= map[n + 1].end =>
                     b \in Claimed(map)}
<1>3. ASSUME NEW i \in 1..Len(map), NEW b \in map[i].start .. map[i].end
      PROVE  b \in Claimed(map)
  <2>1. b \in map[i].start .. (map[i].current - 1)
    BY <1>1, <1>3
  <2> QED
    BY <2>1 DEF Claimed
<1>4. 0 \in T
  BY <1>1, <1>2, <1>3
<1>5. ASSUME NEW n \in Nat, n \in T
      PROVE  n + 1 \in T
  <2>1. SUFFICES ASSUME n + 2 \in 1..Len(map), NEW b \in Nat,
                        1 <= b, b <= map[n + 2].end
                 PROVE  b \in Claimed(map)
    OBVIOUS
  <2>2. n + 1 \in 1..Len(map) /\ n + 2 \in 2..Len(map)
    BY <1>1, <2>1
  <2>3. map[n + 2].start = map[n + 1].end + 1
    BY <1>2, <2>2
  <2>4. CASE b <= map[n + 1].end
    BY <1>5, <2>1, <2>2, <2>4
  <2>5. CASE b > map[n + 1].end
    <3>1. b \in map[n + 2].start .. map[n + 2].end
      BY <1>1, <2>1, <2>2, <2>3, <2>5
    <3> QED
      BY <1>3, <2>1, <3>1
  <2> QED
    BY <1>1, <2>2, <2>4, <2>5
<1> HIDE DEF T
<1>6. Nat \subseteq T
  BY <1>4, <1>5, Induction
<1>7. Len(map) - 1 \in T
  BY <1>1, <1>6
<1> QED
  BY <1>1, <1>2, <1>7, ConstantsAreSmall DEF T, Blocks

-----------------------------------------------------------------------------
(***************************************************************************)
(* The invariant holds at first, and every step keeps it.  Steps that do   *)
(* the same to the state are taken together.                               *)
(***************************************************************************)
LEMMA InitEstablishesInv == Init => DownloadInv
<1> SUFFICES ASSUME Init
             PROVE  DownloadInv
  OBVIOUS
<1>1. TypeOK
  <2>1. 0 \in 0..(MaxTries - 1) /\ 0 \in 0..MaxSessions /\ 0 \in 0..MaxCrashes
    BY ConstantsAssumption
  <2>2. tries \in [1..Parts -> 0..(MaxTries - 1)] /\ body \in [1..Parts -> Versions]
    BY <2>1, ConstantsAreSmall DEF Init, NoTasks
  <2>3. segs \in Seq(Segment) /\ Len(segs) = 0
    BY EmptySeq DEF Init
  <2>4. conn \in [1..Parts -> {"off", "ask", "open", "busy", "wrote", "broke"}]
    BY DEF Init, NoTasks
  <2>5. 1 \in 1..(Size + 1) /\ Parts \in 1..Parts /\ 0 <= Parts
    BY ConstantsAreSmall
  <2> QED
    BY <2>1, <2>2, <2>3, <2>4, <2>5, ConstantsAreSmall DEF Init, TypeOK, Tags
<1>2. Bounded /\ Loaded
  BY DEF Init, Bounded, Loaded
<1>3. Control
  BY DEF Init, Control, TasksOver, NoTasks, Transferring
<1>4. Order
  BY ConstantsAreSmall DEF Init, Order, Tagged, Transferring
<1>5. Data
  BY DEF Init, Data, PartHolds, RangeHolds, StreamHolds, SaveHolds, SavedHolds,
         ReplaceHolds, Sound, Tagged
<1> QED
  BY <1>1, <1>2, <1>3, <1>4, <1>5 DEF DownloadInv

\* Stop, StopEarly, and a step of another component: no data, no task changes.
LEMMA StopKeepsInv ==
  ASSUME DownloadInv, Stop \/ StopEarly \/ UNCHANGED vars
  PROVE  DownloadInv'
<1>1. /\ UNCHANGED <<files, pc, etag, ranged, parts, segs, conn, tries, pos,
                     goal, body, saver, late, history>>
      /\ stop' \in {"no", "flag", "asked"}
  BY DEF Stop, StopEarly, vars, session, DownloadInv, TypeOK
<1>2. TypeOK' /\ Bounded'
  BY <1>1 DEF DownloadInv, TypeOK, Bounded, files, history
<1>3. Control' /\ Loaded'
  BY <1>1 DEF DownloadInv, Control, Loaded, files, history, TasksOver,
              Transferring
<1>4. Order'
  BY <1>1 DEF DownloadInv, Order, Active, Tagged, Transferring, files, history
<1>5. Data'
  BY <1>1 DEF DownloadInv, Data, PartHolds, RangeHolds, StreamHolds, SaveHolds,
         SavedHolds, ReplaceHolds, Sound, Tagged, Fetched, Active, Holds,
         files, history
<1> QED
  BY <1>2, <1>3, <1>4, <1>5 DEF DownloadInv

\* What the invariant says of a job that outlives its task.
JobFits(j) ==
  /\ j.kind \in {"write", "truncate", "extend", "replace"}
  /\ j = Job(j.kind, j.at, j.val)
  /\ j.kind = "write" =>
       /\ j.at \in Blocks /\ j.val \in Versions /\ j.val <= server
       /\ Tagged /\ ~outdated => j.val <= saved.etag
       /\ pc \notin {"idle", "probe"} /\ etag # NoTag => j.val <= etag

\* The jobs of cancelled tasks are such jobs.
LEMMA LateJobsFit ==
  ASSUME DownloadInv
  PROVE  \A j \in late : JobFits(j)
  BY DEF DownloadInv, TypeOK, Bounded, Order, JobFits

\* A write that is in flight is inside of the file and carries the version of
\* the session.
LEMMA WritesInFlightFit ==
  ASSUME DownloadInv, NEW s \in 1..Parts, conn[s] = "busy"
  PROVE  /\ Transferring /\ Position(s) \in Blocks /\ body[s] \in Versions
         /\ body[s] <= server
         /\ body[s] = Fetched
         /\ Tagged /\ ~outdated => body[s] = saved.etag
<1>1. Transferring
  BY DEF DownloadInv, Control, TasksOver
<1>2. body[s] \in Versions /\ body[s] <= server /\ segs \in Seq(Segment)
  BY DEF DownloadInv, TypeOK, Order
<1>3. etag # NoTag => body[s] = etag
  BY <1>1 DEF DownloadInv, Order, Active
<1>4. CASE pc = "range"
  <2>1. etag # NoTag /\ s \in 1..Len(segs) /\ segs[s].current <= segs[s].end
    BY <1>4, <1>2 DEF DownloadInv, Control
  <2>2. segs[s] \in Segment
    BY <1>2, <2>1, ElementOfSeq
  <2>3. Position(s) \in Blocks
    BY <1>4, <2>1, <2>2, ConstantsAreSmall DEF Position, Segment, Blocks
  <2> QED
    BY <1>1, <1>2, <1>3, <1>4, <2>1, <2>3 DEF Fetched, DownloadInv, Order, Tagged
<1>5. CASE pc = "stream"
  <2>1. s = 1 /\ pos <= Size /\ pos \in 1..(Size + 1)
    BY <1>5 DEF DownloadInv, Control, TypeOK
  <2>2. Position(s) \in Blocks
    BY <1>5, <2>1, ConstantsAreSmall DEF Position, Blocks
  <2>3. body[s] = Fetched
    BY <1>3, <2>1 DEF Fetched
  <2>4. Tagged /\ ~outdated => saved.etag = etag /\ etag # NoTag
    BY <1>5 DEF DownloadInv, Order, Tagged
  <2> QED
    BY <1>1, <1>2, <1>3, <2>2, <2>3, <2>4
<1> QED
  BY <1>1, <1>4, <1>5 DEF Transferring

\* So do the jobs that the end of a session leaves in the pool.
LEMMA JobsInFlightFit ==
  ASSUME DownloadInv
  PROVE  /\ \A j \in WritesInFlight : JobFits(j) /\ j.kind = "write"
         /\ \A j \in JobsInFlight : JobFits(j)
<1>1. ASSUME NEW j \in WritesInFlight
      PROVE  JobFits(j) /\ j.kind = "write"
  <2>1. PICK s \in 1..Parts :
          conn[s] = "busy" /\ j = Job("write", Position(s), body[s])
    BY DEF WritesInFlight
  <2>2. j.kind = "write" /\ j.at = Position(s) /\ j.val = body[s]
    BY <2>1 DEF Job
  <2>3. /\ Position(s) \in Blocks /\ body[s] \in Versions /\ body[s] <= server
        /\ body[s] = Fetched
        /\ Tagged /\ ~outdated => body[s] = saved.etag
    BY <2>1, WritesInFlightFit
  <2>4. body[s] <= body[s]
    <3>1. body[s] \in Nat
      BY <2>3, ConstantsAreSmall
    <3> QED
      BY <3>1
  <2> QED
    BY <2>1, <2>2, <2>3, <2>4 DEF JobFits, Fetched
<1>2. ASSUME NEW j \in JobsInFlight
      PROVE  JobFits(j)
  <2>1. CASE pc \in {"truncate", "extend", "replace"}
    <3>1. j = Job(pc, 1, Zero)
      BY <2>1 DEF JobsInFlight
    <3>2. j.kind = pc /\ j.at = 1 /\ j.val = Zero
      BY <3>1 DEF Job
    <3> QED
      BY <2>1, <3>1, <3>2 DEF JobFits
  <2>2. CASE pc \notin {"truncate", "extend", "replace"}
    BY <1>1, <2>2 DEF JobsInFlight
  <2> QED
    BY <2>1, <2>2
<1> QED
  BY <1>1, <1>2

\* What TypeOK says of a session, which its end establishes.
SessionTyped ==
  /\ pc \in {"idle", "probe", "truncate", "extend", "allocated", "range", "stream",
             "replace", "replaced", "parting"}
  /\ etag \in Tags /\ ranged \in BOOLEAN /\ parts \in 1..Parts
  /\ segs \in Seq(Segment) /\ Len(segs) <= Parts
  /\ conn \in [1..Parts -> {"off", "ask", "open", "busy", "wrote", "broke"}]
  /\ tries \in [1..Parts -> 0..(MaxTries - 1)]
  /\ pos \in 1..(Size + 1) /\ goal \in 1..(Size + 1)
  /\ body \in [1..Parts -> Versions]
  /\ saver \in {"off", "first", "wait", "saving"}
  /\ stop \in {"no", "flag", "asked"}

\* End sets every variable of the session.
LEMMA EndIsTyped ==
  ASSUME End
  PROVE  SessionTyped'
<1>1. /\ pc' = "idle" /\ conn' = NoTasks /\ tries' = [s \in 1..Parts |-> 0]
      /\ segs' = <<>> /\ etag' = NoTag /\ ranged' = FALSE /\ parts' = Parts
      /\ pos' = 1 /\ goal' = 1 /\ body' = [s \in 1..Parts |-> 1]
      /\ saver' = "off" /\ stop' = "no"
  BY DEF End
<1>2. 0 \in 0..(MaxTries - 1)
  BY ConstantsAssumption
<1>3. tries' \in [1..Parts -> 0..(MaxTries - 1)] /\ body' \in [1..Parts -> Versions]
  BY <1>1, <1>2, ConstantsAreSmall
<1>4. segs' \in Seq(Segment) /\ Len(segs') <= Parts
  BY <1>1, EmptySeq, ConstantsAreSmall
<1>5. conn' \in [1..Parts -> {"off", "ask", "open", "busy", "wrote", "broke"}]
  BY <1>1 DEF NoTasks
<1>6. 1 \in 1..(Size + 1) /\ Parts \in 1..Parts
  BY ConstantsAreSmall
<1> QED
  BY <1>1, <1>3, <1>4, <1>5, <1>6 DEF SessionTyped, Tags

\* The end of a session that leaves the files alone, whatever is left in the pool.
LEMMA EndKeepsInv ==
  ASSUME DownloadInv, End, UNCHANGED <<files, outdated, misled, struck>>,
         late' \subseteq late \cup JobsInFlight,
         runs' = runs, crashes' \in 0..MaxCrashes
  PROVE  DownloadInv'
<1>1. /\ pc' = "idle" /\ conn' = NoTasks /\ tries' = [s \in 1..Parts |-> 0]
      /\ segs' = <<>> /\ etag' = NoTag /\ ranged' = FALSE /\ parts' = Parts
      /\ pos' = 1 /\ goal' = 1 /\ body' = [s \in 1..Parts |-> 1]
      /\ saver' = "off" /\ stop' = "no"
  BY DEF End
<1>2. /\ server' = server /\ part' = part /\ durable' = durable /\ saved' = saved
      /\ dest' = dest /\ outdated' = outdated /\ misled' = misled
      /\ struck' = struck
  BY DEF files
<1>3. \A j \in late' : JobFits(j)
  BY LateJobsFit, JobsInFlightFit
<1>4. TypeOK'
  <2>1. SessionTyped'
    BY EndIsTyped
  <2>2. \A j \in late' : j.kind \in {"write", "truncate", "extend", "replace"}
    BY <1>3 DEF JobFits
  <2> QED
    BY <1>1, <1>2, <2>1, <2>2 DEF DownloadInv, TypeOK, SessionTyped
<1>5. Bounded'
  BY <1>2, <1>3 DEF DownloadInv, Bounded, JobFits
<1>6. Control' /\ Loaded'
  BY <1>1 DEF Control, Loaded, TasksOver, NoTasks, Transferring
<1>7. Order'
  <2>1. \A s \in 1..Parts : body'[s] <= server
    BY <1>1, ConstantsAreSmall DEF DownloadInv, TypeOK, Versions
  <2> QED
    BY <1>1, <1>2, <1>3, <2>1 DEF DownloadInv, Order, JobFits, Tagged,
                                  Transferring
<1>8. Data'
  BY <1>1, <1>2 DEF DownloadInv, Data, PartHolds, RangeHolds, StreamHolds,
                    SaveHolds, SavedHolds, ReplaceHolds, Sound, Tagged, Holds
<1> QED
  BY <1>4, <1>5, <1>6, <1>7, <1>8 DEF DownloadInv

\* The last save of a session begins: .part is synced as it is.
LEMMA LastSaveKeepsInv ==
  ASSUME DownloadInv, pc \notin {"idle", "probe", "truncate"}, BeginLastSave,
         UNCHANGED <<server, part, saved, dest, history>>
  PROVE  DownloadInv'
<1>1. /\ pc' = "parting" /\ saver' = "saving" /\ durable' = part
      /\ conn' = NoTasks /\ tries' = [s \in 1..Parts |-> 0]
      /\ late' \subseteq late \cup JobsInFlight
      /\ UNCHANGED <<etag, ranged, parts, segs, pos, goal, body, stop>>
  BY DEF BeginLastSave
<1>2. /\ server' = server /\ part' = part /\ saved' = saved /\ dest' = dest
      /\ outdated' = outdated /\ misled' = misled /\ struck' = struck
      /\ runs' = runs /\ crashes' = crashes
  BY DEF history
<1>3. \A j \in late' : JobFits(j)
  BY <1>1, LateJobsFit, JobsInFlightFit
<1>4. TypeOK'
  <2>1. 0 \in 0..(MaxTries - 1)
    BY ConstantsAssumption
  <2>2. tries' \in [1..Parts -> 0..(MaxTries - 1)]
    BY <1>1, <2>1
  <2>4. conn' \in [1..Parts -> {"off", "ask", "open", "busy", "wrote", "broke"}]
    BY <1>1 DEF NoTasks
  <2>6. \A j \in late' : j.kind \in {"write", "truncate", "extend", "replace"}
    BY <1>3 DEF JobFits
  <2> QED
    BY <1>1, <1>2, <2>2, <2>4, <2>6 DEF DownloadInv, TypeOK
<1>5. Bounded'
  BY <1>1, <1>2, <1>3 DEF DownloadInv, Bounded, JobFits
<1>6. Control' /\ Loaded'
  BY <1>1 DEF DownloadInv, Control, Loaded, TasksOver, NoTasks, Transferring
<1>7. Order'
  BY <1>1, <1>2, <1>3 DEF DownloadInv, Order, JobFits, Tagged, Transferring
<1>8. Data'
  <2>1. PartHolds' /\ SavedHolds'
    BY <1>1, <1>2 DEF DownloadInv, Data, PartHolds, SavedHolds, Sound, Tagged,
                      Fetched, Holds
  <2>2. SaveHolds'
    BY <1>1, <1>2 DEF DownloadInv, Data, PartHolds, SaveHolds, Sound, Fetched,
                      Holds
  <2>3. RangeHolds' /\ StreamHolds' /\ ReplaceHolds'
    BY <1>1 DEF RangeHolds, StreamHolds, ReplaceHolds
  <2> QED
    BY <2>1, <2>2, <2>3 DEF Data
<1> QED
  BY <1>4, <1>5, <1>6, <1>7, <1>8 DEF DownloadInv

\* A session starts: it believes what is on disk, or nothing.
LEMMA StartKeepsInv ==
  ASSUME DownloadInv, Start
  PROVE  DownloadInv'
<1>1. /\ pc = "idle" /\ pc' = "probe" /\ runs' = runs + 1 /\ runs < MaxSessions
      /\ UNCHANGED <<files, ranged, conn, tries, pos, goal, body, saver, stop,
                     late, crashes, outdated, misled, struck>>
      /\ \/ /\ Loadable /\ etag' = saved.etag /\ segs' = saved.segs
            /\ parts' = Len(saved.segs)
         \/ parts' \in 1..Parts /\ UNCHANGED <<etag, segs>>
  BY DEF Start
<1>2. /\ etag' \in Tags /\ segs' \in Seq(Segment) /\ Len(segs') <= Parts
      /\ parts' \in 1..Parts /\ (etag' # NoTag => etag' <= server)
      /\ Loaded'
  <2>1. CASE /\ Loadable /\ etag' = saved.etag /\ segs' = saved.segs
             /\ parts' = Len(saved.segs)
    <3>1. saved # NoFile /\ CoversFile(saved.segs)
      BY <2>1 DEF Loadable
    <3>2. saved.etag \in Tags /\ saved.segs \in Seq(Segment)
          /\ Len(saved.segs) <= Parts
      BY <3>1 DEF DownloadInv, TypeOK, Bounded
    <3>3. Len(saved.segs) \in 1..Parts
      BY <3>1, <3>2, EmptySeq, ConstantsAreSmall DEF CoversFile
    <3>4. etag' # NoTag => etag' <= server
      BY <2>1, <3>1 DEF DownloadInv, Order, Tagged
    <3> QED
      BY <1>1, <2>1, <3>1, <3>2, <3>3, <3>4 DEF Loaded, files
  <2>2. CASE parts' \in 1..Parts /\ UNCHANGED <<etag, segs>>
    BY <1>1, <2>2 DEF DownloadInv, TypeOK, Order, Loaded, Control
  <2> QED
    BY <1>1, <2>1, <2>2
<1>3. TypeOK'
  <2>1. runs' \in 0..MaxSessions
    BY <1>1, ConstantsAssumption DEF DownloadInv, TypeOK
  <2> QED
    BY <1>1, <1>2, <2>1 DEF DownloadInv, TypeOK, files
<1>4. Bounded'
  BY <1>1 DEF DownloadInv, Bounded, files
<1>5. Control'
  BY <1>1 DEF DownloadInv, Control, TasksOver, Transferring
<1>6. Order'
  BY <1>1, <1>2 DEF DownloadInv, Order, Tagged, Transferring, files
<1>7. Data'
  BY <1>1 DEF DownloadInv, Data, PartHolds, RangeHolds, StreamHolds, SaveHolds,
              SavedHolds, ReplaceHolds, Control, Sound, Tagged, Holds, files
<1> QED
  BY <1>2, <1>3, <1>4, <1>5, <1>6, <1>7 DEF DownloadInv

\* The session resumes what it loaded, or resets it.
LEMMA ProbeAnswersKeepsInv ==
  ASSUME DownloadInv, NEW tag, NEW ranges \in BOOLEAN, ProbeAnswers(tag, ranges)
  PROVE  DownloadInv'
<1> DEFINE safe == ranges /\ tag # NoTag
           resumes == /\ segs # <<>>
                      /\ tag # NoTag /\ tag = etag
                      /\ safe \/ Len(segs) = 1
<1>1. /\ pc = "probe" /\ tag \in {server, NoTag} /\ etag' = tag /\ ranged' = safe
      /\ UNCHANGED <<files, conn, tries, pos, goal, body, saver, stop, late, runs,
                     crashes, outdated, struck>>
      /\ \/ /\ resumes /\ pc' = "allocated" /\ misled' = (misled \/ outdated)
            /\ UNCHANGED <<segs, parts>>
         \/ /\ ~resumes /\ pc' = "truncate" /\ segs' = <<>> /\ misled' = misled
            /\ parts' = IF safe THEN parts ELSE 1
  BY DEF ProbeAnswers
<1>2. TypeOK'
  <2>1. etag' \in Tags /\ ranged' \in BOOLEAN
    BY <1>1 DEF DownloadInv, TypeOK, Tags
  <2>2. /\ segs' \in Seq(Segment) /\ Len(segs') <= Parts /\ parts' \in 1..Parts
        /\ misled' \in BOOLEAN /\ pc' \in {"allocated", "truncate"}
    <3>1. CASE resumes
      BY <1>1, <3>1 DEF DownloadInv, TypeOK
    <3>2. CASE ~resumes
      <4>1. <<>> \in Seq(Segment) /\ Len(<<>>) <= Parts /\ 1 \in 1..Parts
        BY EmptySeq, ConstantsAreSmall
      <4>2. parts \in 1..Parts /\ misled \in BOOLEAN
        BY DEF DownloadInv, TypeOK
      <4> QED
        BY <1>1, <3>2, <4>1, <4>2
    <3> QED
      BY <3>1, <3>2
  <2> QED
    BY <1>1, <2>1, <2>2 DEF DownloadInv, TypeOK, files
<1>3. Bounded' /\ Loaded'
  BY <1>1 DEF DownloadInv, Bounded, Loaded, files
<1>4. Control'
  <2>1. resumes => Loaded /\ saved # NoFile /\ CoversFile(segs)
    BY <1>1 DEF DownloadInv, Loaded
  <2>2. resumes /\ ~safe => Single(segs)
    BY <2>1 DEF CoversFile, Single
  <2>3. /\ ~Transferring' /\ TasksOver' /\ saver' = "off"
    BY <1>1 DEF DownloadInv, Control, TasksOver, Transferring
  <2> QED
    BY <1>1, <2>2, <2>3 DEF Control, Single
<1>5. Order'
  <2>1. server \in Nat /\ server # NoTag
    BY ConstantsAreSmall DEF DownloadInv, TypeOK
  <2>2. etag' # NoTag => etag' = server
    BY <1>1
  <2>3. resumes => saved # NoFile /\ saved.etag = etag'
    BY <1>1 DEF DownloadInv, Loaded
  <2>4. ~Transferring' /\ Tagged' = Tagged /\ outdated' = outdated
        /\ server' = server /\ saved' = saved /\ body' = body /\ late' = late
    BY <1>1 DEF Transferring, Tagged, files
  <2>5. pc' \notin {"idle", "probe", "truncate"} =>
          saved' = NoFile \/ outdated' \/ saved'.etag = etag'
    BY <1>1, <2>3, <2>4
  <2>6. etag' # NoTag => etag' <= server
    BY <2>1, <2>2
  <2>7. pc' # "extend"
    BY <1>1
  <2> QED
    BY <2>2, <2>4, <2>5, <2>6, <2>7 DEF DownloadInv, Order
<1>6. Data'
  <2>1. PartHolds'
    <3>1. CASE resumes
      <4>1. SUFFICES ASSUME Sound'
                     PROVE  Holds(part, segs, etag)
        BY <1>1, <3>1 DEF PartHolds, Holds, Fetched, files
      <4>2. Sound /\ ~outdated
        BY <1>1, <3>1, <4>1 DEF Sound, files
      <4>3. saved # NoFile /\ etag = saved.etag /\ segs = saved.segs
            /\ CoversFile(saved.segs) /\ etag # NoTag
        BY <1>1, <3>1 DEF DownloadInv, Loaded
      <4> QED
        BY <4>2, <4>3 DEF DownloadInv, Data, SavedHolds, Tagged
    <3>2. CASE ~resumes
      BY <1>1, <3>2, EmptyClaimsNothing DEF PartHolds, Holds
    <3> QED
      BY <3>1, <3>2
  <2>2. SavedHolds'
    <3>1. Sound' => Sound
      BY <1>1 DEF Sound, files
    <3> QED
      BY <1>1, <3>1 DEF DownloadInv, Data, SavedHolds, Tagged, Holds, files
  <2>3. RangeHolds' /\ StreamHolds' /\ SaveHolds' /\ ReplaceHolds'
    BY <1>1 DEF RangeHolds, StreamHolds, SaveHolds, ReplaceHolds, DownloadInv,
                Control
  <2> QED
    BY <2>1, <2>2, <2>3 DEF Data
<1> QED
  BY <1>2, <1>3, <1>4, <1>5, <1>6 DEF DownloadInv

\* .part is reset, by the session that wants it so.
LEMMA PreallocateKeepsInv ==
  ASSUME DownloadInv, Truncate \/ Extend
  PROVE  DownloadInv'
<1>1. /\ pc \in {"truncate", "extend"} /\ pc' \in {"extend", "allocated"}
      /\ pc = "truncate" => pc' = "extend"
      /\ part' \in {<<>>, Blank}
      /\ UNCHANGED <<server, durable, saved, dest, etag, ranged, parts, segs, conn,
                     tries, pos, goal, body, saver, stop, late, runs, crashes>>
      /\ \/ /\ outdated' = (saved # NoFile) /\ misled' = FALSE
            /\ struck' = FALSE
         \/ /\ pc = "extend" /\ UNCHANGED <<outdated, misled, struck>>
  BY DEF Truncate, Extend, history
<1>a. saved = NoFile \/ outdated'
  <2>1. CASE outdated' = (saved # NoFile)
    BY <2>1
  <2>2. CASE pc = "extend" /\ UNCHANGED outdated
    BY <2>2 DEF DownloadInv, Order
  <2> QED
    BY <1>1, <2>1, <2>2
<1>2. part' \in Files /\ Len(part') <= Size
  <2>1. <<>> \in Files /\ Len(<<>>) <= Size
    BY EmptySeq, ConstantsAreSmall DEF Files
  <2>2. Blank \in Files /\ Len(Blank) <= Size
    BY WholeIsAFile, ConstantsAreSmall DEF Blank
  <2> QED
    BY <1>1, <2>1, <2>2
<1>3. TypeOK'
  <2>1. TypeOK
    BY DEF DownloadInv
  <2>2. /\ part' \in Seq(Content) \cup {NoFile}
        /\ outdated' \in BOOLEAN /\ misled' \in BOOLEAN /\ struck' \in BOOLEAN
    BY <1>1, <1>2, <2>1 DEF TypeOK, Files
  <2>3. pc' \in {"extend", "allocated"}
    BY <1>1
  <2> QED
    BY <1>1, <2>1, <2>2, <2>3 DEF TypeOK
<1>4. Bounded' /\ Loaded'
  BY <1>1, <1>2 DEF DownloadInv, Bounded, Loaded
<1>5. Control'
  <2>1. ~Transferring' /\ TasksOver' /\ saver' = "off" /\ segs = <<>>
    BY <1>1 DEF DownloadInv, Control, TasksOver, Transferring
  <2> QED
    BY <1>1, <2>1 DEF DownloadInv, Control
<1>6. Order'
  <2>1. ~Transferring'
    BY <1>1 DEF Transferring
  <2>2. UNCHANGED <<server, saved, etag, body, late>> /\ Tagged' = Tagged
    BY <1>1 DEF Tagged
  <2>3. Tagged' => outdated'
    BY <1>a, <2>2 DEF Tagged
  <2> QED
    BY <1>1, <1>a, <2>1, <2>2, <2>3 DEF DownloadInv, Order
<1>7. Data'
  <2>1. segs' = <<>>
    BY <1>1 DEF DownloadInv, Control
  <2>2. PartHolds'
    BY <2>1, EmptyClaimsNothing DEF PartHolds, Holds
  <2>3. SavedHolds'
    BY <1>1, <1>a DEF SavedHolds, Tagged
  <2>4. RangeHolds' /\ StreamHolds' /\ SaveHolds' /\ ReplaceHolds'
    BY <1>1 DEF RangeHolds, StreamHolds, SaveHolds, ReplaceHolds, DownloadInv,
                Control
  <2> QED
    BY <2>2, <2>3, <2>4 DEF Data
<1> QED
  BY <1>3, <1>4, <1>5, <1>6, <1>7 DEF DownloadInv

LEMMA BeginKeepsInv ==
  ASSUME DownloadInv, Begin
  PROVE  DownloadInv'
<1> DEFINE map == IF segs = <<>> THEN Split(parts) ELSE segs
<1>1. /\ pc = "allocated" /\ segs' = map /\ saver' = "first"
      /\ pc' = IF ranged THEN "range" ELSE "stream"
      /\ conn' = [s \in 1..Parts |->
           IF s <= Len(map) /\ (ranged => ~map[s].done) THEN "ask" ELSE "off"]
      /\ UNCHANGED <<files, etag, ranged, parts, tries, pos, goal, body, stop,
                     late, history>>
  BY DEF Begin
<1>2. /\ map \in Seq(Segment) /\ Len(map) \in 0..Parts /\ map # <<>>
      /\ Claimed(map) = Claimed(segs)
  <2>1. /\ parts \in 1..Parts /\ segs \in Seq(Segment) /\ Len(segs) <= Parts
    BY DEF DownloadInv, TypeOK
  <2>2. CASE segs = <<>>
    <3>1. map = Split(parts) /\ map \in Seq(Segment) /\ Len(map) = parts
          /\ Claimed(map) = {}
      BY <2>1, <2>2, SplitIsAMap
    <3>2. parts \in 0..Parts /\ parts # 0
      BY <2>1, ConstantsAreSmall
    <3> QED
      BY <2>2, <3>1, <3>2, EmptySeq, EmptyClaimsNothing
  <2>3. CASE segs # <<>>
    BY <2>1, <2>3, LenProperties, ConstantsAreSmall
  <2> QED
    BY <2>2, <2>3
<1>3. ~ranged => /\ Single(map) /\ Len(map) = 1
                 /\ etag = NoTag => map[1].current = 1
  <2>1. parts \in 1..Parts
    BY DEF DownloadInv, TypeOK
  <2>2. ~ranged => /\ Single(segs) /\ (segs = <<>> => parts = 1)
                   /\ etag = NoTag => segs = <<>>
    BY <1>1 DEF DownloadInv, Control
  <2>3. CASE segs = <<>>
    BY <2>1, <2>2, <2>3, SplitIsAMap
  <2>4. CASE segs # <<>>
    BY <2>2, <2>4 DEF Single
  <2> QED
    BY <2>3, <2>4
<1> HIDE DEF map
<1>4. \A s \in 1..Parts : conn'[s] \in {"off", "ask"}
                          /\ (conn'[s] # "off" => s <= Len(map))
  BY <1>1
<1>5. TypeOK'
  <2>1. conn' \in [1..Parts -> {"off", "ask", "open", "busy", "wrote", "broke"}]
    BY <1>1
  <2>2. pc' \in {"range", "stream"}
    BY <1>1
  <2>3. segs' \in Seq(Segment) /\ Len(segs') <= Parts
    BY <1>1, <1>2, ConstantsAreSmall
  <2> QED
    BY <1>1, <2>1, <2>2, <2>3 DEF DownloadInv, TypeOK, files, history
<1>6. Bounded' /\ Loaded'
  BY <1>1 DEF DownloadInv, Bounded, Loaded, files
<1>7. Control'
  <2>1. CASE ranged
    BY <1>1, <1>4, <2>1 DEF DownloadInv, Control, Transferring
  <2>2. CASE ~ranged
    <3>1. \A s \in 1..Parts : s # 1 => conn'[s] = "off"
      <4>1. SUFFICES ASSUME NEW s \in 1..Parts, s # 1
                     PROVE  conn'[s] = "off"
        OBVIOUS
      <4>2. ~(s <= Len(map))
        <5>1. Len(map) = 1
          BY <1>3, <2>2
        <5> QED
          BY <4>1, <5>1, ConstantsAreSmall
      <4> QED
        BY <1>4, <4>2
    <3>2. 1 \in 1..Parts
      BY ConstantsAreSmall
    <3> QED
      BY <1>1, <1>2, <1>3, <1>4, <2>2, <3>1, <3>2
      DEF DownloadInv, Control, Transferring
  <2> QED
    BY <2>1, <2>2
<1>8. Order'
  <2>1. \A s \in 1..Parts : ~Active(s)'
    BY <1>4 DEF Active
  <2>2. pc \notin {"idle", "probe", "truncate"} /\ pc' \in {"range", "stream"}
    BY <1>1
  <2> QED
    BY <1>1, <2>1, <2>2 DEF DownloadInv, Order, Tagged, files, history
<1>9. Data'
  <2>1. PartHolds'
    BY <1>1, <1>2 DEF DownloadInv, Data, PartHolds, Sound, Fetched, Holds, files,
                      history
  <2>2. SavedHolds'
    BY <1>1 DEF DownloadInv, Data, SavedHolds, Sound, Tagged, Holds, files, history
  <2>3. RangeHolds' /\ StreamHolds' /\ SaveHolds' /\ ReplaceHolds'
    <3>1. 1 \in 1..Parts
      BY ConstantsAreSmall
    <3> QED
      BY <1>1, <1>4, <3>1 DEF RangeHolds, StreamHolds, SaveHolds, ReplaceHolds,
                              Active
  <2> QED
    BY <2>1, <2>2, <2>3 DEF Data
<1> QED
  BY <1>5, <1>6, <1>7, <1>8, <1>9 DEF DownloadInv

\* A save begins by syncing .part.
LEMMA BeginSaveKeepsInv ==
  ASSUME DownloadInv, BeginSave
  PROVE  DownloadInv'
<1>1. /\ saver # "off" /\ saver' = "saving" /\ durable' = part
      /\ UNCHANGED <<server, part, saved, dest, pc, etag, ranged, parts, segs,
                     conn, tries, pos, goal, body, stop, late, history>>
  BY DEF BeginSave
<1>2. TypeOK' /\ Bounded'
  BY <1>1 DEF DownloadInv, TypeOK, Bounded, history
<1>3. Control' /\ Loaded'
  BY <1>1 DEF DownloadInv, Control, Loaded, TasksOver, Transferring
<1>4. Order'
  BY <1>1 DEF DownloadInv, Order, Active, Tagged, Transferring, history
<1>5. Data'
  <2>1. PartHolds' /\ RangeHolds' /\ StreamHolds' /\ ReplaceHolds'
    BY <1>1 DEF DownloadInv, Data, PartHolds, RangeHolds, StreamHolds,
                ReplaceHolds, Sound, Fetched, Active, Holds, history
  <2>2. SaveHolds'
    <3>1. pc \notin {"idle", "probe"}
      BY <1>1 DEF DownloadInv, Control
    <3> QED
      BY <1>1, <3>1 DEF DownloadInv, Data, PartHolds, SaveHolds, Sound, Fetched,
                        Holds, history
  <2>3. SavedHolds'
    BY <1>1 DEF DownloadInv, Data, SavedHolds, Sound, Tagged, Holds, history
  <2> QED
    BY <2>1, <2>2, <2>3 DEF Data
<1> QED
  BY <1>2, <1>3, <1>4, <1>5 DEF DownloadInv

\* The saver waits again: nothing was saved.
LEMMA SaverWaitsKeepsInv ==
  ASSUME DownloadInv, saver # "off", saver' = "wait",
         UNCHANGED <<files, pc, etag, ranged, parts, segs, conn, tries, pos, goal,
                     body, stop, late, history>>
  PROVE  DownloadInv'
<1>1. TypeOK' /\ Bounded'
  BY DEF DownloadInv, TypeOK, Bounded, files, history
<1>2. Control' /\ Loaded'
  BY DEF DownloadInv, Control, Loaded, TasksOver, Transferring, files
<1>3. Order'
  BY DEF DownloadInv, Order, Active, Tagged, Transferring, files, history
<1>4. Data'
  BY DEF DownloadInv, Data, PartHolds, RangeHolds, StreamHolds, SaveHolds,
         SavedHolds, ReplaceHolds, Sound, Tagged, Fetched, Active, Holds, files,
         history
<1> QED
  BY <1>1, <1>2, <1>3, <1>4 DEF DownloadInv

\* state.json is replaced: what it now counts is synced and is in .part.
LEMMA SavedStateHolds ==
  ASSUME DownloadInv, EndSave
  PROVE  /\ pc \notin {"idle", "probe", "truncate", "extend"}
         /\ saved' = [etag |-> etag, segs |-> segs] /\ outdated' = FALSE
         /\ UNCHANGED <<server, part, durable, dest, late, runs, crashes, misled,
                        struck>>
         /\ Sound /\ etag # NoTag =>
              /\ durable # NoFile
              /\ Holds(durable, segs, etag) /\ Holds(part, segs, etag)
<1>1. saver = "saving"
  BY DEF EndSave
<1>2. pc \notin {"idle", "probe", "truncate", "extend"}
  BY <1>1 DEF DownloadInv, Control
<1>3. Sound /\ etag # NoTag =>
        /\ durable # NoFile
        /\ Holds(durable, segs, etag) /\ Holds(part, segs, etag)
  BY <1>1, <1>2 DEF DownloadInv, Data, SaveHolds, PartHolds, Fetched
<1> QED
  BY <1>2, <1>3 DEF EndSave

\* The session goes on after the save, or it was its last one.
LEMMA EndSaveKeepsInv ==
  ASSUME DownloadInv, EndSave
  PROVE  DownloadInv'
<1>1. /\ pc \notin {"idle", "probe", "truncate", "extend"}
      /\ saved' = [etag |-> etag, segs |-> segs] /\ outdated' = FALSE
      /\ UNCHANGED <<server, part, durable, dest, late, runs, crashes, misled,
                     struck>>
  BY SavedStateHolds
<1>2. saved'.etag = etag /\ saved'.segs = segs
  BY <1>1
<1>3. SavedHolds'
  <2>1. SUFFICES ASSUME Sound', Tagged'
                 PROVE  /\ durable # NoFile /\ Holds(durable, segs, etag)
                        /\ Holds(part, segs, etag)
    BY <1>1, <1>2 DEF SavedHolds, Holds
  <2>2. Sound /\ etag # NoTag
    BY <1>1, <1>2, <2>1 DEF Sound, Tagged
  <2> QED
    BY <2>2, SavedStateHolds
<1>4. /\ etag \in Tags /\ segs \in Seq(Segment) /\ Len(segs) <= Parts
      /\ etag # NoTag => etag <= server
      /\ \A j \in late : JobFits(j)
      /\ \A j \in late : j.kind = "write" /\ etag # NoTag => j.val <= etag
  BY <1>1, LateJobsFit DEF DownloadInv, TypeOK, Order
<1>5. CASE pc = "parting"
  <2>1. /\ pc' = "idle" /\ conn' = NoTasks /\ tries' = [s \in 1..Parts |-> 0]
        /\ segs' = <<>> /\ etag' = NoTag /\ ranged' = FALSE /\ parts' = Parts
        /\ pos' = 1 /\ goal' = 1 /\ body' = [s \in 1..Parts |-> 1]
        /\ saver' = "off" /\ stop' = "no"
    BY <1>5 DEF EndSave, Resumed, End
  <2>2. TypeOK'
    <3>1. SessionTyped'
      BY <1>5, EndIsTyped DEF EndSave, Resumed
    <3> QED
      BY <1>1, <1>2, <1>4, <2>1, <3>1 DEF DownloadInv, TypeOK, SessionTyped
  <2>3. Bounded' /\ Control' /\ Loaded'
    BY <1>1, <1>2, <1>4, <2>1 DEF DownloadInv, Bounded, Control, Loaded, TasksOver,
                                  NoTasks, Transferring
  <2>4. Order'
    <3>1. \A s \in 1..Parts : body'[s] <= server
      BY <2>1, ConstantsAreSmall DEF DownloadInv, TypeOK, Versions
    <3> QED
      BY <1>1, <1>2, <1>4, <2>1, <3>1 DEF Order, JobFits, Tagged, Transferring
  <2>5. Data'
    BY <1>3, <2>1 DEF Data, PartHolds, RangeHolds, StreamHolds, SaveHolds,
                      ReplaceHolds
  <2> QED
    BY <2>2, <2>3, <2>4, <2>5 DEF DownloadInv
<1>6. CASE pc # "parting"
  <2>1. saver = "saving" /\ saver' = "wait"
        /\ UNCHANGED <<pc, etag, ranged, parts, segs, conn, tries, pos, goal, body,
                       stop>>
    BY <1>6 DEF EndSave, Resumed
  <2>2. TypeOK'
    <3>1. TypeOK
      BY DEF DownloadInv
    <3>2. saver' \in {"off", "first", "wait", "saving"} /\ outdated' \in BOOLEAN
      BY <1>1, <2>1
    <3> QED
      BY <1>1, <1>2, <1>4, <2>1, <3>1, <3>2 DEF TypeOK
  <2>3. Bounded' /\ Control' /\ Loaded'
    BY <1>1, <1>2, <1>4, <2>1 DEF DownloadInv, Bounded, Control, Loaded, TasksOver,
                                  Transferring
  <2>4. Order'
    <3>1. Tagged' => etag # NoTag
      BY <1>2 DEF Tagged
    <3>2. etag # NoTag => etag <= etag
      BY <1>4, ConstantsAreSmall DEF Tags
    <3> QED
      BY <1>1, <1>2, <1>4, <2>1, <3>1, <3>2
      DEF DownloadInv, Order, JobFits, Active, Transferring
  <2>5. Data'
    BY <1>1, <1>3, <2>1 DEF DownloadInv, Data, PartHolds, RangeHolds, StreamHolds,
                            SaveHolds, ReplaceHolds, Sound, Fetched, Active, Holds
  <2> QED
    BY <2>2, <2>3, <2>4, <2>5 DEF DownloadInv
<1> QED
  BY <1>5, <1>6

ConnStates == {"off", "ask", "open", "busy", "wrote", "broke"}

\* A task goes from one await to another, and nothing else happens.
LEMMA MoveKeepsInv ==
  ASSUME DownloadInv, NEW s \in 1..Parts, NEW to \in ConnStates \ {"wrote"},
         conn' = [conn EXCEPT ![s] = to], conn[s] # "off",
         to \in {"open", "busy"} => Active(s),
         to = "ask" => pc = "range",
         to = "broke" => conn[s] = "busy",
         to = "busy" => IF pc = "stream" THEN goal <= pos /\ pos <= Size
                                         ELSE segs[s].current <= segs[s].end,
         tries' \in [1..Parts -> 0..(MaxTries - 1)],
         UNCHANGED <<files, pc, etag, ranged, parts, segs, pos, goal, body, saver,
                     stop, late, history>>
  PROVE  DownloadInv'
<1>1. /\ conn \in [1..Parts -> ConnStates]
      /\ conn'[s] = to /\ \A i \in 1..Parts : i # s => conn'[i] = conn[i]
  BY DEF DownloadInv, TypeOK, ConnStates
<1>2. TypeOK' /\ Bounded'
  BY <1>1 DEF DownloadInv, TypeOK, Bounded, files, history, ConnStates
<1>3. Transferring /\ Transferring'
  BY DEF DownloadInv, Control, TasksOver, Transferring
<1>4. Control' /\ Loaded'
  <2>1. CASE pc = "range"
    BY <1>1, <1>3, <2>1 DEF DownloadInv, Control, Loaded, Transferring
  <2>2. CASE pc = "stream"
    <3>1. s = 1 /\ to # "ask"
      BY <2>2 DEF DownloadInv, Control
    <3>2. to # "off" => conn[1] \notin {"off", "ask"}
      BY <1>1, <3>1 DEF Active, ConnStates
    <3> QED
      BY <1>1, <1>3, <2>2, <3>1, <3>2
      DEF DownloadInv, Control, Loaded, Transferring, ConnStates
  <2> QED
    BY <1>3, <2>1, <2>2 DEF Transferring
<1>5. Order'
  <2>1. \A i \in 1..Parts : Active(i)' => Active(i)
    BY <1>1 DEF Active
  <2> QED
    BY <1>3, <2>1 DEF DownloadInv, Order, Tagged, files, history
<1>6. Data'
  <2>1. PartHolds' /\ SaveHolds' /\ SavedHolds' /\ ReplaceHolds'
    BY DEF DownloadInv, Data, PartHolds, SaveHolds, SavedHolds, ReplaceHolds,
           Sound, Tagged, Fetched, Holds, files, history
  <2>2. RangeHolds'
    BY <1>1 DEF DownloadInv, Data, RangeHolds, Sound, files, history
  <2>3. StreamHolds'
    <3>1. Active(1)' => Active(1)
      BY <1>1, ConstantsAreSmall DEF Active
    <3>2. conn'[1] = "wrote" => conn[1] = "wrote"
      BY <1>1, ConstantsAreSmall
    <3> QED
      BY <3>1, <3>2 DEF DownloadInv, Data, StreamHolds, Sound, files, history
  <2> QED
    BY <2>1, <2>2, <2>3 DEF Data
<1> QED
  BY <1>2, <1>4, <1>5, <1>6 DEF DownloadInv

\* The same where Move is the whole step: it is not a retry.
LEMMA MoveIsAMove ==
  ASSUME DownloadInv, NEW s \in 1..Parts, NEW to \in ConnStates \ {"wrote", "ask"},
         Move(s, to), conn[s] # "off",
         to \in {"open", "busy"} => Active(s),
         to = "broke" => conn[s] = "busy",
         to = "busy" => IF pc = "stream" THEN goal <= pos /\ pos <= Size
                                         ELSE segs[s].current <= segs[s].end
  PROVE  DownloadInv'
<1>1. /\ conn' = [conn EXCEPT ![s] = to]
      /\ tries' \in [1..Parts -> 0..(MaxTries - 1)]
      /\ UNCHANGED <<files, pc, etag, ranged, parts, segs, pos, goal, body, saver,
                     stop, late, history>>
  BY DEF Move, DownloadInv, TypeOK
<1> QED
  BY <1>1, MoveKeepsInv

\* A response is accepted: it carries the version that the session validated.
LEMMA AcceptedKeepsInv ==
  ASSUME DownloadInv, NEW s \in 1..Parts, SegmentAccepted(s)
  PROVE  DownloadInv'
<1>1. /\ pc = "range" /\ conn[s] = "ask" /\ server = etag
      /\ conn' = [conn EXCEPT ![s] = "open"]
      /\ body' = [body EXCEPT ![s] = server]
      /\ UNCHANGED <<files, pc, etag, ranged, parts, segs, tries, pos, goal, saver,
                     stop, late, history>>
  BY DEF SegmentAccepted, Opens
<1>2. /\ conn'[s] = "open" /\ \A i \in 1..Parts : i # s => conn'[i] = conn[i]
      /\ body'[s] = server /\ \A i \in 1..Parts : i # s => body'[i] = body[i]
  BY <1>1 DEF DownloadInv, TypeOK
<1>3. TypeOK' /\ Bounded'
  BY <1>1 DEF DownloadInv, TypeOK, Bounded, files, history
<1>4. Control' /\ Loaded'
  BY <1>1, <1>2 DEF DownloadInv, Control, Loaded, Transferring, TasksOver
<1>5. etag # NoTag
  BY <1>1 DEF DownloadInv, Control
<1>6. Order'
  <2>1. server <= server
    BY ConstantsAreSmall DEF DownloadInv, TypeOK
  <2> QED
    BY <1>1, <1>2, <2>1 DEF DownloadInv, Order, Tagged, Active, Transferring, files,
                            history
<1>7. Data'
  <2>1. PartHolds' /\ SaveHolds' /\ SavedHolds' /\ ReplaceHolds' /\ StreamHolds'
    BY <1>1, <1>5 DEF DownloadInv, Data, PartHolds, SaveHolds, SavedHolds,
                      StreamHolds, ReplaceHolds, Sound, Tagged, Fetched, Holds,
                      files, history
  <2>2. RangeHolds'
    BY <1>1, <1>2 DEF DownloadInv, Data, RangeHolds, Sound, files, history
  <2> QED
    BY <2>1, <2>2 DEF Data
<1> QED
  BY <1>3, <1>4, <1>6, <1>7 DEF DownloadInv

\* The range was ignored: a stream takes over, with no map yet.
LEMMA IgnoredKeepsInv ==
  ASSUME DownloadInv, NEW s \in 1..Parts, SegmentIgnored(s)
  PROVE  DownloadInv'
<1>1. /\ pc = "range" /\ pc' = "stream" /\ ranged' = FALSE /\ parts' = 1
      /\ segs' = <<>> /\ conn' = [NoTasks EXCEPT ![1] = "ask"]
      /\ tries' = [i \in 1..Parts |-> 0]
      /\ late' \subseteq late \cup WritesInFlight
      /\ UNCHANGED <<files, etag, pos, goal, body, saver, stop, history>>
  BY DEF SegmentIgnored
<1>2. /\ 1 \in 1..Parts /\ conn'[1] = "ask"
      /\ \A i \in 1..Parts : i # 1 => conn'[i] = "off"
  BY <1>1, ConstantsAreSmall DEF NoTasks
<1>3. \A j \in late' : JobFits(j)
  BY <1>1, LateJobsFit, JobsInFlightFit
<1>4. etag # NoTag
  BY <1>1 DEF DownloadInv, Control
<1>5. TypeOK'
  <2>1. 0 \in 0..(MaxTries - 1)
    BY ConstantsAssumption
  <2>2. tries' \in [1..Parts -> 0..(MaxTries - 1)]
    BY <1>1, <2>1
  <2>3. conn' \in [1..Parts -> {"off", "ask", "open", "busy", "wrote", "broke"}]
    BY <1>1 DEF NoTasks
  <2>4. segs' \in Seq(Segment) /\ Len(segs') <= Parts /\ parts' \in 1..Parts
    BY <1>1, EmptySeq, ConstantsAreSmall
  <2>5. \A j \in late' : j.kind \in {"write", "truncate", "extend", "replace"}
    BY <1>3 DEF JobFits
  <2>6. TypeOK
    BY DEF DownloadInv
  <2>7. ranged' \in BOOLEAN
        /\ pc' \in {"idle", "probe", "truncate", "extend", "allocated", "range",
                    "stream", "replace", "replaced", "parting"}
    BY <1>1
  <2> QED
    BY <1>1, <2>2, <2>3, <2>4, <2>5, <2>6, <2>7 DEF TypeOK, files, history
<1>6. Bounded' /\ Loaded'
  BY <1>1, <1>3 DEF DownloadInv, Bounded, Loaded, JobFits, files
<1>7. Control'
  BY <1>1, <1>2, <1>4 DEF DownloadInv, Control, Single, Transferring
<1>8. Order'
  <2>1. \A i \in 1..Parts : ~Active(i)'
    BY <1>2 DEF Active
  <2> QED
    BY <1>1, <1>3, <2>1 DEF DownloadInv, Order, JobFits, Tagged, files, history
<1>9. Data'
  <2>1. PartHolds'
    BY <1>1, EmptyClaimsNothing DEF PartHolds, Holds
  <2>2. SaveHolds'
    BY <1>1, EmptyClaimsNothing DEF DownloadInv, Data, SaveHolds, Sound, Holds,
                                    files, history
  <2>3. SavedHolds'
    BY <1>1 DEF DownloadInv, Data, SavedHolds, Sound, Tagged, Holds, files, history
  <2>4. RangeHolds' /\ StreamHolds' /\ ReplaceHolds'
    BY <1>1, <1>2 DEF RangeHolds, StreamHolds, ReplaceHolds, Active
  <2> QED
    BY <2>1, <2>2, <2>3, <2>4 DEF Data
<1> QED
  BY <1>5, <1>6, <1>7, <1>8, <1>9 DEF DownloadInv

\* A block is written.  It is one of the session's version, so that whatever was
\* claimed of that version still holds.
LEMMA WriteKeepsInv ==
  ASSUME DownloadInv, NEW s \in 1..Parts, Write(s)
  PROVE  DownloadInv'
<1> DEFINE at == Position(s)
           v  == body[s]
<1>1. /\ conn[s] = "busy" /\ part # NoFile /\ part' = Put(part, at, v)
      /\ conn' = [conn EXCEPT ![s] = "wrote"]
      /\ UNCHANGED <<server, durable, saved, dest, pc, etag, ranged, parts, segs,
                     tries, pos, goal, body, saver, stop, late, history>>
  BY DEF Write
<1>2. conn'[s] = "wrote" /\ \A i \in 1..Parts : i # s => conn'[i] = conn[i]
  BY <1>1 DEF DownloadInv, TypeOK
<1>3. /\ Transferring /\ at \in Blocks /\ v \in Versions /\ v = Fetched
      /\ Tagged /\ ~outdated => v = saved.etag
  BY <1>1, WritesInFlightFit
<1>4. part \in Files /\ v \in Content /\ Len(part) <= Size
  BY <1>1, <1>3, ConstantsAreSmall DEF DownloadInv, TypeOK, Bounded, Files
<1>5. /\ part' \in Files /\ Len(part') <= Size
      /\ at \in 1..Len(part') /\ part'[at] = v
      /\ \A i \in 1..Len(part) : i # at => i \in 1..Len(part') /\ part'[i] = part[i]
  <2>1. /\ part' \in Files
        /\ Len(part') = IF at > Len(part) THEN at ELSE Len(part)
        /\ at \in 1..Len(part') /\ part'[at] = v
        /\ \A i \in 1..Len(part) :
             i # at => i \in 1..Len(part') /\ part'[i] = part[i]
    BY <1>1, <1>3, <1>4, PutWritesOneBlock
  <2> HIDE DEF at
  <2> QED
    BY <1>3, <1>4, <2>1 DEF Blocks
<1>6. part' # NoFile
  BY <1>5, ConstantsAreSmall
<1>7. ASSUME NEW map, Holds(part, map, v)
      PROVE  Holds(part', map, v)
  BY <1>1, <1>3, <1>4, <1>7, PutKeepsVersion
<1> HIDE DEF at, v
<1>8. TypeOK' /\ Bounded'
  <2>1. conn' \in [1..Parts -> {"off", "ask", "open", "busy", "wrote", "broke"}]
    BY <1>1 DEF DownloadInv, TypeOK
  <2> QED
    BY <1>1, <1>5, <2>1 DEF DownloadInv, TypeOK, Bounded, Files, history
<1>9. Control' /\ Loaded'
  <2>1. CASE pc = "range"
    BY <1>1, <1>2, <2>1 DEF DownloadInv, Control, Loaded, Transferring
  <2>2. CASE pc = "stream"
    <3>1. s = 1
      BY <1>1, <2>2 DEF DownloadInv, Control
    <3> QED
      BY <1>1, <1>2, <2>2, <3>1 DEF DownloadInv, Control, Loaded, Transferring
  <2> QED
    BY <1>3, <2>1, <2>2 DEF Transferring
<1>10. Order'
  <2>1. \A i \in 1..Parts : Active(i)' => Active(i)
    BY <1>1, <1>2 DEF Active
  <2> QED
    BY <1>1, <2>1 DEF DownloadInv, Order, Tagged, Transferring, history
<1>11. Sound' => Sound
  BY <1>1 DEF Sound, history
<1>12. PartHolds'
  <2>1. SUFFICES ASSUME Sound, pc \notin {"idle", "probe"}
                 PROVE  Holds(part', segs, Fetched)
    BY <1>1, <1>11 DEF PartHolds, Holds, Fetched
  <2> QED
    BY <1>3, <1>7, <2>1 DEF DownloadInv, Data, PartHolds
<1>13. SavedHolds'
  <2>1. SUFFICES ASSUME Sound, Tagged, CoversFile(saved.segs), ~outdated
                 PROVE  /\ durable # NoFile
                        /\ Holds(durable, saved.segs, saved.etag)
                        /\ Holds(part', saved.segs, saved.etag)
    BY <1>1, <1>11 DEF SavedHolds, Holds, Tagged, history
  <2> QED
    BY <1>3, <1>7, <2>1 DEF DownloadInv, Data, SavedHolds
<1>14. RangeHolds'
  <2>1. SUFFICES ASSUME Sound, pc = "range", NEW i \in 1..Parts,
                        conn'[i] = "wrote"
                 PROVE  /\ segs[i].current \in 1..Len(part')
                        /\ part'[segs[i].current] = etag
    BY <1>1, <1>11 DEF RangeHolds
  <2>2. v = etag
    BY <1>3, <2>1 DEF Fetched, DownloadInv, Control
  <2>3. CASE i = s
    <3>1. at = segs[s].current
      BY <2>1 DEF at, Position
    <3> QED
      BY <1>5, <2>2, <2>3, <3>1
  <2>4. CASE i # s
    <3>1. segs[i].current \in 1..Len(part) /\ part[segs[i].current] = etag
      BY <1>2, <2>1, <2>4 DEF DownloadInv, Data, RangeHolds
    <3> QED
      BY <1>5, <2>2, <3>1
  <2> QED
    BY <2>3, <2>4
<1>15. StreamHolds'
  <2>1. SUFFICES ASSUME Sound, pc = "stream", NEW b \in Blocks,
                        b < pos \/ b < goal \/ b = pos
                 PROVE  b \in 1..Len(part') /\ part'[b] = body[1]
    BY <1>1, <1>11 DEF StreamHolds
  <2>2. s = 1 /\ goal <= pos /\ at = pos /\ v = body[1]
    BY <1>1, <2>1 DEF DownloadInv, Control, at, v, Position
  <2>3. CASE b = pos
    BY <1>5, <2>2, <2>3
  <2>4. CASE b # pos
    <3>1. b \in 1..Len(part) /\ part[b] = body[1]
      BY <1>1, <2>1, <2>2, <2>4 DEF DownloadInv, Data, StreamHolds, Active
    <3> QED
      BY <1>5, <2>2, <2>4, <3>1
  <2> QED
    BY <2>3, <2>4
<1>16. SaveHolds' /\ ReplaceHolds'
  BY <1>1, <1>3, <1>11 DEF DownloadInv, Data, SaveHolds, ReplaceHolds, Holds,
                           Transferring
<1> QED
  BY <1>8, <1>9, <1>10, <1>12, <1>13, <1>14, <1>15, <1>16 DEF DownloadInv, Data

\* The map of a task that goes on: nothing but its segment changes.
LEMMA AdvancesKeepsInv ==
  ASSUME DownloadInv, NEW s \in 1..Parts, SegmentAdvances(s)
  PROVE  DownloadInv'
<1>1. /\ pc = "range" /\ conn[s] = "wrote" /\ saver \notin {"first", "saving"}
      /\ conn' = [conn EXCEPT ![s] = "open"]
      /\ segs' = [segs EXCEPT ![s] = Progress(segs[s], segs[s].current + 1,
                                              segs[s].done)]
      /\ UNCHANGED <<files, pc, etag, ranged, parts, tries, pos, goal, body, saver,
                     stop, late, history>>
  BY DEF SegmentAdvances, LoopFree
<1>2. conn'[s] = "open" /\ \A i \in 1..Parts : i # s => conn'[i] = conn[i]
  BY <1>1 DEF DownloadInv, TypeOK
<1>3. /\ segs \in Seq(Segment) /\ s \in 1..Len(segs) /\ etag # NoTag
      /\ segs[s].current <= segs[s].end
  BY <1>1 DEF DownloadInv, TypeOK, Control
<1>4. /\ segs[s].start \in Nat /\ segs[s].current \in Nat /\ segs[s].done \in BOOLEAN
      /\ segs[s].current + 1 \in 1..(Size + 1)
  <2>1. segs[s] \in Segment
    BY <1>3, ElementOfSeq
  <2>2. /\ segs[s].start \in 1..Size /\ segs[s].end \in 1..Size
        /\ segs[s].current \in 1..(Size + 1) /\ segs[s].done \in BOOLEAN
    BY <2>1 DEF Segment, Blocks
  <2>3. segs[s].start \in Nat /\ segs[s].current \in Nat
    BY <2>2, ConstantsAreSmall
  <2>4. segs[s].current + 1 \in 1..(Size + 1)
    BY <1>3, <2>2, ConstantsAreSmall
  <2> QED
    BY <2>2, <2>3, <2>4
<1>5. /\ segs' \in Seq(Segment) /\ Len(segs') = Len(segs)
      /\ \A i \in 1..Len(segs) : i # s => segs'[i] = segs[i]
      /\ \A b \in Claimed(segs') :
           b \in Claimed(segs) \/ (b \in segs[s].start .. segs[s].current)
  <2> DEFINE c == segs[s].current + 1
             d == segs[s].done
  <2>1. c \in 1..(Size + 1) /\ d \in BOOLEAN
    BY <1>4
  <2>2. segs' = Advanced(segs, s, c, d)
    BY <1>1 DEF Advanced
  <2>3. c - 1 = segs[s].current
    BY <1>4
  <2> HIDE DEF c, d
  <2>4. /\ segs' \in Seq(Segment) /\ Len(segs') = Len(segs)
        /\ \A i \in 1..Len(segs) : i # s => segs'[i] = segs[i]
        /\ \A b \in Claimed(segs') :
             b \in Claimed(segs) \/ (b \in segs[s].start .. (c - 1))
    <3>1. segs' \in Seq(Segment)
      BY <1>3, <2>1, <2>2, ProgressClaims
    <3>2. Len(segs') = Len(segs)
      BY <1>3, <2>1, <2>2, ProgressClaims
    <3>3. \A i \in 1..Len(segs) : i # s => segs'[i] = segs[i]
      BY <1>3, <2>1, <2>2, ProgressClaims
    <3>4. \A b \in Claimed(segs') :
             b \in Claimed(segs) \/ (b \in segs[s].start .. (c - 1))
      BY <1>3, <2>1, <2>2, ProgressClaims
    <3> QED
      BY <3>1, <3>2, <3>3, <3>4
  <2> QED
    BY <2>3, <2>4
<1>6. \A b \in Claimed(segs') : b \in Claimed(segs) \/ b = segs[s].current
  <2>1. ASSUME NEW b \in segs[s].start .. segs[s].current
        PROVE  b \in Claimed(segs) \/ b = segs[s].current
    <3>1. b \in segs[s].start .. (segs[s].current - 1) \/ b = segs[s].current
      BY <1>4, <2>1
    <3> QED
      BY <1>3, <3>1 DEF Claimed
  <2> QED
    BY <1>5, <2>1
<1>7. TypeOK' /\ Bounded'
  <2>1. conn' \in [1..Parts -> {"off", "ask", "open", "busy", "wrote", "broke"}]
    BY <1>1 DEF DownloadInv, TypeOK
  <2> QED
    BY <1>1, <1>5, <2>1 DEF DownloadInv, TypeOK, Bounded, files, history
<1>8. Control' /\ Loaded'
  <2>1. ASSUME NEW i \in 1..Parts, conn'[i] # "off"
        PROVE  /\ i <= Len(segs')
               /\ conn'[i] \in {"busy", "wrote"} => segs'[i].current <= segs'[i].end
    <3>1. CASE i = s
      BY <1>2, <1>3, <1>5, <3>1
    <3>2. CASE i # s
      <4>1. /\ i <= Len(segs)
            /\ conn[i] \in {"busy", "wrote"} => segs[i].current <= segs[i].end
        BY <1>1, <1>2, <2>1, <3>2 DEF DownloadInv, Control
      <4>2. segs'[i] = segs[i]
        BY <1>3, <1>5, <3>2, <4>1
      <4> QED
        BY <1>2, <1>5, <3>2, <4>1, <4>2
    <3> QED
      BY <3>1, <3>2
  <2> QED
    BY <1>1, <2>1 DEF DownloadInv, Control, Loaded, Transferring
<1>9. Order'
  <2>1. \A i \in 1..Parts : Active(i)' => Active(i)
    BY <1>1, <1>2 DEF Active
  <2> QED
    BY <1>1, <2>1 DEF DownloadInv, Order, Tagged, Transferring, files, history
<1>10. Data'
  <2>1. PartHolds'
    <3>1. SUFFICES ASSUME Sound, NEW b \in Claimed(segs')
                   PROVE  b \in 1..Len(part) /\ part[b] = etag
      BY <1>1, <1>3 DEF PartHolds, Sound, Holds, Fetched, files, history
    <3>2. CASE b \in Claimed(segs)
      BY <1>1, <1>3, <3>1, <3>2 DEF DownloadInv, Data, PartHolds, Holds, Fetched
    <3>3. CASE b = segs[s].current
      BY <1>1, <3>1, <3>3 DEF DownloadInv, Data, RangeHolds
    <3> QED
      BY <1>6, <3>1, <3>2, <3>3
  <2>2. RangeHolds'
    <3>1. SUFFICES ASSUME Sound, NEW i \in 1..Parts, conn'[i] = "wrote"
                   PROVE  /\ segs'[i].current \in 1..Len(part)
                          /\ part[segs'[i].current] = etag
      BY <1>1 DEF RangeHolds, Sound, files, history
    <3>2. i # s /\ conn[i] = "wrote"
      BY <1>2, <3>1
    <3>3. i <= Len(segs)
      BY <1>1, <3>2 DEF DownloadInv, Control
    <3>4. segs'[i] = segs[i]
      BY <1>3, <1>5, <3>2, <3>3
    <3> QED
      BY <1>1, <3>1, <3>2, <3>4 DEF DownloadInv, Data, RangeHolds
  <2>3. SavedHolds'
    BY <1>1 DEF DownloadInv, Data, SavedHolds, Sound, Tagged, Holds, files, history
  <2>4. StreamHolds' /\ SaveHolds' /\ ReplaceHolds'
    BY <1>1 DEF StreamHolds, SaveHolds, ReplaceHolds
  <2> QED
    BY <2>1, <2>2, <2>3, <2>4 DEF Data
<1> QED
  BY <1>7, <1>8, <1>9, <1>10 DEF DownloadInv

\* A response ended where its segment does: the map claims no more than before.
LEMMA SegmentDoneKeepsInv ==
  ASSUME DownloadInv, NEW s \in 1..Parts, SegmentDone(s)
  PROVE  DownloadInv'
<1>1. /\ pc = "range" /\ conn[s] = "open" /\ saver \notin {"first", "saving"}
      /\ conn' = [conn EXCEPT ![s] = "off"]
      /\ segs' = [segs EXCEPT ![s] = Progress(segs[s], segs[s].current, TRUE)]
      /\ UNCHANGED <<files, pc, etag, ranged, parts, tries, pos, goal, body, saver,
                     stop, late, history>>
  BY DEF SegmentDone, LoopFree
<1>2. conn'[s] = "off" /\ \A i \in 1..Parts : i # s => conn'[i] = conn[i]
  BY <1>1 DEF DownloadInv, TypeOK
<1>3. segs \in Seq(Segment) /\ s \in 1..Len(segs) /\ etag # NoTag
  BY <1>1 DEF DownloadInv, TypeOK, Control
<1>4. segs' \in Seq(Segment) /\ Len(segs') = Len(segs)
      /\ (\A i \in 1..Len(segs) : i # s => segs'[i] = segs[i])
      /\ Claimed(segs') \subseteq Claimed(segs)
  <2> DEFINE c == segs[s].current
             d == TRUE
  <2>1. c \in 1..(Size + 1) /\ d \in BOOLEAN
    <3>1. segs[s] \in Segment
      BY <1>3, ElementOfSeq
    <3> QED
      BY <3>1 DEF Segment
  <2>2. segs' = Advanced(segs, s, c, d)
    BY <1>1 DEF Advanced
  <2>3. segs[s].start .. (c - 1) \subseteq Claimed(segs)
    BY <1>3 DEF Claimed
  <2> HIDE DEF c, d
  <2>4. segs' \in Seq(Segment)
    BY <1>3, <2>1, <2>2, ProgressClaims
  <2>5. Len(segs') = Len(segs)
    BY <1>3, <2>1, <2>2, ProgressClaims
  <2>6. \A i \in 1..Len(segs) : i # s => segs'[i] = segs[i]
    BY <1>3, <2>1, <2>2, ProgressClaims
  <2>7. \A b \in Claimed(segs') :
          b \in Claimed(segs) \/ (b \in segs[s].start .. (c - 1))
    BY <1>3, <2>1, <2>2, ProgressClaims
  <2> QED
    BY <2>3, <2>4, <2>5, <2>6, <2>7
<1>5. TypeOK' /\ Bounded'
  <2>1. conn' \in [1..Parts -> {"off", "ask", "open", "busy", "wrote", "broke"}]
    BY <1>1 DEF DownloadInv, TypeOK
  <2>2. TypeOK /\ Bounded
    BY DEF DownloadInv
  <2>3. TypeOK'
    <3>1. segs' \in Seq(Segment) /\ Len(segs') <= Parts
      BY <1>4, <2>2 DEF TypeOK
    <3>2. UNCHANGED <<server, part, durable, dest, saved, pc, etag, ranged, parts,
                      tries, pos, goal, body, saver, stop, late, runs, crashes,
                      outdated, misled, struck>>
      BY <1>1 DEF files, history
    <3> QED
      BY <2>1, <2>2, <3>1, <3>2 DEF TypeOK
  <2>4. Bounded'
    BY <1>1, <2>2 DEF Bounded, files, history
  <2> QED
    BY <2>3, <2>4
<1>6. Control' /\ Loaded'
  <2>1. ASSUME NEW i \in 1..Parts, conn'[i] # "off"
        PROVE  /\ i <= Len(segs')
               /\ conn'[i] \in {"busy", "wrote"} => segs'[i].current <= segs'[i].end
    <3>1. i # s
      BY <1>2, <2>1
    <3>2. /\ i <= Len(segs)
          /\ conn[i] \in {"busy", "wrote"} => segs[i].current <= segs[i].end
      BY <1>1, <1>2, <2>1, <3>1 DEF DownloadInv, Control
    <3>3. segs'[i] = segs[i]
      BY <1>3, <1>4, <3>1, <3>2
    <3> QED
      BY <1>2, <1>4, <3>1, <3>2, <3>3
  <2> QED
    BY <1>1, <2>1 DEF DownloadInv, Control, Loaded, Transferring
<1>7. Order'
  <2>1. \A i \in 1..Parts : Active(i)' => Active(i)
    BY <1>1, <1>2 DEF Active
  <2> QED
    BY <1>1, <2>1 DEF DownloadInv, Order, Tagged, Transferring, files, history
<1>8. Data'
  <2>1. PartHolds'
    BY <1>1, <1>4 DEF DownloadInv, Data, PartHolds, Sound, Fetched, Holds, files,
                      history
  <2>2. RangeHolds'
    <3>1. SUFFICES ASSUME Sound, NEW i \in 1..Parts, conn'[i] = "wrote"
                   PROVE  /\ segs'[i].current \in 1..Len(part)
                          /\ part[segs'[i].current] = etag
      BY <1>1 DEF RangeHolds, Sound, files, history
    <3>2. i # s /\ conn[i] = "wrote"
      BY <1>2, <3>1
    <3>3. i <= Len(segs)
      BY <1>1, <3>2 DEF DownloadInv, Control
    <3>4. segs'[i] = segs[i]
      BY <1>3, <1>4, <3>2, <3>3
    <3> QED
      BY <1>1, <3>1, <3>2, <3>4 DEF DownloadInv, Data, RangeHolds
  <2>3. SavedHolds'
    BY <1>1 DEF DownloadInv, Data, SavedHolds, Sound, Tagged, Holds, files, history
  <2>4. StreamHolds' /\ SaveHolds' /\ ReplaceHolds'
    BY <1>1 DEF StreamHolds, SaveHolds, ReplaceHolds
  <2> QED
    BY <2>1, <2>2, <2>3, <2>4 DEF Data
<1> QED
  BY <1>5, <1>6, <1>7, <1>8 DEF DownloadInv

\* The blocks that .part already has are read and dropped.
LEMMA DrainsKeepsInv ==
  ASSUME DownloadInv, StreamDrains
  PROVE  DownloadInv'
<1>1. /\ pc = "stream" /\ conn[1] = "open" /\ pos < goal /\ pos' = goal
      /\ UNCHANGED <<files, pc, etag, ranged, parts, segs, conn, tries, goal, body,
                     saver, stop, late, history>>
  BY DEF StreamDrains
<1>2. TypeOK' /\ Bounded'
  BY <1>1 DEF DownloadInv, TypeOK, Bounded, files, history
<1>3. Control' /\ Loaded'
  BY <1>1 DEF DownloadInv, Control, Loaded, Transferring
<1>4. Order'
  BY <1>1 DEF DownloadInv, Order, Active, Tagged, Transferring, files, history
<1>5. Data'
  <2>1. PartHolds' /\ RangeHolds' /\ SaveHolds' /\ SavedHolds' /\ ReplaceHolds'
    BY <1>1 DEF DownloadInv, Data, PartHolds, RangeHolds, SaveHolds, SavedHolds,
                ReplaceHolds, Sound, Tagged, Fetched, Holds, files, history
  <2>2. StreamHolds'
    BY <1>1 DEF DownloadInv, Data, StreamHolds, Sound, Active, files, history
  <2> QED
    BY <2>1, <2>2 DEF Data
<1> QED
  BY <1>2, <1>3, <1>4, <1>5 DEF DownloadInv

\* The stream counts the block it wrote, or the last one: everything before its
\* position is in .part.
LEMMA StreamGoesOnKeepsInv ==
  ASSUME DownloadInv, StreamAdvances \/ StreamDone
  PROVE  DownloadInv'
<1>1. /\ pc = "stream" /\ conn[1] \in {"wrote", "open"}
      /\ saver \notin {"first", "saving"}
      /\ conn[1] = "open" => pos = Size + 1
      /\ UNCHANGED <<files, pc, etag, ranged, parts, tries, goal, body, saver, stop,
                     late, history>>
  BY DEF StreamAdvances, StreamDone, LoopFree
<1>2. /\ segs \in Seq(Segment) /\ Single(segs) /\ segs # <<>>
      /\ \A i \in 1..Parts : i # 1 => conn[i] = "off"
      /\ conn \in [1..Parts -> ConnStates] /\ pos \in 1..(Size + 1)
      /\ goal \in 1..(Size + 1)
      /\ conn[1] = "wrote" => goal <= pos /\ pos <= Size
  BY <1>1 DEF DownloadInv, TypeOK, Control, ConnStates
<1>3. Len(segs) = 1 /\ segs[1].start = 1 /\ segs[1].end = Size /\ 1 \in 1..Len(segs)
  BY <1>2 DEF Single
<1>4. PICK c \in 1..(Size + 1), d \in BOOLEAN, to \in {"off", "open"} :
        /\ segs' = Advanced(segs, 1, c, d)
        /\ pos' = c
        /\ \A b \in Blocks : b < c => b < pos \/ (b = pos /\ conn[1] = "wrote")
        /\ conn' = [conn EXCEPT ![1] = to]
  <2>1. CASE StreamAdvances
    <3>1. /\ conn[1] = "wrote" /\ pos' = pos + 1
          /\ segs' = Advanced(segs, 1, pos + 1, segs[1].done)
          /\ conn' = [conn EXCEPT ![1] = "open"]
      BY <2>1 DEF StreamAdvances, Advanced
    <3>2. segs[1].done \in BOOLEAN
      <4>1. segs[1] \in Segment
        BY <1>2, <1>3, ElementOfSeq
      <4> QED
        BY <4>1 DEF Segment
    <3>3. pos + 1 \in 1..(Size + 1)
      BY <1>2, <3>1, ConstantsAreSmall
    <3>4. \A b \in Blocks : b < pos + 1 => b < pos \/ (b = pos /\ conn[1] = "wrote")
      BY <1>2, <3>1, ConstantsAreSmall DEF Blocks
    <3> QED
      BY <3>1, <3>2, <3>3, <3>4
  <2>2. CASE StreamDone
    <3>1. /\ pos = Size + 1 /\ pos' = pos
          /\ segs' = Advanced(segs, 1, Size + 1, TRUE)
          /\ conn' = [conn EXCEPT ![1] = "off"]
      BY <2>2 DEF StreamDone, Advanced
    <3> QED
      BY <1>2, <3>1
  <2> QED
    BY <2>1, <2>2
<1>5. /\ 1 \in 1..Parts
      /\ conn'[1] \in {"off", "open"}
      /\ \A i \in 1..Parts : i # 1 => conn'[i] = "off"
      /\ conn' \in [1..Parts -> ConnStates]
  BY <1>2, <1>4, ConstantsAreSmall DEF ConnStates
<1>6. segs' \in Seq(Segment)
  BY <1>2, <1>3, <1>4, ProgressClaims
<1>7. Len(segs') = 1
  BY <1>2, <1>3, <1>4, ProgressClaims
<1>8. segs'[1].start = 1 /\ segs'[1].end = Size
  BY <1>2, <1>3, <1>4, ProgressClaims
<1>9. \A b \in Claimed(segs') : b \in Claimed(segs) \/ (b \in 1 .. (c - 1))
  <2>1. \A b \in Claimed(segs') :
          b \in Claimed(segs) \/ (b \in segs[1].start .. (c - 1))
    BY <1>2, <1>3, <1>4, ProgressClaims
  <2> QED
    BY <1>3, <2>1
<1>10. TypeOK' /\ Bounded'
  <2>1. TypeOK /\ Bounded
    BY DEF DownloadInv
  <2>2. pos' \in 1..(Size + 1)
    BY <1>4
  <2>3. segs' \in Seq(Segment) /\ Len(segs') <= Parts
    BY <1>6, <1>7, ConstantsAreSmall
  <2>4. TypeOK'
    BY <1>1, <1>5, <2>1, <2>2, <2>3 DEF TypeOK, files, history, ConnStates
  <2>5. Bounded'
    BY <1>1, <2>1 DEF Bounded, files, history
  <2> QED
    BY <2>4, <2>5
<1>11. Control' /\ Loaded'
  <2>1. segs' # <<>>
    <3>1. Len(<<>>) = 0
      BY EmptySeq
    <3> QED
      BY <1>7, <3>1
  <2> QED
    BY <1>1, <1>5, <1>7, <1>8, <2>1
    DEF DownloadInv, Control, Loaded, Transferring, Single
<1>12. Order'
  <2>1. \A i \in 1..Parts : Active(i)' => Active(i)
    BY <1>1, <1>2, <1>5 DEF Active
  <2> QED
    BY <1>1, <2>1 DEF DownloadInv, Order, Tagged, Transferring, files, history
<1>13. Data'
  <2>1. ASSUME Sound, NEW b \in Blocks, b < c \/ b < goal
        PROVE  b \in 1..Len(part) /\ part[b] = body[1]
    BY <1>1, <1>4, <2>1 DEF DownloadInv, Data, StreamHolds, Active
  <2>2. PartHolds'
    <3>1. SUFFICES ASSUME Sound, NEW b \in Claimed(segs')
                   PROVE  b \in 1..Len(part) /\ part[b] = Fetched
      BY <1>1 DEF PartHolds, Sound, Holds, Fetched, files, history
    <3>2. CASE b \in Claimed(segs)
      BY <1>1, <3>1, <3>2 DEF DownloadInv, Data, PartHolds, Holds
    <3>3. CASE b \in 1 .. (c - 1)
      <4>1. b \in Blocks /\ b < c
        BY <1>4, <3>3, ConstantsAreSmall DEF Blocks
      <4>2. body[1] = Fetched
        BY <1>1, <1>5 DEF Fetched, DownloadInv, Order, Active, Transferring
      <4> QED
        BY <2>1, <3>1, <4>1, <4>2
    <3> QED
      BY <1>9, <3>1, <3>2, <3>3
  <2>3. StreamHolds'
    <3>1. Sound' => Sound
      BY <1>1 DEF Sound, files, history
    <3>2. SUFFICES ASSUME Sound, NEW b \in Blocks, b < c \/ b < goal
                   PROVE  b \in 1..Len(part) /\ part[b] = body[1]
      BY <1>1, <1>4, <1>5, <3>1 DEF StreamHolds, files
    <3> QED
      BY <2>1, <3>2
  <2>4. SavedHolds'
    BY <1>1 DEF DownloadInv, Data, SavedHolds, Sound, Tagged, Holds, files, history
  <2>5. RangeHolds' /\ SaveHolds' /\ ReplaceHolds'
    BY <1>1 DEF RangeHolds, SaveHolds, ReplaceHolds
  <2> QED
    BY <2>2, <2>3, <2>4, <2>5 DEF Data
<1> QED
  BY <1>10, <1>11, <1>12, <1>13 DEF DownloadInv

\* A stream gets its response: what it read is compared with .part, or .part starts
\* again with it.
LEMMA StreamOpensKeepsInv ==
  ASSUME DownloadInv, NEW h \in Blocks, StreamOpens(h)
  PROVE  DownloadInv'
<1> DEFINE previous == IF segs = <<>> THEN 1 ELSE segs[1].current
           sample   == [b \in 1..h |-> server]
           fresh    == <<[start |-> 1, end |-> Size, current |-> h + 1,
                          done |-> FALSE]>>
           matches  == /\ previous > 1
                       /\ part # NoFile /\ Len(part) >= h
                       /\ SubSeq(part, 1, h) = sample
<1>1. /\ pc = "stream" /\ saver # "saving" /\ conn[1] = "ask"
      /\ etag # NoTag => server = etag
      /\ body' = [body EXCEPT ![1] = server] /\ pos' = h + 1
      /\ \E to \in {"off", "open"} : conn' = [conn EXCEPT ![1] = to]
      /\ UNCHANGED <<server, durable, saved, dest, pc, etag, ranged, parts, tries,
                     saver, stop, late, runs, crashes, misled, struck>>
  BY DEF StreamOpens, LoopFree
<1>2. \/ /\ matches /\ goal' = previous /\ UNCHANGED <<part, segs, outdated>>
      \/ /\ goal' = 1 /\ part' = sample /\ outdated' = (saved # NoFile)
         /\ segs' = fresh
  BY DEF StreamOpens
<1>3. h \in 1..Size /\ Size \in Nat /\ h + 1 \in 1..(Size + 1)
  BY ConstantsAreSmall DEF Blocks
<1>4. /\ server \in Content /\ server \in Nat /\ server <= server
      /\ server \in Versions
  BY ConstantsAreSmall DEF DownloadInv, TypeOK
<1>5. sample \in Files /\ Len(sample) = h /\ \A b \in 1..h : sample[b] = server
  <2>1. sample \in [1..h -> Content]
    BY <1>4
  <2> QED
    BY <1>3, <2>1 DEF Files
<1>6. /\ fresh \in Seq(Segment) /\ Len(fresh) = 1 /\ fresh # <<>>
      /\ fresh[1].start = 1 /\ fresh[1].end = Size
      /\ Claimed(fresh) \subseteq 1..h
  <2> DEFINE seg == [start |-> 1, end |-> Size, current |-> h + 1, done |-> FALSE]
  <2>1. seg \in Segment
    BY <1>3 DEF Segment, Blocks
  <2>2. seg.start = 1 /\ seg.end = Size /\ seg.current = h + 1
    OBVIOUS
  <2>3. fresh = <<seg>>
    OBVIOUS
  <2> HIDE DEF seg
  <2>4. fresh \in Seq(Segment) /\ Len(fresh) = 1 /\ fresh # <<>> /\ fresh[1] = seg
    <3>1. <<seg>> \in Seq(Segment) /\ Len(<<seg>>) = 1
      BY <2>1
    <3>2. <<seg>>[1] = seg
      OBVIOUS
    <3> QED
      BY <2>3, <3>1, <3>2, EmptySeq
  <2> HIDE DEF fresh
  <2>5. ASSUME NEW b \in Claimed(fresh)
        PROVE  b \in 1..h
    <3>1. b \in 1 .. ((h + 1) - 1)
      BY <2>2, <2>4, <2>5 DEF Claimed
    <3> QED
      BY <1>3, <3>1
  <2> QED
    BY <2>2, <2>4, <2>5
<1>7. /\ 1 \in 1..Parts /\ conn'[1] \in {"off", "open"}
      /\ \A i \in 1..Parts : i # 1 => conn'[i] = "off"
      /\ body'[1] = server /\ body' \in [1..Parts -> Versions]
      /\ \A i \in 1..Parts : body'[i] <= server
      /\ conn' \in [1..Parts -> ConnStates]
  <2>1. /\ 1 \in 1..Parts /\ body \in [1..Parts -> Versions]
        /\ conn \in [1..Parts -> ConnStates]
        /\ \A i \in 1..Parts : i # 1 => conn[i] = "off"
        /\ \A i \in 1..Parts : body[i] <= server
    <3>1. 1 \in 1..Parts
      BY ConstantsAreSmall
    <3>2. body \in [1..Parts -> Versions] /\ conn \in [1..Parts -> ConnStates]
      BY DEF DownloadInv, TypeOK, ConnStates
    <3>3. \A i \in 1..Parts : i # 1 => conn[i] = "off"
      BY <1>1 DEF DownloadInv, Control
    <3>4. \A i \in 1..Parts : body[i] <= server
      BY DEF DownloadInv, Order
    <3> QED
      BY <3>1, <3>2, <3>3, <3>4
  <2>2. /\ body' \in [1..Parts -> Versions] /\ body'[1] = server
        /\ \A i \in 1..Parts : i # 1 => body'[i] = body[i]
    BY <1>1, <1>4, <2>1
  <2>3. PICK to \in {"off", "open"} : conn' = [conn EXCEPT ![1] = to]
    BY <1>1
  <2>4. /\ conn' \in [1..Parts -> ConnStates] /\ conn'[1] = to
        /\ \A i \in 1..Parts : i # 1 => conn'[i] = conn[i]
    BY <2>1, <2>3 DEF ConnStates
  <2> QED
    BY <1>4, <2>1, <2>2, <2>3, <2>4
<1>8. /\ Single(segs) /\ segs \in Seq(Segment)
      /\ etag = NoTag /\ segs # <<>> => segs[1].current = 1
  BY <1>1 DEF DownloadInv, Control, TypeOK
<1>9. matches =>
        /\ segs # <<>> /\ etag # NoTag /\ etag = server
        /\ Len(segs) = 1 /\ segs[1].start = 1 /\ segs[1].end = Size
        /\ previous = segs[1].current /\ previous \in 1..(Size + 1)
  <2>1. SUFFICES ASSUME matches
                 PROVE  /\ segs # <<>> /\ etag # NoTag /\ etag = server
                        /\ Len(segs) = 1 /\ segs[1].start = 1
                        /\ segs[1].end = Size
                        /\ previous = segs[1].current
                        /\ previous \in 1..(Size + 1)
    OBVIOUS
  <2>2. previous > 1
    BY <2>1
  <2>3. segs # <<>> /\ previous = segs[1].current
    BY <2>2
  <2>4. Len(segs) = 1 /\ segs[1].start = 1 /\ segs[1].end = Size
    BY <1>8, <2>3 DEF Single
  <2>5. segs[1] \in Segment
    <3>1. 1 \in 1..Len(segs)
      BY <2>4
    <3> QED
      BY <1>8, <3>1, ElementOfSeq
  <2>6. etag # NoTag
    BY <1>8, <2>2, <2>3
  <2> QED
    BY <1>1, <2>3, <2>4, <2>5, <2>6 DEF Segment
<1> HIDE DEF fresh, sample
<1>10. /\ segs' \in Seq(Segment) /\ Len(segs') = 1 /\ segs' # <<>>
       /\ segs'[1].start = 1 /\ segs'[1].end = Size
       /\ goal' \in 1..(Size + 1)
       /\ outdated' \in BOOLEAN
       /\ part' \in Files \cup {NoFile}
       /\ part' # NoFile => Len(part') <= Size
  <2>1. CASE matches /\ goal' = previous /\ UNCHANGED <<part, segs, outdated>>
    BY <1>8, <1>9, <2>1 DEF DownloadInv, TypeOK, Bounded, Files
  <2>2. CASE /\ goal' = 1 /\ part' = sample /\ outdated' = (saved # NoFile)
             /\ segs' = fresh
    <3>1. 1 \in 1..(Size + 1) /\ h <= Size
      BY <1>3
    <3> QED
      BY <1>5, <1>6, <2>2, <3>1
  <2> QED
    BY <1>2, <2>1, <2>2
<1>11. TypeOK' /\ Bounded'
  <2>1. pos' \in 1..(Size + 1) /\ Len(segs') <= Parts
    BY <1>1, <1>3, <1>10, ConstantsAreSmall
  <2> QED
    BY <1>1, <1>7, <1>10, <2>1
    DEF DownloadInv, TypeOK, Bounded, Files, ConnStates
<1>12. Control' /\ Loaded'
  BY <1>1, <1>7, <1>10 DEF DownloadInv, Control, Loaded, Transferring, Single
<1>13. \/ matches /\ outdated' = outdated
       \/ saved = NoFile \/ outdated'
  <2>1. CASE outdated' = (saved # NoFile)
    BY <2>1
  <2> QED
    BY <1>2, <2>1
<1>14. Order'
  <2>1. Tagged' = Tagged
    BY <1>1 DEF Tagged
  <2>2. outdated' = outdated \/ saved = NoFile \/ outdated'
    BY <1>13
  <2>3. \A i \in 1..Parts : Active(i)' => i = 1
    BY <1>7 DEF Active
  <2>4. saved = NoFile \/ outdated' \/ saved.etag = etag
    BY <1>1, <1>13 DEF DownloadInv, Order
  <2>5. \A j \in late : j.kind = "write" =>
          /\ j.val <= server
          /\ etag # NoTag => j.val <= etag
          /\ Tagged /\ ~outdated' => j.val <= saved.etag
    BY <1>1, <2>2 DEF DownloadInv, Order, Tagged
  <2>6. etag # NoTag /\ Tagged => saved.etag <= etag
    BY <1>1 DEF DownloadInv, Order
  <2> QED
    BY <1>1, <1>4, <1>7, <2>1, <2>3, <2>4, <2>5, <2>6
    DEF DownloadInv, Order, Transferring
<1>15. Fetched' = server
  BY <1>1, <1>7 DEF Fetched
<1>16. Data'
  <2>1. CASE matches /\ goal' = previous /\ UNCHANGED <<part, segs, outdated>>
    <3>1. Sound' => Sound
      BY <1>1, <2>1 DEF Sound
    <3>2. Sound => Holds(part, segs, server)
      BY <1>1, <1>9, <2>1 DEF DownloadInv, Data, PartHolds, Fetched
    <3>3. PartHolds'
      BY <1>15, <2>1, <3>1, <3>2 DEF PartHolds, Holds
    <3>4. StreamHolds'
      <4>1. SUFFICES ASSUME Sound, NEW b \in Blocks, b < h + 1 \/ b < previous
                     PROVE  b \in 1..Len(part) /\ part[b] = server
        BY <1>1, <1>7, <2>1, <3>1 DEF StreamHolds
      <4>2. CASE b < previous
        <5>1. b \in segs[1].start .. (segs[1].current - 1)
          BY <1>9, <2>1, <4>2, ConstantsAreSmall DEF Blocks
        <5>2. b \in Claimed(segs)
          BY <1>9, <2>1, <5>1 DEF Claimed
        <5> QED
          BY <3>2, <4>1, <5>2 DEF Holds
      <4>3. CASE b < h + 1
        <5>1. part \in Seq(Content) /\ Len(part) \in Nat /\ Len(part) >= h
              /\ SubSeq(part, 1, h) = sample
          BY <2>1 DEF DownloadInv, TypeOK
        <5>2. b \in 1..h /\ b \in 1..Len(part)
          BY <1>3, <4>3, <5>1, ConstantsAreSmall DEF Blocks
        <5>3. SubSeq(part, 1, h)[b] = part[b]
          BY <1>3, <5>1, <5>2
        <5> QED
          BY <1>5, <5>1, <5>2, <5>3
      <4> QED
        BY <4>1, <4>2, <4>3
    <3>5. SavedHolds'
      BY <1>1, <2>1, <3>1 DEF DownloadInv, Data, SavedHolds, Tagged, Holds
    <3> QED
      BY <1>1, <3>3, <3>4, <3>5 DEF Data, RangeHolds, SaveHolds, ReplaceHolds
  <2>2. CASE /\ goal' = 1 /\ part' = sample /\ outdated' = (saved # NoFile)
             /\ segs' = fresh
    <3>1. PartHolds'
      BY <1>5, <1>6, <1>15, <2>2 DEF PartHolds, Holds
    <3>2. StreamHolds'
      <4>1. SUFFICES ASSUME NEW b \in Blocks, b < h + 1 \/ b < 1
                     PROVE  b \in 1..Len(sample) /\ sample[b] = server
        BY <1>1, <1>7, <2>2 DEF StreamHolds
      <4>2. b \in 1..h
        BY <1>3, <4>1, ConstantsAreSmall DEF Blocks
      <4> QED
        BY <1>5, <4>2
    <3>3. outdated' \/ saved = NoFile
      BY <2>2
    <3>4. SavedHolds'
      BY <1>1, <3>3 DEF SavedHolds, Tagged
    <3> QED
      BY <1>1, <3>1, <3>2, <3>4 DEF Data, RangeHolds, SaveHolds, ReplaceHolds
  <2> QED
    BY <1>2, <2>1, <2>2
<1> QED
  BY <1>11, <1>12, <1>14, <1>16 DEF DownloadInv

\* A transfer whose map is covered and done, in a .part of the right length, is one
\* version of the file (_assert_complete_transfer).
LEMMA FinalizeKeepsInv ==
  ASSUME DownloadInv, Finalize
  PROVE  DownloadInv'
<1>1. /\ Transferring /\ TasksOver /\ TransferComplete /\ pc' = "replace"
      /\ UNCHANGED <<files, etag, ranged, parts, segs, conn, tries, pos, goal, body,
                     saver, stop, late, history>>
      /\ saver # "saving"
  BY DEF Finalize
<1>2. TypeOK' /\ Bounded'
  BY <1>1 DEF DownloadInv, TypeOK, Bounded, files, history
<1>3. Control' /\ Loaded'
  BY <1>1 DEF DownloadInv, Control, Loaded, TasksOver, Transferring
<1>4. Order'
  BY <1>1 DEF DownloadInv, Order, Tagged, Transferring, files, history
<1>5. Data'
  <2>1. PartHolds'
    BY <1>1 DEF DownloadInv, Data, PartHolds, Sound, Fetched, Holds, Transferring,
                files, history
  <2>2. SavedHolds'
    BY <1>1 DEF DownloadInv, Data, SavedHolds, Sound, Tagged, Holds, files, history
  <2>3. RangeHolds' /\ StreamHolds' /\ SaveHolds'
    BY <1>1 DEF RangeHolds, StreamHolds, SaveHolds
  <2>4. ReplaceHolds'
    <3>1. SUFFICES ASSUME Sound
                   PROVE  \E v \in Versions :
                            part = Whole(v) /\ (etag # NoTag => v = etag)
      BY <1>1 DEF ReplaceHolds, Sound, files, history
    <3>2. /\ segs \in Seq(Segment) /\ CoversFile(segs)
          /\ \A i \in 1..Len(segs) : segs[i].done
          /\ part \in Files /\ Len(part) = Size
      BY <1>1 DEF DownloadInv, TypeOK, TransferComplete, Files
    <3>3. Blocks \subseteq Claimed(segs)
      BY <3>2, CoverIsWhole
    <3>4. Holds(part, segs, Fetched)
      BY <1>1, <3>1 DEF DownloadInv, Data, PartHolds, Transferring
    <3>5. \A b \in Blocks : part[b] = Fetched
      BY <3>3, <3>4 DEF Holds
    <3>6. Fetched \in Versions /\ Fetched \in Content
          /\ (etag # NoTag => Fetched = etag)
      <4>1. body[1] \in Versions /\ etag \in Tags
        <5>1. 1 \in 1..Parts
          BY ConstantsAreSmall
        <5> QED
          BY <5>1 DEF DownloadInv, TypeOK
      <4> QED
        BY <4>1, ConstantsAreSmall DEF Fetched, Tags
    <3>7. part = Whole(Fetched)
      BY <3>2, <3>5, <3>6, WholeIfAllBlocks
    <3> QED
      BY <3>6, <3>7
  <2> QED
    BY <2>1, <2>2, <2>3, <2>4 DEF Data
<1> QED
  BY <1>2, <1>3, <1>4, <1>5 DEF DownloadInv

\* .part becomes the destination: there is no .part any more.
LEMMA ReplaceKeepsInv ==
  ASSUME DownloadInv, Replace
  PROVE  DownloadInv'
<1>1. /\ pc = "replace" /\ part # NoFile /\ dest' = part /\ part' = NoFile
      /\ durable' = NoFile /\ pc' = "replaced"
      /\ UNCHANGED <<server, saved, etag, ranged, parts, segs, conn, tries, pos,
                     goal, body, saver, stop, late, history>>
  BY DEF Replace
<1>2. TypeOK' /\ Bounded'
  BY <1>1 DEF DownloadInv, TypeOK, Bounded, history
<1>3. Control' /\ Loaded'
  BY <1>1 DEF DownloadInv, Control, Loaded, TasksOver, Transferring
<1>4. Order'
  BY <1>1 DEF DownloadInv, Order, Tagged, Transferring, history
<1>5. Data'
  BY <1>1 DEF Data, PartHolds, RangeHolds, StreamHolds, SaveHolds, SavedHolds,
              ReplaceHolds, Sound
<1> QED
  BY <1>2, <1>3, <1>4, <1>5 DEF DownloadInv

\* The session is over and state.json is removed, or stays.
LEMMA CompleteKeepsInv ==
  ASSUME DownloadInv, Complete
  PROVE  DownloadInv'
<1>1. /\ pc' = "idle" /\ conn' = NoTasks /\ tries' = [s \in 1..Parts |-> 0]
      /\ segs' = <<>> /\ etag' = NoTag /\ ranged' = FALSE /\ parts' = Parts
      /\ pos' = 1 /\ goal' = 1 /\ body' = [s \in 1..Parts |-> 1]
      /\ saver' = "off" /\ stop' = "no"
      /\ UNCHANGED <<server, part, durable, dest, late, runs, crashes, misled,
                     struck>>
  BY DEF Complete, End
<1>2. /\ saved' \in {NoFile, saved}
      /\ outdated' \in BOOLEAN
      /\ saved' # NoFile => saved' = saved /\ outdated' = outdated
  <2>1. outdated \in BOOLEAN
    BY DEF DownloadInv, TypeOK
  <2> QED
    BY <2>1 DEF Complete
<1>3. TypeOK'
  <2>1. SessionTyped'
    BY EndIsTyped DEF Complete
  <2>2. saved' # NoFile => saved'.etag \in Tags /\ saved'.segs \in Seq(Segment)
    BY <1>2 DEF DownloadInv, TypeOK
  <2> QED
    BY <1>1, <1>2, <2>1, <2>2 DEF DownloadInv, TypeOK, SessionTyped
<1>4. Bounded'
  BY <1>1, <1>2 DEF DownloadInv, Bounded
<1>5. Control' /\ Loaded'
  BY <1>1 DEF Control, Loaded, TasksOver, NoTasks, Transferring
<1>6. Tagged' => Tagged /\ saved' = saved /\ outdated' = outdated
  BY <1>2 DEF Tagged
<1>7. Order'
  <2>1. \A s \in 1..Parts : body'[s] <= server
    BY <1>1, ConstantsAreSmall DEF DownloadInv, TypeOK, Versions
  <2> QED
    BY <1>1, <1>6, <2>1 DEF DownloadInv, Order, Transferring
<1>8. Data'
  BY <1>1, <1>6 DEF DownloadInv, Data, PartHolds, RangeHolds, StreamHolds,
                    SaveHolds, SavedHolds, ReplaceHolds, Sound, Holds
<1> QED
  BY <1>3, <1>4, <1>5, <1>7, <1>8 DEF DownloadInv

\* The server has another file: what was downloaded is of an older version.
LEMMA ServerChangesKeepsInv ==
  ASSUME DownloadInv, ServerChanges
  PROVE  DownloadInv'
<1>1. /\ server' = server + 1 /\ server < MaxVersion
      /\ UNCHANGED <<part, durable, saved, dest, session, late, history>>
  BY DEF ServerChanges
<1>2. server' \in Versions /\ server <= server' /\ server \in Nat
  <2>1. server \in 1..MaxVersion /\ MaxVersion \in Nat
    BY ConstantsAssumption DEF DownloadInv, TypeOK, Versions
  <2> QED
    BY <1>1, <2>1 DEF Versions
<1>3. TypeOK' /\ Bounded'
  BY <1>1, <1>2 DEF DownloadInv, TypeOK, Bounded, session, history
<1>4. Control' /\ Loaded'
  BY <1>1 DEF DownloadInv, Control, Loaded, TasksOver, Transferring, session
<1>5. Order'
  <2>1. \A x \in Versions : x <= server => x <= server'
    BY <1>2, ConstantsAreSmall
  <2>2. /\ etag \in Tags /\ body \in [1..Parts -> Versions]
        /\ saved # NoFile => saved.etag \in Tags
        /\ \A j \in late : j.kind = "write" => j.val \in Versions
    BY DEF DownloadInv, TypeOK, Bounded
  <2>3. /\ etag # NoTag => etag <= server'
        /\ Tagged => saved.etag <= server'
        /\ \A s \in 1..Parts : body[s] <= server'
        /\ \A j \in late : j.kind = "write" => j.val <= server'
    BY <2>1, <2>2 DEF DownloadInv, Order, Tagged, Tags
  <2> QED
    BY <1>1, <2>3
    DEF DownloadInv, Order, Tagged, Active, Transferring, session, history
<1>6. Data'
  BY <1>1 DEF DownloadInv, Data, PartHolds, RangeHolds, StreamHolds, SaveHolds,
              SavedHolds, ReplaceHolds, Sound, Tagged, Fetched, Active, Holds,
              session, history
<1> QED
  BY <1>3, <1>4, <1>5, <1>6 DEF DownloadInv

-----------------------------------------------------------------------------
(***************************************************************************)
(* What the pool still does for a task that was cancelled.                 *)
(***************************************************************************)
LEMMA LateWriteKeepsInv ==
  ASSUME DownloadInv, NEW job \in late, LateWrite(job),
         UNCHANGED <<server, saved, session, runs, crashes>>
  PROVE  DownloadInv'
<1> DEFINE version == IF pc # "idle" THEN etag
                      ELSE IF saved # NoFile THEN saved.etag ELSE NoTag
           v  == job.val
           at == job.at
<1>1. /\ part' = IF part = NoFile THEN NoFile ELSE Put(part, at, v)
      /\ late' \subseteq late
      /\ UNCHANGED <<server, saved, session, runs, crashes, durable, dest, outdated,
                     misled>>
  BY DEF LateWrite
<1>2. struck' = (struck \/ (part # NoFile /\ (v # version \/ Len(part) < Size)))
  BY DEF LateWrite
<1>3. struck' \in BOOLEAN
  BY <1>2 DEF DownloadInv, TypeOK
<1>4. /\ job.kind = "write" /\ at \in Blocks /\ v \in Versions /\ v \in Content
      /\ v # NoTag /\ v \in Nat
  BY ConstantsAreSmall DEF LateWrite, DownloadInv, Bounded
<1>5. part # NoFile =>
        /\ part \in Files /\ Len(part) <= Size
        /\ part' \in Files /\ Len(part') <= Size
        /\ \A i \in 1..Len(part) :
             part[i] = v => i \in 1..Len(part') /\ part'[i] = v
  <2>1. SUFFICES ASSUME part # NoFile
                 PROVE  /\ part \in Files /\ Len(part) <= Size
                        /\ part' \in Files /\ Len(part') <= Size
                        /\ \A i \in 1..Len(part) :
                             part[i] = v => i \in 1..Len(part') /\ part'[i] = v
    OBVIOUS
  <2>2. part \in Files /\ Len(part) <= Size
    BY <2>1 DEF DownloadInv, TypeOK, Bounded, Files
  <2> HIDE DEF at, v
  <2>3. /\ part' \in Files
        /\ Len(part') = IF at > Len(part) THEN at ELSE Len(part)
        /\ part'[at] = v /\ at \in 1..Len(part')
        /\ \A i \in 1..Len(part) :
             i # at => i \in 1..Len(part') /\ part'[i] = part[i]
    BY <1>1, <1>4, <2>1, <2>2, PutWritesOneBlock
  <2>4. at <= Size
    BY <1>4, ConstantsAreSmall DEF Blocks
  <2> QED
    BY <2>2, <2>3, <2>4
<1>6. Sound' => /\ Sound /\ v = version /\ Len(part) = Size
                /\ part' = Put(part, at, v)
  <2>1. SUFFICES ASSUME Sound'
                 PROVE  /\ Sound /\ v = version /\ Len(part) = Size
                        /\ part' = Put(part, at, v)
    OBVIOUS
  <2>2. part # NoFile
    BY <1>1, <2>1 DEF Sound
  <2>3. ~struck /\ v = version /\ ~(Len(part) < Size)
    BY <1>2, <2>1, <2>2 DEF Sound
  <2>4. Len(part) \in Nat
    BY <1>5, <2>2 DEF Files
  <2> QED
    BY <1>1, <1>5, <2>1, <2>2, <2>3, <2>4, ConstantsAreSmall DEF Sound
<1> HIDE DEF at, v, version
<1>7. TypeOK'
  <2>1. part' \in Seq(Content) \cup {NoFile}
    BY <1>1, <1>5 DEF Files
  <2> QED
    BY <1>1, <1>3, <2>1 DEF DownloadInv, TypeOK, session
<1>8. Bounded'
  BY <1>1, <1>5 DEF DownloadInv, Bounded
<1>9. Control' /\ Loaded'
  BY <1>1 DEF DownloadInv, Control, Loaded, TasksOver, Transferring, session
<1>10. Order'
  BY <1>1 DEF DownloadInv, Order, Active, Tagged, Transferring, session
<1>11. Sound' /\ pc # "idle" => v = etag /\ etag # NoTag /\ Fetched = v
  BY <1>4, <1>6 DEF version, Fetched
<1>12. ASSUME Sound', NEW map, Holds(part, map, v)
       PROVE  Holds(part', map, v)
  BY <1>5, <1>6, <1>12 DEF Holds, Sound
<1>13. Data'
  <2>1. PartHolds'
    <3>1. SUFFICES ASSUME Sound', pc \notin {"idle", "probe"}
                   PROVE  Holds(part', segs, Fetched)
      BY <1>1 DEF PartHolds, Fetched, Holds, session
    <3>2. Holds(part, segs, v) /\ Fetched = v
      BY <1>6, <1>11, <3>1 DEF DownloadInv, Data, PartHolds
    <3> QED
      BY <1>12, <3>1, <3>2
  <2>2. RangeHolds'
    <3>1. SUFFICES ASSUME Sound', pc = "range", NEW s \in 1..Parts,
                          conn[s] = "wrote"
                   PROVE  /\ segs[s].current \in 1..Len(part')
                          /\ part'[segs[s].current] = etag
      BY <1>1 DEF RangeHolds, session
    <3>2. /\ segs[s].current \in 1..Len(part)
          /\ part[segs[s].current] = etag
      BY <1>6, <3>1 DEF DownloadInv, Data, RangeHolds
    <3> QED
      BY <1>5, <1>6, <1>11, <3>1, <3>2 DEF Sound
  <2>3. StreamHolds'
    <3>1. SUFFICES ASSUME Sound', pc = "stream", Active(1), NEW b \in Blocks,
                          b < pos \/ b < goal \/ (b = pos /\ conn[1] = "wrote")
                   PROVE  b \in 1..Len(part') /\ part'[b] = body[1]
      BY <1>1 DEF StreamHolds, Active, session
    <3>2. b \in 1..Len(part) /\ part[b] = body[1]
      BY <1>6, <3>1 DEF DownloadInv, Data, StreamHolds
    <3>3. body[1] = v
      BY <1>11, <3>1, ConstantsAreSmall DEF DownloadInv, Order, Transferring
    <3> QED
      BY <1>5, <1>6, <3>1, <3>2, <3>3 DEF Sound
  <2>4. SaveHolds'
    BY <1>1, <1>6 DEF DownloadInv, Data, SaveHolds, Holds, session
  <2>5. SavedHolds'
    <3>1. SUFFICES ASSUME Sound', Tagged, CoversFile(saved.segs), ~outdated
                   PROVE  /\ durable # NoFile
                          /\ Holds(durable, saved.segs, saved.etag)
                          /\ Holds(part', saved.segs, saved.etag)
      BY <1>1 DEF SavedHolds, Tagged, Holds
    <3>2. v = saved.etag
      <4>1. CASE pc = "idle"
        BY <1>6, <3>1, <4>1 DEF version, Tagged
      <4>2. CASE pc = "probe"
        BY <1>11, <3>1, <4>2 DEF DownloadInv, Loaded
      <4>3. CASE pc = "truncate"
        <5>1. v <= saved.etag /\ saved.etag <= etag /\ v = etag
          BY <1>4, <1>11, <3>1, <4>3 DEF DownloadInv, Order, v
        <5>2. saved.etag \in Nat
          BY <3>1, ConstantsAreSmall DEF DownloadInv, TypeOK, Tags, Tagged
        <5> QED
          BY <1>4, <5>1, <5>2
      <4>4. CASE pc \notin {"idle", "probe", "truncate"}
        BY <1>11, <3>1, <4>4 DEF DownloadInv, Order, Tagged
      <4> QED
        BY <4>1, <4>2, <4>3, <4>4
    <3>3. /\ durable # NoFile
          /\ Holds(durable, saved.segs, saved.etag)
          /\ Holds(part, saved.segs, saved.etag)
      BY <1>6, <3>1 DEF DownloadInv, Data, SavedHolds
    <3> QED
      BY <1>12, <3>1, <3>2, <3>3
  <2>6. ReplaceHolds'
    <3>1. SUFFICES ASSUME Sound', pc = "replace"
                   PROVE  \E w \in Versions :
                            part' = Whole(w) /\ (etag # NoTag => w = etag)
      BY <1>1 DEF ReplaceHolds, session
    <3>2. part = Whole(v)
      BY <1>6, <1>11, <3>1 DEF DownloadInv, Data, ReplaceHolds
    <3>3. part' = Whole(v)
      BY <1>4, <1>6, <3>1, <3>2, PutInWhole
    <3> QED
      BY <1>4, <1>11, <3>1, <3>3
  <2> QED
    BY <2>1, <2>2, <2>3, <2>4, <2>5, <2>6 DEF Data
<1> QED
  BY <1>7, <1>8, <1>9, <1>10, <1>13 DEF DownloadInv

\* Nothing is said any more of a .part that a cancelled preallocation has reset.
LEMMA LatePreallocationKeepsInv ==
  ASSUME DownloadInv, NEW job \in late, LatePreallocation(job),
         UNCHANGED <<server, saved, session, runs, crashes>>
  PROVE  DownloadInv'
<1>1. /\ part' \in {<<>>, Blank}
      /\ \A j \in late' :
           j \in late \/ (j = Job("extend", job.at, job.val))
      /\ struck' = TRUE /\ outdated' = (saved # NoFile)
      /\ UNCHANGED <<server, saved, session, runs, crashes, durable, dest, misled>>
  BY DEF LatePreallocation
<1>2. part' \in Files /\ Len(part') <= Size
  <2>1. <<>> \in Files /\ Len(<<>>) <= Size
    BY EmptySeq, ConstantsAreSmall DEF Files
  <2>2. Blank \in Files /\ Len(Blank) <= Size
    BY WholeIsAFile, ConstantsAreSmall DEF Blank
  <2> QED
    BY <1>1, <2>1, <2>2
<1>3. \A j \in late' : j \in late \/ (j.kind = "extend" /\ j = Job(j.kind, j.at, j.val))
  BY <1>1 DEF Job
<1>4. saved = NoFile \/ outdated'
  BY <1>1
<1>5. TypeOK'
  BY <1>1, <1>2, <1>3 DEF DownloadInv, TypeOK, Files, session
<1>6. Bounded'
  BY <1>1, <1>2, <1>3 DEF DownloadInv, Bounded
<1>7. Control' /\ Loaded'
  BY <1>1 DEF DownloadInv, Control, Loaded, TasksOver, Transferring, session
<1>8. Order'
  BY <1>1, <1>3, <1>4
  DEF DownloadInv, Order, Active, Tagged, Transferring, session
<1>9. Data'
  BY <1>1 DEF Data, PartHolds, RangeHolds, StreamHolds, SaveHolds, SavedHolds,
              ReplaceHolds, Sound
<1> QED
  BY <1>5, <1>6, <1>7, <1>8, <1>9 DEF DownloadInv

\* There is no .part any more.
LEMMA LateReplaceKeepsInv ==
  ASSUME DownloadInv, NEW job \in late, LateReplace(job),
         UNCHANGED <<server, saved, session, runs, crashes>>
  PROVE  DownloadInv'
<1>1. /\ part' = NoFile
      /\ durable' \in {durable, NoFile}
      /\ dest' \in {dest, part} /\ (part = NoFile => dest' = dest)
      /\ late' \subseteq late
      /\ UNCHANGED <<server, saved, session, runs, crashes, struck, misled,
                     outdated>>
  BY DEF LateReplace
<1>2. TypeOK' /\ Bounded'
  BY <1>1 DEF DownloadInv, TypeOK, Bounded, session
<1>3. Control' /\ Loaded'
  BY <1>1 DEF DownloadInv, Control, Loaded, TasksOver, Transferring, session
<1>4. Order'
  BY <1>1 DEF DownloadInv, Order, Active, Tagged, Transferring, session
<1>5. Data'
  BY <1>1 DEF Data, PartHolds, RangeHolds, StreamHolds, SaveHolds, SavedHolds,
              ReplaceHolds, Sound
<1> QED
  BY <1>2, <1>3, <1>4, <1>5 DEF DownloadInv

\* A power loss leaves a file of the same shape, and takes nothing of a version
\* that was both synced and not overwritten since.
LEMMA LossLeavesAFile ==
  ASSUME DownloadInv, NEW f \in AfterPowerLoss, f # NoFile
  PROVE  /\ part # NoFile /\ f \in Files /\ Len(f) <= Size
         /\ durable # NoFile =>
              /\ Len(f) \in {Len(durable), Len(part)}
              /\ \A b \in 1..Len(f) :
                   b \in 1..Len(durable) /\ b \in 1..Len(part) =>
                     f[b] \in {durable[b], part[b]}
<1> DEFINE old == IF durable = NoFile THEN <<>> ELSE durable
           At(file, b) == IF b <= Len(file) THEN {file[b]} ELSE {}
           May(b) == At(old, b) \cup At(part, b)
                       \cup (IF b > Len(old) THEN {Zero} ELSE {})
<1>1. part # NoFile
  BY DEF AfterPowerLoss
<1>2. /\ part \in Files /\ Len(part) <= Size /\ old \in Files /\ Len(old) <= Size
  BY <1>1, EmptySeq, ConstantsAreSmall DEF DownloadInv, TypeOK, Bounded, Files
<1>3. PICK n \in {Len(old), Len(part)} :
        f \in {g \in [1..n -> Content] : \A b \in 1..n : g[b] \in May(b)}
  BY <1>1 DEF AfterPowerLoss
<1>4. f \in [1..n -> Content] /\ \A b \in 1..n : f[b] \in May(b)
  BY <1>3
<1>5. n \in Nat /\ n <= Size
  BY <1>2, <1>3 DEF Files
<1>6. f \in Files /\ Len(f) = n
  BY <1>4, <1>5 DEF Files
<1>7. ASSUME durable # NoFile, NEW b \in 1..n, b \in 1..Len(durable),
             b \in 1..Len(part)
      PROVE  f[b] \in {durable[b], part[b]}
  <2>1. old = durable /\ Len(old) \in Nat
    BY <1>2, <1>7 DEF Files
  <2>2. ~(b > Len(old))
    BY <1>7, <2>1
  <2> QED
    BY <1>4, <1>7, <2>1, <2>2
<1> QED
  BY <1>1, <1>3, <1>5, <1>6, <1>7

\* What both .part and its last sync hold of a version, a power loss leaves.
LEMMA LossKeepsVersion ==
  ASSUME DownloadInv, NEW f \in AfterPowerLoss, f # NoFile, durable # NoFile,
         NEW map, NEW v, Holds(durable, map, v), Holds(part, map, v)
  PROVE  Holds(f, map, v)
<1>1. /\ part # NoFile /\ f \in Files /\ Len(f) \in {Len(durable), Len(part)}
      /\ \A b \in 1..Len(f) :
           b \in 1..Len(durable) /\ b \in 1..Len(part) =>
             f[b] \in {durable[b], part[b]}
  BY LossLeavesAFile
<1>2. ASSUME NEW b \in Claimed(map)
      PROVE  b \in 1..Len(f) /\ f[b] = v
  <2>1. /\ b \in 1..Len(durable) /\ durable[b] = v
        /\ b \in 1..Len(part) /\ part[b] = v
    BY <1>2 DEF Holds
  <2> QED
    BY <1>1, <2>1
<1> QED
  BY <1>2 DEF Holds

\* After a power loss .part is as synced as it is.
LEMMA PowerLossKeepsInv ==
  ASSUME DownloadInv, PowerLoss
  PROVE  DownloadInv'
<1>1. /\ part' \in AfterPowerLoss /\ durable' = part' /\ late' = {}
      /\ crashes' = crashes + 1 /\ crashes < MaxCrashes
      /\ UNCHANGED <<server, saved, dest, runs, outdated, misled, struck>>
      /\ pc' = "idle" /\ conn' = NoTasks /\ segs' = <<>> /\ etag' = NoTag
      /\ body' = [s \in 1..Parts |-> 1] /\ saver' = "off" /\ ranged' = FALSE
  BY DEF PowerLoss, End
<1>2. part' # NoFile => part' \in Files /\ Len(part') <= Size
  BY <1>1, LossLeavesAFile
<1>3. TypeOK'
  <2>1. SessionTyped'
    BY EndIsTyped DEF PowerLoss
  <2>2. crashes' \in 0..MaxCrashes
    BY <1>1, ConstantsAssumption DEF DownloadInv, TypeOK
  <2> QED
    BY <1>1, <1>2, <2>1, <2>2 DEF DownloadInv, TypeOK, SessionTyped, Files
<1>4. Bounded'
  BY <1>1, <1>2 DEF DownloadInv, Bounded
<1>5. Control' /\ Loaded'
  BY <1>1 DEF Control, Loaded, TasksOver, NoTasks, Transferring
<1>6. Order'
  <2>1. \A s \in 1..Parts : body'[s] <= server
    BY <1>1, ConstantsAreSmall DEF DownloadInv, TypeOK, Versions
  <2> QED
    BY <1>1, <2>1 DEF DownloadInv, Order, Tagged, Transferring
<1>7. Data'
  <2>1. SavedHolds'
    <3>1. SUFFICES ASSUME Sound', Tagged, CoversFile(saved.segs), ~outdated
                   PROVE  /\ part' # NoFile
                          /\ Holds(part', saved.segs, saved.etag)
      BY <1>1 DEF SavedHolds, Tagged, Holds
    <3>2. part' # NoFile /\ ~misled /\ ~struck
      BY <1>1, <3>1 DEF Sound
    <3>3. part # NoFile
      BY <1>1, <3>2, LossLeavesAFile
    <3>4. /\ durable # NoFile
          /\ Holds(durable, saved.segs, saved.etag)
          /\ Holds(part, saved.segs, saved.etag)
      BY <3>1, <3>2, <3>3 DEF DownloadInv, Data, SavedHolds, Sound
    <3> QED
      BY <1>1, <3>2, <3>4, LossKeepsVersion
  <2> QED
    BY <1>1, <2>1 DEF Data, PartHolds, RangeHolds, StreamHolds, SaveHolds,
                      ReplaceHolds
<1> QED
  BY <1>3, <1>4, <1>5, <1>6, <1>7 DEF DownloadInv

-----------------------------------------------------------------------------
(***************************************************************************)
(* Every step, one by one.                                                 *)
(***************************************************************************)
LEMMA SegmentStepKeepsInv ==
  ASSUME DownloadInv, NEW s \in 1..Parts, SegmentStep(s)
  PROVE  DownloadInv'
<1>1. CASE SegmentAccepted(s)
  BY <1>1, AcceptedKeepsInv
<1>2. CASE SegmentRejected(s) \/ SegmentGivesUp(s)
  <2>1. pc = "range" /\ Fail
    BY <1>2 DEF SegmentRejected, SegmentGivesUp
  <2> QED
    BY <2>1, LastSaveKeepsInv DEF Fail
<1>3. CASE SegmentIgnored(s)
  BY <1>3, IgnoredKeepsInv
<1>4. CASE SegmentRetries(s)
  <2>1. tries' \in [1..Parts -> 0..(MaxTries - 1)]
    <3>1. tries \in [1..Parts -> 0..(MaxTries - 1)]
      BY DEF DownloadInv, TypeOK
    <3>2. tries[s] + 1 \in 0..(MaxTries - 1)
      BY <1>4, <3>1, ConstantsAssumption DEF SegmentRetries
    <3>3. tries' = [tries EXCEPT ![s] = tries[s] + 1]
      BY <1>4 DEF SegmentRetries
    <3> QED
      BY <3>1, <3>2, <3>3
  <2>2. "ask" \in ConnStates \ {"wrote"} /\ conn[s] # "off" /\ pc = "range"
    BY <1>4 DEF ConnStates, SegmentRetries
  <2>3. /\ conn' = [conn EXCEPT ![s] = "ask"]
        /\ UNCHANGED <<files, pc, etag, ranged, parts, segs, pos, goal, body,
                       saver, stop, late, history>>
    BY <1>4 DEF SegmentRetries
  <2> QED
    BY <2>1, <2>2, <2>3, MoveKeepsInv
<1>5. CASE SegmentChunk(s)
  <2>1. /\ pc = "range" /\ conn[s] = "open" /\ segs[s].current <= segs[s].end
        /\ Move(s, "busy")
    BY <1>5 DEF SegmentChunk
  <2> QED
    BY <2>1, MoveIsAMove DEF Active, ConnStates
<1>6. CASE SegmentAdvances(s)
  BY <1>6, AdvancesKeepsInv
<1>7. CASE SegmentDone(s)
  BY <1>7, SegmentDoneKeepsInv
<1>8. CASE TaskReturns(s)
  <2>1. conn[s] # "off" /\ Move(s, "off")
    BY <1>8 DEF TaskReturns
  <2> QED
    BY <2>1, MoveIsAMove DEF ConnStates
<1> QED
  BY <1>1, <1>2, <1>3, <1>4, <1>5, <1>6, <1>7, <1>8 DEF SegmentStep

LEMMA StreamStepKeepsInv ==
  ASSUME DownloadInv, StreamStep
  PROVE  DownloadInv'
<1>1. CASE \E h \in Blocks : StreamOpens(h)
  BY <1>1, StreamOpensKeepsInv
<1>2. CASE StreamFails
  BY <1>2, LastSaveKeepsInv DEF StreamFails, Fail
<1>3. CASE StreamDrains
  BY <1>3, DrainsKeepsInv
<1>4. CASE StreamChunk
  <2>1. /\ pc = "stream" /\ conn[1] = "open" /\ pos >= goal /\ pos <= Size
        /\ Move(1, "busy")
    BY <1>4 DEF StreamChunk
  <2>2. 1 \in 1..Parts /\ goal <= pos
    BY <2>1, ConstantsAreSmall DEF DownloadInv, TypeOK
  <2> QED
    BY <2>1, <2>2, MoveIsAMove DEF Active, ConnStates
<1>5. CASE StreamAdvances \/ StreamDone
  BY <1>5, StreamGoesOnKeepsInv
<1> QED
  BY <1>1, <1>2, <1>3, <1>4, <1>5 DEF StreamStep

LEMMA MainStepKeepsInv ==
  ASSUME DownloadInv, MainStep
  PROVE  DownloadInv'
<1>1. CASE ProbeFails \/ BeginStopped
  <2>1. /\ End /\ UNCHANGED <<files, outdated, misled, struck>>
        /\ late' \subseteq late \cup JobsInFlight /\ runs' = runs
        /\ crashes' \in 0..MaxCrashes
    BY <1>1 DEF ProbeFails, BeginStopped, history, DownloadInv, TypeOK
  <2> QED
    BY <2>1, EndKeepsInv
<1>2. CASE \E tag \in Tags, ranges \in BOOLEAN : ProbeAnswers(tag, ranges)
  BY <1>2, ProbeAnswersKeepsInv
<1>3. CASE Begin
  BY <1>3, BeginKeepsInv
<1>4. CASE Finalize
  BY <1>4, FinalizeKeepsInv
<1>5. CASE FinalizeRefuses \/ Pause \/ ReplaceFails
  <2>1. /\ pc \notin {"idle", "probe", "truncate"} /\ BeginLastSave
        /\ UNCHANGED <<server, part, saved, dest, history>>
    BY <1>5 DEF FinalizeRefuses, Pause, ReplaceFails, Fail, Transferring
  <2> QED
    BY <2>1, LastSaveKeepsInv
<1>6. CASE Complete
  BY <1>6, CompleteKeepsInv
<1>7. CASE Cancel
  <2>1. /\ End /\ UNCHANGED <<files, outdated, misled, struck>>
        /\ late' \subseteq late \cup JobsInFlight /\ runs' = runs
        /\ crashes' \in 0..MaxCrashes
    BY <1>7 DEF Cancel, history, DownloadInv, TypeOK
  <2> QED
    BY <2>1, EndKeepsInv
<1> QED
  BY <1>1, <1>2, <1>3, <1>4, <1>5, <1>6, <1>7 DEF MainStep

LEMMA SaverStepKeepsInv ==
  ASSUME DownloadInv, SaverStep
  PROVE  DownloadInv'
<1>1. CASE BeginSave
  BY <1>1, BeginSaveKeepsInv
<1>2. CASE NoFirstSave
  BY <1>2, SaverWaitsKeepsInv DEF NoFirstSave
<1>3. CASE EndSave
  BY <1>3, EndSaveKeepsInv
<1>4. CASE SaveFails
  <2>1. CASE pc = "parting"
    <3>1. /\ End /\ UNCHANGED <<files, outdated, misled, struck>>
          /\ late' \subseteq late \cup JobsInFlight /\ runs' = runs
          /\ crashes' \in 0..MaxCrashes
      BY <1>4, <2>1 DEF SaveFails, Resumed, history, DownloadInv, TypeOK
    <3> QED
      BY <3>1, EndKeepsInv
  <2>2. CASE pc # "parting"
    BY <1>4, <2>2, SaverWaitsKeepsInv DEF SaveFails, Resumed
  <2> QED
    BY <2>1, <2>2
<1> QED
  BY <1>1, <1>2, <1>3, <1>4 DEF SaverStep

LEMMA PoolStepKeepsInv ==
  ASSUME DownloadInv, PoolStep
  PROVE  DownloadInv'
<1>1. CASE Truncate \/ Extend
  BY <1>1, PreallocateKeepsInv
<1>2. CASE PreallocateFails
  <2>1. /\ End /\ UNCHANGED <<files, outdated, misled, struck>>
        /\ late' \subseteq late \cup JobsInFlight /\ runs' = runs
        /\ crashes' \in 0..MaxCrashes
    BY <1>2 DEF PreallocateFails, history, DownloadInv, TypeOK
  <2> QED
    BY <2>1, EndKeepsInv
<1>3. CASE Replace
  BY <1>3, ReplaceKeepsInv
<1>4. CASE \E s \in 1..Parts : Write(s)
  BY <1>4, WriteKeepsInv
<1>5. CASE \E s \in 1..Parts : WriteFails(s)
  <2>1. PICK s \in 1..Parts : conn[s] = "busy" /\ Move(s, "broke")
    BY <1>5 DEF WriteFails
  <2> QED
    BY <2>1, MoveIsAMove DEF ConnStates
<1> QED
  BY <1>1, <1>2, <1>3, <1>4, <1>5 DEF PoolStep

\* One case for each disjunct of Next.
LEMMA NextKeepsInv ==
  ASSUME DownloadInv, [Next]_vars
  PROVE  DownloadInv'
<1>1. CASE Start
  BY <1>1, StartKeepsInv
<1>2. CASE MainStep \/ SaverStep \/ PoolStep \/ StreamStep
  BY <1>2, MainStepKeepsInv, SaverStepKeepsInv, PoolStepKeepsInv,
     StreamStepKeepsInv
<1>3. CASE \E s \in 1..Parts : SegmentStep(s)
  BY <1>3, SegmentStepKeepsInv
<1>4. CASE Stop \/ StopEarly \/ UNCHANGED vars
  BY <1>4, StopKeepsInv
<1>5. CASE \E job \in late : LateJob(job)
  <2>1. PICK job \in late :
          /\ LateWrite(job) \/ LatePreallocation(job) \/ LateReplace(job)
          /\ UNCHANGED <<server, saved, session, runs, crashes>>
    BY <1>5 DEF LateJob
  <2> QED
    BY <2>1, LateWriteKeepsInv, LatePreallocationKeepsInv, LateReplaceKeepsInv
<1>6. CASE Crash
  <2>1. /\ End /\ UNCHANGED <<files, outdated, misled, struck>>
        /\ late' \subseteq late \cup JobsInFlight /\ runs' = runs
        /\ crashes' = crashes + 1 /\ crashes < MaxCrashes
    BY <1>6 DEF Crash
  <2>2. crashes' \in 0..MaxCrashes
    BY <2>1, ConstantsAssumption DEF DownloadInv, TypeOK
  <2> QED
    BY <2>1, <2>2, EndKeepsInv
<1>7. CASE PowerLoss
  BY <1>7, PowerLossKeepsInv
<1>8. CASE ServerChanges
  BY <1>8, ServerChangesKeepsInv
<1> QED
  BY <1>1, <1>2, <1>3, <1>4, <1>5, <1>6, <1>7, <1>8 DEF Next

\* The destination changes when .part is renamed to it, and then only.
LEMMA OnlyRenamesDeliver ==
  ASSUME [Next]_vars, dest' # dest
  PROVE  part # NoFile /\ dest' = part
<1>1. ~Start /\ ~Stop /\ ~StopEarly /\ ~Crash /\ ~PowerLoss /\ ~ServerChanges
      /\ ~UNCHANGED vars
  BY DEF Start, Stop, StopEarly, Crash, PowerLoss, ServerChanges, vars, files
<1>2. ~MainStep
  <2>1. /\ ~ProbeFails /\ ~Begin /\ ~BeginStopped /\ ~Finalize /\ ~FinalizeRefuses
        /\ ~Pause
    BY DEF ProbeFails, Begin, BeginStopped, Finalize, FinalizeRefuses, Pause, Fail,
           files
  <2>2. ~ReplaceFails /\ ~Complete /\ ~Cancel
    BY DEF ReplaceFails, Complete, Cancel, files
  <2>3. \A tag \in Tags, ranges \in BOOLEAN : ~ProbeAnswers(tag, ranges)
    BY DEF ProbeAnswers, files
  <2> QED
    BY <2>1, <2>2, <2>3 DEF MainStep
<1>3. ~SaverStep
  BY DEF SaverStep, BeginSave, NoFirstSave, EndSave, SaveFails, files
<1>4. ~StreamStep
  BY DEF StreamStep, StreamOpens, StreamFails, Fail, StreamDrains, StreamChunk,
         StreamAdvances, StreamDone, Move, files
<1>5. \A s \in 1..Parts : ~SegmentStep(s)
  BY DEF SegmentStep, SegmentAccepted, Opens, SegmentRejected, Fail, SegmentIgnored,
         SegmentRetries, SegmentGivesUp, SegmentChunk, SegmentAdvances, SegmentDone,
         TaskReturns, Move, files
<1>6. CASE PoolStep
  BY <1>6 DEF PoolStep, Truncate, Extend, PreallocateFails, Replace, Write,
              WriteFails, Move, files
<1>7. CASE \E job \in late : LateJob(job)
  BY <1>7 DEF LateJob, LateWrite, LatePreallocation, LateReplace
<1> QED
  BY <1>1, <1>2, <1>3, <1>4, <1>5, <1>6, <1>7 DEF Next

-----------------------------------------------------------------------------
(***************************************************************************)
(* The theorems.                                                           *)
(***************************************************************************)
\* DownloadInv holds at every moment of every behaviour.
THEOREM DownloadInvariant == Spec => []DownloadInv
  BY InitEstablishesInv, NextKeepsInv, PTL DEF Spec

\* The state of core/resilient_downloader.py and of its files always has the shape
\* that TypeOK gives it.
THEOREM TypesAreKept == Spec => []TypeOK
<1>1. DownloadInv => TypeOK
  BY DEF DownloadInv
<1> QED
  BY <1>1, DownloadInvariant, PTL

\* What state.json counts as downloaded is in .part, and will be there after a crash
\* or a power loss, as long as .part was not reset since (_save_state).
THEOREM SavedClaimsSurvive == Spec => []SavedClaimsAreDurable
<1>1. ASSUME DownloadInv
      PROVE  SavedClaimsAreDurable
  <2>1. SUFFICES ASSUME Tagged, CoversFile(saved.segs), ~outdated, ~misled, ~struck,
                        NEW f \in AfterPowerLoss, f # NoFile,
                        NEW b \in Claimed(saved.segs)
                 PROVE  f[b] = saved.etag
    BY DEF SavedClaimsAreDurable, Tagged
  <2>2. part # NoFile
    BY <1>1, <2>1, LossLeavesAFile
  <2>3. /\ durable # NoFile
        /\ Holds(durable, saved.segs, saved.etag)
        /\ Holds(part, saved.segs, saved.etag)
    BY <1>1, <2>1, <2>2 DEF DownloadInv, Data, SavedHolds, Sound
  <2>4. Holds(f, saved.segs, saved.etag)
    BY <1>1, <2>1, <2>3, LossKeepsVersion
  <2> QED
    BY <2>1, <2>4 DEF Holds
<1> QED
  BY <1>1, DownloadInvariant, PTL

\* What a session publishes is one version of the file, from its first byte to its
\* last, and the version whose ETag it validated (start to _durably_replace_file).
THEOREM DeliveryIsWhole == Spec => DeliveredIsWhole
<1>1. ASSUME DownloadInv, [Next]_vars, pc = "replace", dest' # dest, ~misled, ~struck
      PROVE  \E v \in Versions : dest' = Whole(v) /\ (etag # NoTag => v = etag)
  <2>1. part # NoFile /\ dest' = part
    BY <1>1, OnlyRenamesDeliver
  <2> QED
    BY <1>1, <2>1 DEF DownloadInv, Data, ReplaceHolds, Sound
<1> QED
  BY <1>1, DownloadInvariant, PTL DEF Spec, DeliveredIsWhole
=============================================================================
