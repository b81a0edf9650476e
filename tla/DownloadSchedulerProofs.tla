------------------------ MODULE DownloadSchedulerProofs ------------------------
(***************************************************************************)
(* What is proved of DownloadScheduler for any number of downloads, slots  *)
(* and restarts: the rows, the queue, the table of workers and the speeds  *)
(* tell one story; what the user asked to run is served; no start exceeds  *)
(* the limit in force, each is of the kind that was asked for, and a       *)
(* removed download does not come back.                                    *)
(***************************************************************************)
EXTENDS DownloadScheduler, SetInduction, SequenceTheorems

-----------------------------------------------------------------------------
(***************************************************************************)
(* The inductive invariant.                                                *)
(***************************************************************************)
Item   == [id : Ids, video : BOOLEAN, hash : BOOLEAN]
Worker == [phase : {"none", "new", "run", "done"}, stop : BOOLEAN,
           video : BOOLEAN, hash : BOOLEAN]
Texts  == {Working, "Paused", "Completed", "progress", "task_finished", "error",
           "finished"}

Shape ==
  /\ order \in Seq(Ids) /\ queue \in Seq(Item)
  /\ signals \in [Ids -> Seq(Texts)]
  /\ wanted \subseteq Ids /\ restarts \in Nat
  /\ contexts \subseteq FromBrowser /\ options \cap FromBrowser = {}

\* A row, and a worker, has been added.
Added ==
  /\ \A d \in ToSet(order) : d < nextId
  /\ \A d \in Busy(worker) : d < nextId

\* A thread posts only while it is in the table, and `finished' comes last, right
\* after `task_finished' where there is one.
PostedBy(w, s) ==
  /\ w.phase \in {"none", "new"} => s = <<>>
  /\ w.phase = "done" => s # <<>> /\ s[Len(s)] = "finished"
  /\ \A i \in 1..Len(s) :
       /\ s[i] = "finished" => w.phase = "done" /\ i = Len(s)
       /\ s[i] = "task_finished" => w.phase = "done" /\ i + 1 = Len(s)
Posted == \A d \in Ids : PostedBy(worker[d], signals[d])

\* A row that shows "Queued" with a worker is about to show another status.
ShownBy(w, s) ==
  w.phase = "new" \/ (s # <<>> /\ Head(s) \in {Working, "Paused", "Completed"})
Shown ==
  \A d \in ToSet(order) :
    (worker[d].phase # "none" /\ status[d] = "Queued")
      => ShownBy(worker[d], signals[d])

\* A download that is wanted and has a worker was not stopped, and its thread does
\* not end without saying that it is over.
PromisedBy(w, s) ==
  /\ ~w.stop
  /\ w.phase = "done" =>
       \E i \in 1..Len(s) : s[i] \in {"task_finished", "error"}
Promised ==
  \A d \in wanted : worker[d].phase # "none" => PromisedBy(worker[d], signals[d])

\* The download completed and nothing its thread said can change its status.
OverBy(text, w, s) ==
  /\ text = "Completed" /\ w.phase \in {"none", "done"}
  /\ s \in {<<>>, <<"finished">>}

\* Until a restart, the page remembers what the dialog of a row asked for, and what
\* waits is of that kind.
OfKind(item) == /\ item.video <=> item.id \in Media
                /\ item.hash <=> item.id \in Checked
Remembered ==
  restarts = 0 =>
    /\ formats = Media \cap ToSet(order)
    /\ \A d \in ToSet(order) :
         d \notin options \cup contexts => OverBy(status[d], worker[d], signals[d])
    /\ \A item \in ToSet(queue) : OfKind(item)

SchedulerInv ==
  /\ TypeOK /\ Shape /\ Added /\ Posted /\ Shown /\ Promised /\ Remembered
  /\ PageIsConsistent /\ WantedIsServed

-----------------------------------------------------------------------------
(***************************************************************************)
(* Recursion: what Without, ProcessQueue and ResumeRows are built from.    *)
(***************************************************************************)
\* A first value and a step define a function on 0..N.
Iterates(N, S, first, step) ==
  \E f \in [0..N -> S] :
    f[0] = first /\ \A n \in 1..N : f[n] = step[<<n, f[n - 1]>>]

LEMMA Recursion ==
  ASSUME NEW N \in Nat, NEW S, NEW first \in S, NEW step \in [(1..N) \X S -> S]
  PROVE  Iterates(N, S, first, step)
<1> DEFINE Good(k, f) ==
             f[0] = first /\ \A n \in 1..k : f[n] = step[<<n, f[n - 1]>>]
           T == {k \in Nat : k <= N => \E f \in [0..k -> S] : Good(k, f)}
<1>1. 0 \in T
  <2>1. [n \in 0..0 |-> first] \in [0..0 -> S] /\ Good(0, [n \in 0..0 |-> first])
    OBVIOUS
  <2> QED
    BY <2>1
<1>2. ASSUME NEW k \in Nat, k \in T
      PROVE  k + 1 \in T
  <2>1. SUFFICES ASSUME k + 1 <= N
                 PROVE  \E f \in [0..k + 1 -> S] : Good(k + 1, f)
    OBVIOUS
  <2>2. PICK f \in [0..k -> S] : Good(k, f)
    BY <1>2, <2>1
  <2> DEFINE g == [n \in 0..k + 1 |-> IF n = k + 1 THEN step[<<k + 1, f[k]>>] ELSE f[n]]
  <2>3. g \in [0..k + 1 -> S]
    <3>1. f[k] \in S /\ k + 1 \in 1..N
      BY <2>1
    <3>2. step[<<k + 1, f[k]>>] \in S
      BY <3>1
    <3> QED
      BY <3>2
  <2>4. Good(k + 1, g)
    <3>1. g[0] = first
      BY <2>2
    <3>2. ASSUME NEW n \in 1..k + 1
          PROVE  g[n] = step[<<n, g[n - 1]>>]
      <4>1. CASE n = k + 1
        <5>1. n - 1 = k /\ g[k] = f[k] /\ g[n] = step[<<k + 1, f[k]>>]
          BY <4>1
        <5> QED
          BY <4>1, <5>1
      <4>2. CASE n \in 1..k
        BY <2>2, <4>2
      <4> QED
        BY <4>1, <4>2
    <3> QED
      BY <3>1, <3>2
  <2> QED
    BY <2>3, <2>4
<1>3. Nat \subseteq T
  <2> HIDE DEF T
  <2> QED
    BY <1>1, <1>2, Induction
<1> QED
  BY <1>3 DEF Iterates

\* Without keeps the order: its result picks the elements of s at growing indices,
\* all those outside S and no other.
PicksAt(at, w, s, S, N) ==
  /\ at \in [1..Len(w) -> 1..N]
  /\ \A i, j \in 1..Len(w) : i < j => at[i] < at[j]
  /\ \A i \in 1..Len(w) : w[i] = s[at[i]] /\ s[at[i]] \notin S
  /\ \A n \in 1..N : s[n] \notin S => \E i \in 1..Len(w) : at[i] = n

Picks(w, s, S) == \E at : PicksAt(at, w, s, S, Len(s))

LEMMA WithoutPicks ==
  ASSUME NEW E, NEW s \in Seq(E), NEW S
  PROVE  /\ Without(s, S) \in Seq(E) /\ Len(Without(s, S)) <= Len(s)
         /\ Picks(Without(s, S), s, S)
<1> DEFINE N == Len(s)
           step == [a \in (1..N) \X Seq(E) |->
                      IF s[a[1]] \in S THEN a[2] ELSE Append(a[2], s[a[1]])]
           Body(f) == [n \in 0..N |->
                         IF n = 0 THEN <<>>
                         ELSE IF s[n] \in S THEN f[n - 1] ELSE Append(f[n - 1], s[n])]
           left == CHOOSE f : f = Body(f)
<1>1. step \in [(1..N) \X Seq(E) -> Seq(E)]
  OBVIOUS
<1>2. PICK f \in [0..N -> Seq(E)] :
        f[0] = <<>> /\ \A n \in 1..N : f[n] = step[<<n, f[n - 1]>>]
  <2> DEFINE S0 == Seq(E)
             first == <<>>
  <2>1. N \in Nat /\ first \in S0
    OBVIOUS
  <2>2. step \in [(1..N) \X S0 -> S0]
    BY <1>1
  <2> HIDE DEF step, N, S0, first
  <2>3. Iterates(N, S0, first, step)
    BY <2>1, <2>2, Recursion
  <2> QED
    BY <2>3 DEF S0, first, Iterates
<1>3. f = Body(f)
  <2>1. ASSUME NEW n \in 1..N
        PROVE  f[n] = IF s[n] \in S THEN f[n - 1] ELSE Append(f[n - 1], s[n])
    <3>1. f[n - 1] \in Seq(E)
      OBVIOUS
    <3> QED
      BY <1>2, <3>1
  <2>2. \A n \in 0..N : f[n] =
          IF n = 0 THEN <<>>
          ELSE IF s[n] \in S THEN f[n - 1] ELSE Append(f[n - 1], s[n])
    <3>1. \A n \in 0..N : n = 0 \/ (n \in 1..N /\ n # 0)
      OBVIOUS
    <3>2. f[0] = <<>>
      BY <1>2
    <3> QED
      BY <2>1, <3>1, <3>2
  <2>3. f = [n \in 0..N |-> f[n]]
    OBVIOUS
  <2> QED
    BY <2>2, <2>3
<1>4. left = Body(left)
  <2> HIDE DEF Body
  <2> QED
    BY <1>3
<1>5. Without(s, S) = left[N]
  BY DEF Without
<1> HIDE DEF left
<1> DEFINE Good(n) ==
             /\ left[n] \in Seq(E) /\ Len(left[n]) <= n
             /\ \E at : PicksAt(at, left[n], s, S, n)
           T == {n \in Nat : n <= N => Good(n)}
<1>6. 0 \in T
  <2>1. left[0] = <<>>
    BY <1>4
  <2>2. PicksAt([i \in {} |-> i], left[0], s, S, 0)
    BY <2>1 DEF PicksAt
  <2>3. left[0] \in Seq(E) /\ Len(left[0]) <= 0
    BY <2>1
  <2>4. Good(0)
    BY <2>2, <2>3
  <2> HIDE DEF Good
  <2> QED
    BY <2>4
<1>7. ASSUME NEW k \in Nat, k \in T
      PROVE  k + 1 \in T
  <2> DEFINE n == k + 1
             L == Len(left[k])
  <2>1. SUFFICES ASSUME n <= N
                 PROVE  Good(n)
    <3>1. n \in Nat
      OBVIOUS
    <3> HIDE DEF Good, n
    <3> QED
      BY <3>1
  <2>2. Good(k)
    <3>1. k <= N
      BY <2>1
    <3> HIDE DEF Good, n
    <3> QED
      BY <1>7, <3>1
  <2>3. PICK at : PicksAt(at, left[k], s, S, k)
    BY <2>2
  <2>4. left[n] = IF s[n] \in S THEN left[k] ELSE Append(left[k], s[n])
    <3>1. n \in 0..N /\ n # 0 /\ n - 1 = k
      BY <2>1
    <3> HIDE DEF n
    <3> QED
      BY <1>4, <3>1
  <2>5. L \in Nat /\ L <= k /\ n \in 1..N /\ s[n] \in E
    BY <2>1, <2>2
  <2>6. CASE s[n] \in S
    <3>1. left[n] = left[k]
      BY <2>4, <2>6
    <3>2. \A m \in 1..n : m \in 1..k \/ m = n
      OBVIOUS
    <3>3. at \in [1..L -> 1..n]
      BY <2>3, <2>5 DEF PicksAt
    <3>4. PicksAt(at, left[k], s, S, n)
      <4> HIDE DEF n
      <4> QED
        BY <2>3, <2>6, <3>2, <3>3 DEF PicksAt
    <3> QED
      BY <2>2, <2>5, <3>1, <3>4
  <2>7. CASE s[n] \notin S
    <3> DEFINE new == [i \in 1..L + 1 |-> IF i = L + 1 THEN n ELSE at[i]]
    <3>1. left[n] = Append(left[k], s[n])
      BY <2>4, <2>7
    <3>2. left[n] \in Seq(E) /\ Len(left[n]) = L + 1 /\ L + 1 <= n
      BY <2>2, <2>5, <3>1
    <3>3. new \in [1..L + 1 -> 1..n]
      BY <2>3, <2>5 DEF PicksAt
    <3>4. \A i, j \in 1..L + 1 : i < j => new[i] < new[j]
      <4>1. \A i \in 1..L : new[i] = at[i] /\ at[i] \in 1..k
        <5>1. \A i \in 1..L : i \in 1..L + 1 /\ i # L + 1
          BY <2>5
        <5>2. at \in [1..L -> 1..k]
          BY <2>3 DEF PicksAt
        <5> HIDE DEF L
        <5> QED
          BY <5>1, <5>2
      <4>2. new[L + 1] = n /\ L \in Nat /\ \A i \in 1..L + 1 : i = L + 1 \/ i \in 1..L
        BY <2>5
      <4>3. \A i, j \in 1..L : i < j => at[i] < at[j]
        BY <2>3 DEF PicksAt
      <4> HIDE DEF new, L
      <4> SUFFICES ASSUME NEW i \in 1..L + 1, NEW j \in 1..L + 1, i < j
                   PROVE  new[i] < new[j]
        OBVIOUS
      <4>4. i \in 1..L
        BY <4>2
      <4>5. CASE j \in 1..L
        BY <4>1, <4>3, <4>4, <4>5
      <4>6. CASE j = L + 1
        BY <4>1, <4>2, <4>4, <4>6
      <4> QED
        BY <4>2, <4>5, <4>6
    <3>5. \A i \in 1..L + 1 : left[n][i] = s[new[i]] /\ s[new[i]] \notin S
      <4>1. left[n][L + 1] = s[n] /\ \A i \in 1..L : left[n][i] = left[k][i]
        BY <2>2, <2>5, <3>1
      <4>2. \A i \in 1..L + 1 : (i = L + 1 /\ new[i] = n) \/ (i \in 1..L /\ new[i] = at[i])
        BY <2>5
      <4>3. \A i \in 1..L : left[k][i] = s[at[i]] /\ s[at[i]] \notin S
        BY <2>3 DEF PicksAt
      <4> HIDE DEF new, n, L
      <4>4. s[n] \notin S
        BY <2>7
      <4> QED
        BY <4>1, <4>2, <4>3, <4>4
    <3>6. \A m \in 1..n : s[m] \notin S => \E i \in 1..L + 1 : new[i] = m
      <4>1. ASSUME NEW m \in 1..k, s[m] \notin S
            PROVE  \E i \in 1..L + 1 : new[i] = m
        <5>1. PICK i \in 1..L : at[i] = m
          BY <2>3, <4>1 DEF PicksAt
        <5>2. i \in 1..L + 1 /\ new[i] = m
          BY <2>5, <5>1
        <5> QED
          BY <5>2
      <4>2. L + 1 \in 1..L + 1 /\ new[L + 1] = n
        BY <2>5
      <4>3. \A m \in 1..n : m \in 1..k \/ m = n
        OBVIOUS
      <4> HIDE DEF new, n, L
      <4> QED
        BY <4>1, <4>2, <4>3
    <3>7. PicksAt(new, left[n], s, S, n)
      <4> HIDE DEF new, n, L
      <4> QED
        BY <3>2, <3>3, <3>4, <3>5, <3>6 DEF PicksAt
    <3> QED
      BY <3>2, <3>7
  <2> QED
    BY <2>6, <2>7
<1>8. Nat \subseteq T
  <2> HIDE DEF T
  <2> QED
    BY <1>6, <1>7, Induction
<1>9. Good(N)
  BY <1>8
<1> HIDE DEF Body
<1> QED
  BY <1>5, <1>9 DEF Picks

-----------------------------------------------------------------------------
(***************************************************************************)
(* Sequences, the queue and the slots.                                     *)
(***************************************************************************)
\* No id waits twice.
Distinct(q) == \A i, j \in DOMAIN q : q[i].id = q[j].id => i = j

LEMMA Members ==
  ASSUME NEW E, NEW s \in Seq(E)
  PROVE  /\ DOMAIN s = 1..Len(s) /\ Len(s) \in Nat
         /\ ToSet(s) \subseteq E
         /\ \A i \in 1..Len(s) : s[i] \in ToSet(s)
         /\ \A x \in ToSet(s) : \E i \in 1..Len(s) : s[i] = x
  BY DEF ToSet

LEMMA WithoutMembers ==
  ASSUME NEW E, NEW s \in Seq(E), NEW S
  PROVE  /\ Without(s, S) \in Seq(E) /\ Len(Without(s, S)) <= Len(s)
         /\ ToSet(Without(s, S)) = ToSet(s) \ S
         /\ IsInjective(s) => IsInjective(Without(s, S))
<1> DEFINE w == Without(s, S)
<1>1. w \in Seq(E) /\ Len(w) <= Len(s) /\ Picks(w, s, S)
  BY WithoutPicks
<1> HIDE DEF w
<1>2. PICK at : PicksAt(at, w, s, S, Len(s))
  BY <1>1 DEF Picks
<1>3. DOMAIN w = 1..Len(w) /\ DOMAIN s = 1..Len(s)
  BY <1>1
<1>4. ToSet(w) \subseteq ToSet(s) \ S
  BY <1>2, <1>3 DEF ToSet, PicksAt
<1>5. ToSet(s) \ S \subseteq ToSet(w)
  BY <1>2, <1>3 DEF ToSet, PicksAt
<1>6. ASSUME IsInjective(s)
      PROVE  IsInjective(w)
  <2>1. SUFFICES ASSUME NEW i \in 1..Len(w), NEW j \in 1..Len(w), w[i] = w[j]
                 PROVE  i = j
    BY <1>3 DEF IsInjective
  <2>2. at[i] \in 1..Len(s) /\ at[j] \in 1..Len(s) /\ s[at[i]] = s[at[j]]
    BY <1>2, <2>1 DEF PicksAt
  <2>3. at[i] = at[j]
    BY <1>3, <1>6, <2>2 DEF IsInjective
  <2>4. i \in Int /\ j \in Int /\ at[i] \in Int /\ at[j] \in Int
    BY <2>2
  <2>5. ~ (i < j) /\ ~ (j < i)
    BY <1>2, <2>3, <2>4 DEF PicksAt
  <2> QED
    BY <2>4, <2>5
<1> QED
  BY <1>1, <1>4, <1>5, <1>6 DEF w

\* A request is discarded, the others stay in their order.
LEMMA DiscardMembers ==
  ASSUME NEW q \in Seq(Item), NEW d
  PROVE  /\ Discard(q, d) \in Seq(Item) /\ Len(Discard(q, d)) <= Len(q)
         /\ ToSet(Discard(q, d)) = {item \in ToSet(q) : item.id # d}
         /\ Distinct(q) => Distinct(Discard(q, d))
<1> DEFINE S == {item \in ToSet(q) : item.id = d}
           w == Discard(q, d)
<1>1. w = Without(q, S)
  BY DEF Discard
<1>2. w \in Seq(Item) /\ Len(w) <= Len(q) /\ ToSet(w) = ToSet(q) \ S
  BY <1>1, WithoutMembers
<1>3. Picks(w, q, S)
  BY <1>1, WithoutPicks
<1> HIDE DEF w
<1>4. ASSUME Distinct(q)
      PROVE  Distinct(w)
  <2>1. PICK at : PicksAt(at, w, q, S, Len(q))
    BY <1>3 DEF Picks
  <2>2. DOMAIN w = 1..Len(w) /\ DOMAIN q = 1..Len(q)
    BY <1>2
  <2>3. SUFFICES ASSUME NEW i \in 1..Len(w), NEW j \in 1..Len(w), w[i].id = w[j].id
                 PROVE  i = j
    BY <2>2 DEF Distinct
  <2> HIDE DEF S
  <2>4. at[i] \in 1..Len(q) /\ at[j] \in 1..Len(q) /\ q[at[i]].id = q[at[j]].id
    BY <2>1, <2>3 DEF PicksAt
  <2>5. at[i] = at[j]
    BY <1>4, <2>2, <2>4 DEF Distinct
  <2>6. i \in Int /\ j \in Int /\ at[i] \in Int /\ at[j] \in Int
    BY <2>4
  <2>7. ~ (i < j) /\ ~ (j < i)
    BY <2>1, <2>5, <2>6 DEF PicksAt
  <2> QED
    BY <2>6, <2>7
<1> QED
  BY <1>2, <1>4 DEF w

LEMMA QueuedMembers ==
  ASSUME NEW q \in Seq(Item)
  PROVE  QueuedIds(q) = {item.id : item \in ToSet(q)} /\ QueuedIds(q) \subseteq Ids
<1>1. DOMAIN q = 1..Len(q) /\ \A i \in 1..Len(q) : q[i] \in Item
  OBVIOUS
<1> QED
  BY <1>1 DEF QueuedIds, ToSet, Item

LEMMA AppendMembers ==
  ASSUME NEW E, NEW s \in Seq(E), NEW x \in E
  PROVE  /\ Append(s, x) \in Seq(E)
         /\ ToSet(Append(s, x)) = ToSet(s) \cup {x}
         /\ (IsInjective(s) /\ x \notin ToSet(s)) => IsInjective(Append(s, x))
<1> DEFINE t == Append(s, x)
<1>1. t \in Seq(E) /\ Len(t) = Len(s) + 1 /\ t[Len(s) + 1] = x
  OBVIOUS
<1>2. \A i \in 1..Len(s) : t[i] = s[i]
  OBVIOUS
<1>3. DOMAIN t = 1..Len(s) + 1 /\ DOMAIN s = 1..Len(s) /\ Len(s) \in Nat
  OBVIOUS
<1>4. \A i \in 1..Len(s) + 1 : i \in 1..Len(s) \/ i = Len(s) + 1
  OBVIOUS
<1>5. Len(s) + 1 \in 1..Len(s) + 1 /\ \A i \in 1..Len(s) : i \in 1..Len(s) + 1
  OBVIOUS
<1> HIDE DEF t
<1>6. ToSet(t) = ToSet(s) \cup {x}
  BY <1>1, <1>2, <1>3, <1>4, <1>5 DEF ToSet
<1>7. (IsInjective(s) /\ x \notin ToSet(s)) => IsInjective(t)
  BY <1>1, <1>2, <1>3, <1>4 DEF IsInjective, ToSet
<1> QED
  BY <1>1, <1>6, <1>7 DEF t

LEMMA AppendDistinct ==
  ASSUME NEW q \in Seq(Item), NEW x \in Item, Distinct(q), x.id \notin QueuedIds(q)
  PROVE  Distinct(Append(q, x))
<1> DEFINE t == Append(q, x)
<1>1. t[Len(q) + 1] = x /\ \A i \in 1..Len(q) : t[i] = q[i]
  OBVIOUS
<1>2. DOMAIN t = 1..Len(q) + 1 /\ DOMAIN q = 1..Len(q) /\ Len(q) \in Nat
  OBVIOUS
<1>3. \A i \in 1..Len(q) + 1 : i \in 1..Len(q) \/ i = Len(q) + 1
  OBVIOUS
<1> HIDE DEF t
<1>4. Distinct(t)
  BY <1>1, <1>2, <1>3 DEF Distinct, QueuedIds
<1> QED
  BY <1>4 DEF t

LEMMA TailMembers ==
  ASSUME NEW q \in Seq(Item), q # <<>>
  PROVE  /\ Head(q) \in ToSet(q) /\ Tail(q) \in Seq(Item) /\ Len(Tail(q)) = Len(q) - 1
         /\ ToSet(q) = ToSet(Tail(q)) \cup {Head(q)}
         /\ Distinct(q) => Distinct(Tail(q))
         /\ Distinct(q) => \A item \in ToSet(Tail(q)) : item.id # Head(q).id
<1> DEFINE t == Tail(q)
           h == Head(q)
<1>1. t \in Seq(Item) /\ Len(t) = Len(q) - 1 /\ h = q[1] /\ Len(q) \in Nat \ {0}
  OBVIOUS
<1>2. \A i \in 1..Len(t) : t[i] = q[i + 1]
  OBVIOUS
<1>3. DOMAIN t = 1..Len(q) - 1 /\ DOMAIN q = 1..Len(q)
  OBVIOUS
<1>4. /\ 1 \in 1..Len(q)
      /\ \A i \in 1..Len(q) : i = 1 \/ (i - 1 \in 1..Len(q) - 1 /\ i - 1 + 1 = i)
      /\ \A i \in 1..Len(q) - 1 : i + 1 \in 1..Len(q) /\ i + 1 # 1
  BY <1>1
<1> HIDE DEF t, h
<1>5. ToSet(t) \subseteq ToSet(q) /\ h \in ToSet(q)
  <2>1. ASSUME NEW x \in ToSet(t)
        PROVE  x \in ToSet(q)
    <3>1. PICK i \in 1..Len(q) - 1 : t[i] = x
      BY <1>3, <2>1 DEF ToSet
    <3>2. i + 1 \in 1..Len(q) /\ q[i + 1] = x
      BY <1>1, <1>2, <1>4, <3>1
    <3> QED
      BY <1>3, <3>2 DEF ToSet
  <2>2. h \in ToSet(q)
    BY <1>1, <1>3, <1>4 DEF ToSet
  <2> QED
    BY <2>1, <2>2
<1>6. ASSUME NEW x \in ToSet(q), x # h
      PROVE  x \in ToSet(t)
  <2>1. PICK i \in 1..Len(q) : x = q[i]
    BY <1>3 DEF ToSet
  <2>2. i - 1 \in 1..Len(t) /\ i - 1 + 1 = i
    BY <1>1, <1>4, <1>6, <2>1
  <2>3. t[i - 1] = x
    BY <1>2, <2>1, <2>2
  <2> QED
    BY <1>1, <1>3, <2>2, <2>3 DEF ToSet
<1>7. ASSUME Distinct(q)
      PROVE  Distinct(t)
  <2>1. SUFFICES ASSUME NEW i \in 1..Len(q) - 1, NEW j \in 1..Len(q) - 1, t[i].id = t[j].id
                 PROVE  i = j
    BY <1>3 DEF Distinct
  <2>2. i + 1 = j + 1
    BY <1>1, <1>2, <1>3, <1>4, <1>7, <2>1 DEF Distinct
  <2> QED
    BY <2>2
<1>8. ASSUME Distinct(q), NEW x \in ToSet(t)
      PROVE  x.id # h.id
  <2>1. PICK i \in 1..Len(q) - 1 : x = t[i]
    BY <1>3 DEF ToSet
  <2> QED
    BY <1>1, <1>2, <1>3, <1>4, <1>8, <2>1 DEF Distinct
<1> QED
  BY <1>1, <1>5, <1>6, <1>7, <1>8 DEF t, h

LEMMA BusySlots ==
  ASSUME NEW table
  PROVE  Busy(table) \subseteq Ids /\ IsFiniteSet(Busy(table))
         /\ Cardinality(Busy(table)) \in Nat
<1>1. IsFiniteSet(Ids)
  BY SchedulerAssumption, FS_Interval, 1 \in Int, Downloads \in Int DEF Ids
<1>2. Busy(table) \subseteq Ids
  BY DEF Busy
<1> QED
  BY <1>1, <1>2, FS_Subset, FS_CardinalityType

LEMMA SlotsGrow ==
  ASSUME NEW table, NEW later, Busy(table) \subseteq Busy(later)
  PROVE  Cardinality(Busy(table)) <= Cardinality(Busy(later))
  BY BusySlots, FS_Subset

LEMMA SlotTaken ==
  ASSUME NEW table, NEW later, NEW d, d \notin Busy(table),
         Busy(later) = Busy(table) \cup {d}
  PROVE  Cardinality(Busy(later)) = Cardinality(Busy(table)) + 1
  BY BusySlots, FS_AddElement

-----------------------------------------------------------------------------
(***************************************************************************)
(* The page's calls.  `After' holds the pages that calls which ask for     *)
(* rows of p, one after the other, may lead to.                            *)
(***************************************************************************)
Pages == [order : Seq(Ids), status : [Ids -> Statuses], queue : Seq(Item),
          worker : [Ids -> Worker], contexts : SUBSET Ids]

\* The rows, the queue and the table of workers tell one story.
OneStory(p) ==
  /\ Distinct(p.queue)
  /\ \A d \in QueuedIds(p.queue) :
       /\ d \in ToSet(p.order) /\ p.worker[d].phase = "none"
       /\ p.status[d] \in {"Queued", "Paused"}
  /\ \A d \in ToSet(p.order) : p.status[d] = "Queued" =>
       d \in QueuedIds(p.queue) \/ p.worker[d].phase # "none"

\* Before a restart: what waits is of the kind that was asked for, and a row that
\* is not completed has the headers of the browser exactly if it came from there.
Faithful(p) ==
  /\ restarts = 0
  /\ \A item \in ToSet(p.queue) : OfKind(item)
  /\ \A d \in ToSet(p.order) : p.status[d] # "Completed" =>
       (d \in p.contexts <=> d \in FromBrowser)

AsAsked(w, d) == /\ w.video <=> d \in Videos
                 /\ w.hash <=> d \in Checked \ Videos

\* Asked for, a download waits, has a worker, or its worker could not be created.
Served(p, d, bad) ==
  \/ d \in QueuedIds(p.queue)
  \/ p.worker[d].phase # "none"
  \/ d \in bad /\ p.status[d] = "Error"

Kept(p, q, d) == q.worker[d] = p.worker[d] /\ q.status[d] = p.status[d]
Fresh(w) == w.phase = "new" /\ ~w.stop

After(p, bad, cap) ==
  {q \in Pages :
     /\ q.order = p.order /\ q.contexts = p.contexts
     /\ OneStory(q)
     /\ \A d \in Ids : (\/ p.worker[d].phase # "none" \/ p.status[d] = "Completed"
                        \/ d \notin ToSet(p.order)) => Kept(p, q, d)
     /\ \A d \in Ids : \/ q.worker[d] = p.worker[d]
                       \/ /\ Fresh(q.worker[d])
                          /\ Faithful(p) => AsAsked(q.worker[d], d)
     /\ \A d \in Ids : \/ q.status[d] = p.status[d]
                       \/ q.status[d] \in {"Queued", "Paused", "Error"}
     /\ Faithful(p) => Faithful(q)
     /\ \A d \in QueuedIds(p.queue) : Served(q, d, bad)
     /\ \/ Busy(q.worker) = Busy(p.worker)
        \/ Cardinality(Busy(q.worker)) <= cap}

LEMMA AfterNothing ==
  ASSUME NEW p \in Pages, NEW bad, NEW cap, OneStory(p)
  PROVE  p \in After(p, bad, cap)
<1>1. \A d \in QueuedIds(p.queue) : Served(p, d, bad)
  BY DEF Served
<1>2. \A d \in Ids : Kept(p, p, d)
  BY DEF Kept
<1> QED
  BY <1>1, <1>2 DEF After

\* A slot is only ever taken.
LEMMA AfterBusy ==
  ASSUME NEW p \in Pages, NEW bad, NEW cap, NEW q \in After(p, bad, cap)
  PROVE  Busy(p.worker) \subseteq Busy(q.worker)
  BY DEF After, Busy, Kept

LEMMA StartResult ==
  ASSUME NEW p \in Pages, NEW bad, NEW item \in Item,
         HasRow(p, item.id), p.worker[item.id].phase = "none"
  PROVE  LET d == item.id
             r == StartWorker(p, item, bad)
         IN /\ r \in Pages /\ r.order = p.order /\ r.contexts = p.contexts
            /\ r.queue = Discard(p.queue, d)
            /\ \A e \in Ids \ {d} : Kept(p, r, e)
            /\ d \in bad => r.worker[d] = p.worker[d] /\ r.status[d] = "Error"
            /\ d \notin bad =>
                 /\ r.status[d] = p.status[d] /\ Fresh(r.worker[d])
                 /\ r.worker[d].video <=>
                      item.video \/ (d \notin p.contexts /\ d \in VideoSites)
                 /\ r.worker[d].hash <=> item.hash /\ ~r.worker[d].video
<1> DEFINE d == item.id
           r == StartWorker(p, item, bad)
           Q == Discard(p.queue, d)
           video == item.video \/ (d \notin p.contexts /\ d \in VideoSites)
           fresh == [NoWorker EXCEPT !.phase = "new", !.video = video,
                                     !.hash = item.hash /\ ~video]
<1>1. d \in Ids /\ item.video \in BOOLEAN /\ item.hash \in BOOLEAN
  BY DEF Item
<1>2. Q \in Seq(Item)
  BY DiscardMembers DEF Pages
<1>3. /\ fresh \in Worker /\ fresh.phase = "new" /\ fresh.stop = FALSE
      /\ fresh.video = video /\ fresh.hash = (item.hash /\ ~video)
  BY <1>1 DEF NoWorker, Worker
<1>4. r = IF d \in bad THEN SetStatus([p EXCEPT !.queue = Q], d, "Error")
          ELSE [p EXCEPT !.queue = Q, !.worker[d] = fresh]
  BY DEF StartWorker
<1> HIDE DEF Q, fresh, r, video
<1>5. CASE d \in bad
  <2>1. HasRow([p EXCEPT !.queue = Q], d)
    BY DEF HasRow, Pages
  <2>2. r = [p EXCEPT !.queue = Q, !.status[d] = "Error"]
    BY <1>4, <1>5, <2>1 DEF SetStatus, Pages
  <2>3. r \in Pages
    BY <1>1, <1>2, <2>2 DEF Pages, Statuses
  <2>4. /\ r.order = p.order /\ r.contexts = p.contexts /\ r.queue = Q
        /\ r.worker = p.worker /\ r.status = [p.status EXCEPT ![d] = "Error"]
    BY <2>2 DEF Pages
  <2> QED
    BY <1>1, <1>5, <2>3, <2>4 DEF Kept, Pages, r, Q
<1>6. CASE d \notin bad
  <2>1. r = [p EXCEPT !.queue = Q, !.worker[d] = fresh]
    BY <1>4, <1>6
  <2>2. r \in Pages
    BY <1>1, <1>2, <1>3, <2>1 DEF Pages
  <2>3. /\ r.order = p.order /\ r.contexts = p.contexts /\ r.queue = Q
        /\ r.status = p.status /\ r.worker = [p.worker EXCEPT ![d] = fresh]
    BY <2>1 DEF Pages
  <2>4. r.worker[d] = fresh /\ \A e \in Ids \ {d} : r.worker[e] = p.worker[e]
    BY <1>1, <2>3 DEF Pages
  <2>5. r.worker[d].video <=> video
    BY <1>3, <2>4
  <2>6. r.worker[d].hash <=> item.hash /\ ~r.worker[d].video
    BY <1>3, <2>4
  <2> QED
    BY <1>3, <1>6, <2>2, <2>3, <2>4, <2>5, <2>6 DEF Kept, Fresh, r, Q, video
<1> QED
  BY <1>5, <1>6

\* A worker for a row that has none, with the queue reduced to R.
LEMMA StartKeeps ==
  ASSUME NEW p \in Pages, NEW bad, NEW cap \in Nat, NEW q \in After(p, bad, cap),
         NEW item \in Item, NEW R \in Seq(Item),
         Distinct(R), ToSet(R) \subseteq ToSet(q.queue),
         \A other \in ToSet(q.queue) : other \in ToSet(R) \/ other.id = item.id,
         HasRow(q, item.id), q.worker[item.id].phase = "none",
         q.status[item.id] # "Completed",
         Cardinality(Busy(q.worker)) < cap,
         Faithful(p) => OfKind(item)
  PROVE  LET r == StartWorker([q EXCEPT !.queue = R], item, bad)
         IN /\ r \in After(p, bad, cap) /\ Served(r, item.id, bad)
            /\ Len(r.queue) <= Len(R) /\ Busy(q.worker) \subseteq Busy(r.worker)
            /\ QueuedIds(r.queue) = QueuedIds(q.queue) \ {item.id}
            /\ \A e \in Ids : Served(q, e, bad) => Served(r, e, bad)
<1> DEFINE d == item.id
           s == [q EXCEPT !.queue = R]
           r == StartWorker(s, item, bad)
<1>1. /\ q \in Pages /\ q.order = p.order /\ q.contexts = p.contexts /\ OneStory(q)
      /\ d \in Ids
  BY DEF After, Item
<1>2. /\ s \in Pages /\ s.order = q.order /\ s.contexts = q.contexts /\ s.queue = R
      /\ s.status = q.status /\ s.worker = q.worker
  BY <1>1 DEF Pages
<1>3. /\ r \in Pages /\ r.order = s.order /\ r.contexts = s.contexts
      /\ r.queue = Discard(R, d)
      /\ \A e \in Ids \ {d} : Kept(s, r, e)
      /\ d \in bad => r.worker[d] = s.worker[d] /\ r.status[d] = "Error"
      /\ d \notin bad =>
           /\ r.status[d] = s.status[d] /\ Fresh(r.worker[d])
           /\ r.worker[d].video <=>
                item.video \/ (d \notin s.contexts /\ d \in VideoSites)
           /\ r.worker[d].hash <=> item.hash /\ ~r.worker[d].video
  <2>1. HasRow(s, d) /\ s.worker[d].phase = "none"
    BY <1>2 DEF HasRow
  <2> HIDE DEF s
  <2> QED
    BY <1>2, <2>1, StartResult
<1> HIDE DEF r, s
<1>4. \A e \in Ids \ {d} : Kept(q, r, e)
  BY <1>2, <1>3 DEF Kept
<1>5. /\ Distinct(r.queue) /\ Len(r.queue) <= Len(R)
      /\ ToSet(r.queue) = {other \in ToSet(R) : other.id # d}
  BY <1>3, DiscardMembers
<1>6. /\ ToSet(r.queue) = {other \in ToSet(q.queue) : other.id # d}
      /\ r.queue \in Seq(Item) /\ q.queue \in Seq(Item)
  <2>1. ToSet(r.queue) = {other \in ToSet(q.queue) : other.id # d}
    BY <1>5
  <2> QED
    BY <1>1, <1>3, <2>1 DEF Pages
<1>7. QueuedIds(r.queue) = QueuedIds(q.queue) \ {d}
  BY <1>6, QueuedMembers
<1>8. OneStory(r)
  <2>1. ASSUME NEW e \in QueuedIds(r.queue)
        PROVE  /\ e \in ToSet(r.order) /\ r.worker[e].phase = "none"
               /\ r.status[e] \in {"Queued", "Paused"}
    <3>1. e \in QueuedIds(q.queue) /\ e # d /\ e \in Ids
      BY <1>6, <1>7, <2>1, QueuedMembers
    <3> QED
      BY <1>1, <1>2, <1>3, <1>4, <3>1 DEF OneStory, Kept
  <2>2. ASSUME NEW e \in ToSet(r.order), r.status[e] = "Queued"
        PROVE  e \in QueuedIds(r.queue) \/ r.worker[e].phase # "none"
    <3>1. e \in Ids /\ e \in ToSet(q.order)
      BY <1>1, <1>2, <1>3, Members DEF Pages
    <3>2. CASE e = d
      BY <1>2, <1>3, <2>2, <3>2 DEF Fresh
    <3>3. CASE e # d
      BY <1>1, <1>4, <1>7, <2>2, <3>1, <3>3 DEF OneStory, Kept
    <3> QED
      BY <3>2, <3>3
  <2> QED
    BY <1>5, <2>1, <2>2 DEF OneStory
<1>9. ASSUME NEW e \in Ids, \/ p.worker[e].phase # "none" \/ p.status[e] = "Completed"
                            \/ e \notin ToSet(p.order)
      PROVE  Kept(p, r, e)
  <2>1. Kept(p, q, e)
    BY <1>9 DEF After
  <2>2. e # d
    BY <1>1, <1>9, <2>1 DEF Kept, HasRow
  <2> QED
    BY <1>4, <2>1, <2>2 DEF Kept
<1>10. ASSUME Faithful(p), d \notin bad
       PROVE  AsAsked(r.worker[d], d)
  <2>1. d \in q.contexts <=> d \in FromBrowser
    BY <1>10 DEF After, Faithful, HasRow
  <2>2. (item.video <=> d \in Media) /\ (item.hash <=> d \in Checked)
    BY <1>10 DEF OfKind
  <2>3. r.worker[d].video <=> d \in Videos
    BY <1>2, <1>3, <1>10, <2>1, <2>2 DEF Videos
  <2>4. r.worker[d].hash <=> d \in Checked \ Videos
    BY <1>2, <1>3, <1>10, <2>2, <2>3
  <2> QED
    BY <2>3, <2>4 DEF AsAsked
<1>11. ASSUME NEW e \in Ids
       PROVE  \/ r.worker[e] = p.worker[e]
              \/ Fresh(r.worker[e]) /\ (Faithful(p) => AsAsked(r.worker[e], e))
  <2>1. \/ q.worker[e] = p.worker[e]
        \/ Fresh(q.worker[e]) /\ (Faithful(p) => AsAsked(q.worker[e], e))
    BY DEF After
  <2>2. CASE e = d /\ d \notin bad
    BY <1>3, <1>10, <2>2
  <2>3. CASE e # d \/ d \in bad
    <3>1. r.worker[e] = q.worker[e]
      BY <1>2, <1>3, <1>4, <2>3 DEF Kept
    <3> QED
      BY <2>1, <3>1
  <2> QED
    BY <2>2, <2>3
<1>12. Faithful(p) => Faithful(r)
  <2>1. SUFFICES ASSUME Faithful(p)
                 PROVE  Faithful(r)
    OBVIOUS
  <2>2. Faithful(q)
    BY <2>1 DEF After
  <2>3. \A other \in ToSet(r.queue) : OfKind(other)
    BY <1>6, <2>2 DEF Faithful
  <2>4. ASSUME NEW e \in ToSet(r.order), r.status[e] # "Completed"
        PROVE  e \in r.contexts <=> e \in FromBrowser
    <3>1. e \in Ids /\ e \in ToSet(q.order)
      BY <1>1, <1>2, <1>3, Members DEF Pages
    <3>2. q.status[e] # "Completed"
      BY <1>4, <2>4, <3>1 DEF Kept
    <3> QED
      BY <1>2, <1>3, <2>2, <3>1, <3>2 DEF Faithful
  <2> QED
    BY <2>2, <2>3, <2>4 DEF Faithful
<1>13. Served(r, d, bad)
  BY <1>3 DEF Served, Fresh
<1>14. ASSUME NEW e \in Ids, Served(q, e, bad)
       PROVE  Served(r, e, bad)
  <2>1. CASE e = d
    BY <1>13, <2>1
  <2>2. CASE e # d
    BY <1>4, <1>7, <1>14, <2>2 DEF Served, Kept
  <2> QED
    BY <2>1, <2>2
<1>15. \A e \in QueuedIds(p.queue) : Served(r, e, bad)
  <2>1. QueuedIds(p.queue) \subseteq Ids
    BY QueuedMembers DEF Pages
  <2> QED
    BY <1>14, <2>1 DEF After
<1>16. /\ d \in bad => Busy(r.worker) = Busy(q.worker)
       /\ d \notin bad => Busy(r.worker) = Busy(q.worker) \cup {d}
  <2>1. \A e \in Ids \ {d} : e \in Busy(r.worker) <=> e \in Busy(q.worker)
    BY <1>4 DEF Busy, Kept
  <2>2. d \notin Busy(q.worker)
    BY DEF Busy
  <2>3. d \in bad => d \notin Busy(r.worker)
    BY <1>2, <1>3 DEF Busy
  <2>4. d \notin bad => d \in Busy(r.worker)
    BY <1>1, <1>3 DEF Busy, Fresh
  <2>5. Busy(r.worker) \subseteq Ids /\ Busy(q.worker) \subseteq Ids /\ d \in Ids
    BY <1>1 DEF Busy
  <2> DEFINE A == Busy(r.worker)
             B == Busy(q.worker)
  <2> HIDE DEF A, B, d
  <2>6. ASSUME d \in bad
        PROVE  A = B
    <3>1. \A e \in Ids : e \in A <=> e \in B
      BY <2>1, <2>2, <2>3, <2>6 DEF A, B
    <3>2. A \subseteq Ids /\ B \subseteq Ids
      BY <2>5 DEF A, B
    <3> QED
      BY <3>1, <3>2
  <2>7. d \notin bad => A = B \cup {d}
    BY <2>1, <2>4, <2>5 DEF A, B
  <2> QED
    BY <2>6, <2>7 DEF A, B
<1>17. \/ Busy(r.worker) = Busy(p.worker)
       \/ Cardinality(Busy(r.worker)) <= cap
  <2>1. CASE d \in bad
    BY <1>16, <2>1 DEF After
  <2>2. CASE d \notin bad
    <3>1. d \notin Busy(q.worker)
      BY DEF Busy
    <3>2. Cardinality(Busy(r.worker)) = Cardinality(Busy(q.worker)) + 1
      BY <1>16, <2>2, <3>1, SlotTaken
    <3>3. Cardinality(Busy(q.worker)) \in Nat
      BY BusySlots
    <3> QED
      BY <3>2, <3>3
  <2> QED
    BY <2>1, <2>2
<1>18. ASSUME NEW e \in Ids
       PROVE  r.status[e] = p.status[e] \/ r.status[e] \in {"Queued", "Paused", "Error"}
  <2>1. q.status[e] = p.status[e] \/ q.status[e] \in {"Queued", "Paused", "Error"}
    BY DEF After
  <2>2. r.status[e] = q.status[e] \/ r.status[e] = "Error"
    BY <1>2, <1>3, <1>4 DEF Kept
  <2> QED
    BY <2>1, <2>2
<1>19. r \in After(p, bad, cap)
  BY <1>1, <1>2, <1>3, <1>8, <1>9, <1>11, <1>12, <1>15, <1>17, <1>18 DEF After
<1>20. Busy(q.worker) \subseteq Busy(r.worker)
  BY <1>16
<1> QED
  BY <1>5, <1>7, <1>13, <1>14, <1>19, <1>20 DEF r, s

\* A request is put at the end of the queue, once.
LEMMA EnqueueKeeps ==
  ASSUME NEW p \in Pages, NEW bad, NEW cap, NEW q \in After(p, bad, cap),
         NEW item \in Item, NEW text \in {"Queued", "Paused"},
         HasRow(q, item.id), q.worker[item.id].phase = "none",
         q.status[item.id] # "Completed",
         Faithful(p) => OfKind(item)
  PROVE  LET r == Enqueue(q, item, text)
         IN /\ r \in After(p, bad, cap) /\ item.id \in QueuedIds(r.queue)
            /\ r.worker = q.worker /\ QueuedIds(q.queue) \subseteq QueuedIds(r.queue)
            /\ \A e \in Ids : Served(q, e, bad) => Served(r, e, bad)
<1> DEFINE d == item.id
           r == Enqueue(q, item, text)
<1>1. CASE d \in QueuedIds(q.queue)
  BY <1>1 DEF Enqueue
<1>2. CASE d \notin QueuedIds(q.queue)
  <2>1. /\ q \in Pages /\ q.order = p.order /\ q.contexts = p.contexts /\ OneStory(q)
        /\ d \in Ids
    BY DEF After, Item
  <2> DEFINE Q == Append(q.queue, item)
  <2>2. /\ Q \in Seq(Item) /\ ToSet(Q) = ToSet(q.queue) \cup {item}
        /\ q.queue \in Seq(Item)
    BY <2>1, AppendMembers DEF Pages
  <2>3. Distinct(Q)
    BY <1>2, <2>1, <2>2, AppendDistinct DEF OneStory
  <2>4. QueuedIds(Q) = QueuedIds(q.queue) \cup {d}
    <3>1. QueuedIds(Q) = {other.id : other \in ToSet(Q)}
      BY <2>2, QueuedMembers
    <3>2. QueuedIds(q.queue) = {other.id : other \in ToSet(q.queue)}
      BY <2>2, QueuedMembers
    <3> HIDE DEF Q
    <3> QED
      BY <2>2, <3>1, <3>2
  <2>5. HasRow([q EXCEPT !.queue = Q], d)
    BY <2>1 DEF HasRow, Pages
  <2>6. r = [q EXCEPT !.queue = Q, !.status[d] = text]
    BY <1>2, <2>1, <2>5 DEF Enqueue, SetStatus, Pages
  <2> HIDE DEF Q, r
  <2>7. r \in Pages
    BY <2>1, <2>2, <2>6 DEF Pages, Statuses
  <2>8. /\ r.order = q.order /\ r.contexts = q.contexts /\ r.queue = Q
        /\ r.worker = q.worker /\ r.status = [q.status EXCEPT ![d] = text]
    BY <2>1, <2>6 DEF Pages
  <2>9. r.status[d] = text /\ \A e \in Ids \ {d} : r.status[e] = q.status[e]
    BY <2>1, <2>8 DEF Pages
  <2>10. OneStory(r)
    <3>1. ASSUME NEW e \in QueuedIds(r.queue)
          PROVE  /\ e \in ToSet(r.order) /\ r.worker[e].phase = "none"
                 /\ r.status[e] \in {"Queued", "Paused"}
      <4>1. CASE e = d
        BY <2>8, <2>9, <4>1 DEF HasRow
      <4>2. CASE e # d
        <5>1. e \in QueuedIds(q.queue) /\ e \in Ids
          BY <2>2, <2>4, <2>8, <3>1, <4>2, QueuedMembers
        <5> QED
          BY <2>1, <2>8, <2>9, <4>2, <5>1 DEF OneStory
      <4> QED
        BY <4>1, <4>2
    <3>2. ASSUME NEW e \in ToSet(r.order), r.status[e] = "Queued"
          PROVE  e \in QueuedIds(r.queue) \/ r.worker[e].phase # "none"
      <4>1. e \in Ids /\ e \in ToSet(q.order)
        BY <2>1, <2>8, Members DEF Pages
      <4>2. CASE e = d
        BY <2>4, <2>8, <4>2
      <4>3. CASE e # d
        BY <2>1, <2>4, <2>8, <2>9, <3>2, <4>1, <4>3 DEF OneStory
      <4> QED
        BY <4>2, <4>3
    <3> QED
      BY <2>3, <2>8, <3>1, <3>2 DEF OneStory
  <2>11. ASSUME NEW e \in Ids, \/ p.worker[e].phase # "none" \/ p.status[e] = "Completed"
                               \/ e \notin ToSet(p.order)
         PROVE  Kept(p, r, e)
    <3>1. Kept(p, q, e)
      BY <2>11 DEF After
    <3>2. e # d
      BY <2>1, <2>11, <3>1 DEF Kept, HasRow
    <3> QED
      BY <2>8, <2>9, <3>1, <3>2 DEF Kept
  <2>12. ASSUME NEW e \in Ids
         PROVE  r.status[e] = p.status[e] \/ r.status[e] \in {"Queued", "Paused", "Error"}
    <3>1. q.status[e] = p.status[e] \/ q.status[e] \in {"Queued", "Paused", "Error"}
      BY DEF After
    <3> QED
      BY <2>9, <3>1
  <2>13. Faithful(p) => Faithful(r)
    <3>1. SUFFICES ASSUME Faithful(p)
                   PROVE  Faithful(r)
      OBVIOUS
    <3>2. Faithful(q)
      BY <3>1 DEF After
    <3>3. \A other \in ToSet(r.queue) : OfKind(other)
      BY <2>2, <2>8, <3>1, <3>2 DEF Faithful
    <3>4. ASSUME NEW e \in ToSet(r.order), r.status[e] # "Completed"
          PROVE  e \in r.contexts <=> e \in FromBrowser
      <4>1. e \in Ids /\ e \in ToSet(q.order)
        BY <2>1, <2>8, Members DEF Pages
      <4>2. q.status[e] # "Completed"
        BY <2>9, <3>4, <4>1
      <4> QED
        BY <2>8, <3>2, <4>1, <4>2 DEF Faithful
    <3> QED
      BY <3>2, <3>3, <3>4 DEF Faithful
  <2>14. ASSUME NEW e \in Ids, Served(q, e, bad)
         PROVE  Served(r, e, bad)
    <3>1. CASE e = d
      BY <2>4, <2>8, <3>1 DEF Served
    <3>2. CASE e # d
      BY <2>4, <2>8, <2>9, <2>14, <3>2 DEF Served
    <3> QED
      BY <3>1, <3>2
  <2>15. \A e \in QueuedIds(p.queue) : Served(r, e, bad)
    <3>1. QueuedIds(p.queue) \subseteq Ids
      BY QueuedMembers DEF Pages
    <3> QED
      BY <2>14, <3>1 DEF After
  <2>16. \A e \in Ids : \/ r.worker[e] = p.worker[e]
                        \/ Fresh(r.worker[e]) /\ (Faithful(p) => AsAsked(r.worker[e], e))
    BY <2>8 DEF After
  <2>17. Busy(r.worker) = Busy(p.worker) \/ Cardinality(Busy(r.worker)) <= cap
    BY <2>8 DEF After
  <2>18. r \in After(p, bad, cap)
    BY <2>1, <2>7, <2>8, <2>10, <2>11, <2>12, <2>13, <2>15, <2>16, <2>17 DEF After
  <2>19. d \in QueuedIds(r.queue) /\ QueuedIds(q.queue) \subseteq QueuedIds(r.queue)
    BY <2>4, <2>8
  <2> QED
    BY <2>8, <2>14, <2>18, <2>19 DEF r
<1> QED
  BY <1>1, <1>2

\* attempt_start_download, for a row that is not completed and has no worker.
LEMMA AttemptKeeps ==
  ASSUME NEW p \in Pages, NEW bad, slots \in Nat, NEW q \in After(p, bad, slots),
         NEW item \in Item, NEW idle \in BOOLEAN,
         HasRow(q, item.id), q.worker[item.id].phase = "none",
         q.status[item.id] # "Completed",
         Faithful(p) => OfKind(item)
  PROVE  LET r == AttemptStart(q, item, idle, bad)
         IN /\ r \in After(p, bad, slots) /\ Served(r, item.id, bad)
            /\ Busy(q.worker) \subseteq Busy(r.worker)
            /\ QueuedIds(q.queue) \ {item.id} \subseteq QueuedIds(r.queue)
            /\ \A e \in Ids : Served(q, e, bad) => Served(r, e, bad)
            /\ \/ idle
               \/ Cardinality(Busy(r.worker)) >= slots
               \/ QueuedIds(r.queue) = QueuedIds(q.queue) \ {item.id}
<1> DEFINE r == AttemptStart(q, item, idle, bad)
<1>1. ASSUME NEW text \in {"Queued", "Paused"}, r = Enqueue(q, item, text),
             idle \/ Cardinality(Busy(q.worker)) >= slots
      PROVE  /\ r \in After(p, bad, slots) /\ Served(r, item.id, bad)
             /\ Busy(q.worker) \subseteq Busy(r.worker)
             /\ QueuedIds(q.queue) \ {item.id} \subseteq QueuedIds(r.queue)
             /\ \A e \in Ids : Served(q, e, bad) => Served(r, e, bad)
             /\ idle \/ Cardinality(Busy(r.worker)) >= slots
  <2> HIDE DEF r
  <2>1. /\ r \in After(p, bad, slots) /\ item.id \in QueuedIds(r.queue)
        /\ r.worker = q.worker /\ QueuedIds(q.queue) \subseteq QueuedIds(r.queue)
        /\ \A e \in Ids : Served(q, e, bad) => Served(r, e, bad)
    BY <1>1, EnqueueKeeps
  <2> QED
    BY <1>1, <2>1 DEF Served
<1>2. CASE idle
  <2>1. r = Enqueue(q, item, "Paused")
    BY <1>2 DEF AttemptStart
  <2> HIDE DEF r
  <2> QED
    BY <1>1, <1>2, <2>1 DEF r
<1>3. CASE ~idle /\ Cardinality(Busy(q.worker)) >= slots
  <2>1. r = Enqueue(q, item, "Queued")
    BY <1>3, BusySlots DEF AttemptStart
  <2> HIDE DEF r
  <2> QED
    BY <1>1, <1>3, <2>1 DEF r
<1>4. CASE ~idle /\ Cardinality(Busy(q.worker)) < slots
  <2>1. r = StartWorker(q, item, bad)
    BY <1>4 DEF AttemptStart
  <2>2. q \in Pages /\ OneStory(q) /\ q.queue \in Seq(Item)
    BY DEF After, Pages
  <2>3. q = [q EXCEPT !.queue = q.queue]
    BY <2>2 DEF Pages
  <2> DEFINE s == StartWorker([q EXCEPT !.queue = q.queue], item, bad)
  <2>4. r = s
    BY <2>1, <2>3
  <2>5. /\ s \in After(p, bad, slots) /\ Served(s, item.id, bad)
        /\ Len(s.queue) <= Len(q.queue) /\ Busy(q.worker) \subseteq Busy(s.worker)
        /\ QueuedIds(s.queue) = QueuedIds(q.queue) \ {item.id}
        /\ \A e \in Ids : Served(q, e, bad) => Served(s, e, bad)
    <3>1. Distinct(q.queue)
      BY <2>2 DEF OneStory
    <3> QED
      BY <1>4, <2>2, <3>1, StartKeeps
  <2> HIDE DEF r, s
  <2> QED
    BY <2>4, <2>5 DEF r
<1>5. slots \in Int /\ Cardinality(Busy(q.worker)) \in Int
  BY BusySlots
<1> QED
  BY <1>2, <1>3, <1>4, <1>5

\* One turn of process_queue.
LEMMA ServeKeeps ==
  ASSUME NEW p \in Pages, NEW bad, NEW cap \in Nat, NEW q \in After(p, bad, cap)
  PROVE  LET r == ServeNext(q, bad, cap)
         IN /\ r \in After(p, bad, cap) /\ Busy(q.worker) \subseteq Busy(r.worker)
            /\ \/ Cardinality(Busy(r.worker)) >= cap \/ r.queue = <<>>
               \/ Len(r.queue) <= Len(q.queue) - 1
<1> DEFINE r == ServeNext(q, bad, cap)
           item == Head(q.queue)
<1>1. q \in Pages /\ q.queue \in Seq(Item) /\ OneStory(q)
  BY DEF After, Pages
<1>2. CASE q.queue = <<>> \/ Cardinality(Busy(q.worker)) >= cap
  BY <1>2 DEF ServeNext
<1>3. CASE q.queue # <<>> /\ ~(Cardinality(Busy(q.worker)) >= cap)
  <2> DEFINE R == Tail(q.queue)
             s == StartWorker([q EXCEPT !.queue = R], item, bad)
  <2>1. /\ item \in ToSet(q.queue) /\ R \in Seq(Item) /\ Len(R) = Len(q.queue) - 1
        /\ ToSet(q.queue) = ToSet(R) \cup {item} /\ Distinct(R)
    BY <1>1, <1>3, TailMembers DEF OneStory
  <2>2. item \in Item /\ item.id \in QueuedIds(q.queue)
    BY <1>1, <2>1, Members, QueuedMembers
  <2>3. /\ HasRow(q, item.id) /\ q.worker[item.id].phase = "none"
        /\ q.status[item.id] # "Completed"
    BY <1>1, <2>2 DEF OneStory, HasRow
  <2>4. Cardinality(Busy(q.worker)) < cap
    BY <1>3, BusySlots
  <2>5. Faithful(p) => OfKind(item)
    BY <2>1 DEF After, Faithful
  <2>6. r = s
    BY <1>3, <2>3 DEF ServeNext
  <2>7. /\ s \in After(p, bad, cap) /\ Len(s.queue) <= Len(R)
        /\ Busy(q.worker) \subseteq Busy(s.worker)
    <3> HIDE DEF item, R
    <3>1. ToSet(R) \subseteq ToSet(q.queue)
      BY <2>1
    <3>2. \A other \in ToSet(q.queue) : other \in ToSet(R) \/ other.id = item.id
      BY <2>1
    <3> QED
      BY <2>1, <2>2, <2>3, <2>4, <2>5, <3>1, <3>2, StartKeeps
  <2> HIDE DEF item, R, r, s
  <2> QED
    BY <2>1, <2>6, <2>7 DEF r
<1> QED
  BY <1>2, <1>3

\* A queue without ids is empty.
LEMMA NobodyWaits ==
  ASSUME NEW q \in Seq(Item), QueuedIds(q) = {}
  PROVE  q = <<>>
<1>1. q # <<>> => 1 \in DOMAIN q
  OBVIOUS
<1> QED
  BY <1>1 DEF QueuedIds

\* process_queue leaves no slot idle beside a request that waits.
LEMMA ProcessKeeps ==
  ASSUME NEW p \in Pages, OneStory(p), NEW bad, NEW cap \in Nat
  PROVE  LET r == ProcessQueue(p, bad, cap)
         IN /\ r \in After(p, bad, cap)
            /\ Cardinality(Busy(r.worker)) >= cap \/ r.queue = <<>>
<1> DEFINE N == Len(p.queue)
           S == After(p, bad, cap)
           step == [a \in (1..N) \X S |-> ServeNext(a[2], bad, cap)]
           Body(f) == [n \in 0..N |->
                         IF n = 0 THEN p ELSE ServeNext(f[n - 1], bad, cap)]
           turn == CHOOSE f : f = Body(f)
<1>1. N \in Nat /\ p.queue \in Seq(Item)
  BY DEF Pages
<1>2. p \in S
  BY AfterNothing
<1>3. \A q \in S : /\ ServeNext(q, bad, cap) \in S
                   /\ Busy(q.worker) \subseteq Busy(ServeNext(q, bad, cap).worker)
                   /\ \/ Cardinality(Busy(ServeNext(q, bad, cap).worker)) >= cap
                      \/ ServeNext(q, bad, cap).queue = <<>>
                      \/ Len(ServeNext(q, bad, cap).queue) <= Len(q.queue) - 1
  BY ServeKeeps
<1>4. S \subseteq Pages
  BY DEF After
<1>5. ProcessQueue(p, bad, cap) = turn[N]
  BY DEF ProcessQueue
<1> HIDE DEF N, S
<1>6. step \in [(1..N) \X S -> S]
  BY <1>3
<1>7. PICK f \in [0..N -> S] :
        f[0] = p /\ \A n \in 1..N : f[n] = step[<<n, f[n - 1]>>]
  <2> HIDE DEF step
  <2>1. Iterates(N, S, p, step)
    BY <1>1, <1>2, <1>6, Recursion
  <2> QED
    BY <2>1 DEF Iterates
<1>8. f = Body(f)
  <2>1. ASSUME NEW n \in 1..N
        PROVE  f[n] = ServeNext(f[n - 1], bad, cap)
    <3>1. f[n - 1] \in S
      BY <1>1
    <3> QED
      BY <1>7, <3>1
  <2>2. \A n \in 0..N : n = 0 \/ (n \in 1..N /\ n # 0)
    BY <1>1
  <2>3. \A n \in 0..N : f[n] = IF n = 0 THEN p ELSE ServeNext(f[n - 1], bad, cap)
    BY <1>7, <2>1, <2>2
  <2>4. f = [n \in 0..N |-> f[n]]
    OBVIOUS
  <2> QED
    BY <2>3, <2>4
<1>9. turn = Body(turn)
  <2> HIDE DEF Body
  <2> QED
    BY <1>8
<1> HIDE DEF turn
<1> DEFINE Good(n) == /\ turn[n] \in S
                      /\ \/ Cardinality(Busy(turn[n].worker)) >= cap
                         \/ turn[n].queue = <<>>
                         \/ Len(turn[n].queue) <= N - n
           T == {n \in Nat : n <= N => Good(n)}
<1>10. 0 \in T
  <2>1. turn[0] = p
    BY <1>1, <1>9
  <2>2. Good(0)
    BY <1>1, <1>2, <2>1 DEF N
  <2> HIDE DEF Good
  <2> QED
    BY <2>2
<1>11. ASSUME NEW k \in Nat, k \in T
       PROVE  k + 1 \in T
  <2>1. SUFFICES ASSUME k + 1 <= N
                 PROVE  Good(k + 1)
    <3> HIDE DEF Good
    <3> QED
      OBVIOUS
  <2>2. Good(k)
    <3> HIDE DEF Good
    <3> QED
      BY <1>1, <1>11, <2>1
  <2> DEFINE q == turn[k]
             r == turn[k + 1]
  <2>3. r = ServeNext(q, bad, cap)
    <3>1. k + 1 \in 0..N /\ k + 1 # 0 /\ k + 1 - 1 = k
      BY <1>1, <2>1
    <3> DEFINE n == k + 1
    <3> HIDE DEF n
    <3>2. n # 0 => turn[n] = ServeNext(turn[n - 1], bad, cap)
      BY <1>9, <3>1 DEF n
    <3> QED
      BY <3>1, <3>2 DEF n
  <2>4. q \in S
    BY <2>2
  <2>5. /\ r \in S /\ Busy(q.worker) \subseteq Busy(r.worker)
        /\ \/ Cardinality(Busy(r.worker)) >= cap \/ r.queue = <<>>
           \/ Len(r.queue) <= Len(q.queue) - 1
    BY <1>3, <2>3, <2>4
  <2>6. q.queue \in Seq(Item) /\ r.queue \in Seq(Item)
    BY <1>4, <2>4, <2>5 DEF Pages
  <2>7. Cardinality(Busy(q.worker)) <= Cardinality(Busy(r.worker))
    BY <2>5, SlotsGrow
  <2>8. Cardinality(Busy(q.worker)) \in Nat /\ Cardinality(Busy(r.worker)) \in Nat
    BY BusySlots
  <2>9. \/ Cardinality(Busy(q.worker)) >= cap \/ q.queue = <<>>
        \/ Len(q.queue) <= N - k
    BY <2>2
  <2> HIDE DEF q, r
  <2>10. \/ Cardinality(Busy(r.worker)) >= cap \/ r.queue = <<>>
         \/ Len(r.queue) <= N - (k + 1)
    <3>1. CASE q.queue = <<>>
      BY <1>1, <2>5, <2>6, <3>1
    <3>2. CASE Cardinality(Busy(q.worker)) >= cap
      BY <2>7, <2>8, <3>2
    <3>3. CASE Len(q.queue) <= N - k
      <4>1. Len(q.queue) \in Nat /\ Len(r.queue) \in Nat
        BY <2>6
      <4> QED
        BY <1>1, <2>5, <3>3, <4>1
    <3> QED
      BY <2>9, <3>1, <3>2, <3>3
  <2> QED
    BY <2>5, <2>10 DEF r
<1>12. Nat \subseteq T
  <2> HIDE DEF T
  <2> QED
    BY <1>10, <1>11, Induction
<1>13. Good(N)
  <2> HIDE DEF Good
  <2> QED
    BY <1>1, <1>12
<1>14. turn[N].queue \in Seq(Item)
  BY <1>4, <1>13 DEF Pages
<1>15. Cardinality(Busy(turn[N].worker)) >= cap \/ turn[N].queue = <<>>
  BY <1>1, <1>13, <1>14
<1> HIDE DEF Body
<1> QED
  BY <1>5, <1>13, <1>15 DEF S

LEMMA RequestIsItem ==
  ASSUME NEW d \in Ids
  PROVE  Request(d) \in Item /\ Request(d).id = d
  BY DEF Request, Item

\* One turn of resume_all.
LEMMA ResumeKeeps ==
  ASSUME NEW p \in Pages, NEW bad, slots \in Nat, NEW q \in After(p, bad, slots),
         NEW d \in ToSet(p.order),
         (Faithful(p) /\ p.status[d] # "Completed") => OfKind(Request(d))
  PROVE  LET r == Resume(q, d, bad)
         IN /\ r \in After(p, bad, slots) /\ Busy(q.worker) \subseteq Busy(r.worker)
            /\ \A e \in Ids : Served(q, e, bad) => Served(r, e, bad)
            /\ p.status[d] = "Completed" \/ Served(r, d, bad)
            /\ \/ Cardinality(Busy(r.worker)) >= slots
               \/ QueuedIds(r.queue) = QueuedIds(q.queue) \ {d}
<1> DEFINE r == Resume(q, d, bad)
<1>1. d \in Ids /\ q \in Pages /\ OneStory(q) /\ q.order = p.order
  BY Members DEF After, Pages
<1>2. q.status[d] = "Completed" => p.status[d] = "Completed"
  BY <1>1 DEF After
<1>3. CASE d \in Busy(q.worker) \/ q.status[d] = "Completed"
  <2>1. r = q
    BY <1>3 DEF Resume
  <2>2. d \notin QueuedIds(q.queue)
    BY <1>1, <1>3 DEF OneStory, Busy
  <2>3. p.status[d] = "Completed" \/ Served(q, d, bad)
    BY <1>2, <1>3 DEF Served, Busy
  <2> HIDE DEF r
  <2> QED
    BY <2>1, <2>2, <2>3 DEF r
<1>4. CASE ~(d \in Busy(q.worker) \/ q.status[d] = "Completed")
  <2> DEFINE item == Request(d)
             s == AttemptStart(q, item, FALSE, bad)
  <2>1. r = s
    BY <1>4 DEF Resume
  <2>2. item \in Item /\ item.id = d
    BY <1>1, RequestIsItem
  <2>3. HasRow(q, d) /\ q.worker[d].phase = "none" /\ q.status[d] # "Completed"
    BY <1>1, <1>4 DEF HasRow, Busy
  <2>4. p.status[d] # "Completed"
    BY <1>1, <2>3 DEF After, Kept
  <2> HIDE DEF item
  <2>5. Faithful(p) => OfKind(item)
    BY <2>4 DEF item
  <2>6. /\ HasRow(q, item.id) /\ q.worker[item.id].phase = "none"
        /\ q.status[item.id] # "Completed"
    BY <2>2, <2>3
  <2> DEFINE idle == FALSE
  <2>7. /\ s \in After(p, bad, slots) /\ Served(s, item.id, bad)
        /\ Busy(q.worker) \subseteq Busy(s.worker)
        /\ \A e \in Ids : Served(q, e, bad) => Served(s, e, bad)
        /\ \/ idle \/ Cardinality(Busy(s.worker)) >= slots
           \/ QueuedIds(s.queue) = QueuedIds(q.queue) \ {item.id}
    <3>1. idle \in BOOLEAN /\ s = AttemptStart(q, item, idle, bad)
      OBVIOUS
    <3> HIDE DEF s, idle
    <3> QED
      BY <2>2, <2>5, <2>6, <3>1, AttemptKeeps
  <2> HIDE DEF r, s
  <2> QED
    BY <2>1, <2>2, <2>7 DEF r
<1> QED
  BY <1>3, <1>4

\* resume_all asks for every row that is not completed, and leaves no slot idle
\* beside a request that waits.
LEMMA ResumeRowsKeeps ==
  ASSUME NEW p \in Pages, OneStory(p), NEW bad, slots \in Nat,
         \A d \in ToSet(p.order) :
           (Faithful(p) /\ p.status[d] # "Completed") => OfKind(Request(d))
  PROVE  LET r == ResumeRows(p, bad)
         IN /\ r \in After(p, bad, slots)
            /\ \A d \in ToSet(p.order) : p.status[d] = "Completed" \/ Served(r, d, bad)
            /\ Cardinality(Busy(r.worker)) >= slots \/ r.queue = <<>>
<1> DEFINE N == Len(p.order)
           S == After(p, bad, slots)
           step == [a \in (1..N) \X S |-> Resume(a[2], p.order[a[1]], bad)]
           Body(f) == [n \in 0..N |->
                         IF n = 0 THEN p ELSE Resume(f[n - 1], p.order[n], bad)]
           turn == CHOOSE f : f = Body(f)
<1>1. /\ N \in Nat /\ p.order \in Seq(Ids)
      /\ \A n \in 1..N : p.order[n] \in ToSet(p.order) /\ p.order[n] \in Ids
      /\ \A d \in ToSet(p.order) : \E n \in 1..N : p.order[n] = d
  <2>1. p.order \in Seq(Ids)
    BY DEF Pages
  <2> QED
    BY <2>1, Members
<1>2. p \in S
  BY AfterNothing
<1>3. ASSUME NEW q \in S, NEW d \in ToSet(p.order)
      PROVE  /\ Resume(q, d, bad) \in S
             /\ Busy(q.worker) \subseteq Busy(Resume(q, d, bad).worker)
             /\ \A e \in Ids : Served(q, e, bad) => Served(Resume(q, d, bad), e, bad)
             /\ p.status[d] = "Completed" \/ Served(Resume(q, d, bad), d, bad)
             /\ \/ Cardinality(Busy(Resume(q, d, bad).worker)) >= slots
                \/ QueuedIds(Resume(q, d, bad).queue) = QueuedIds(q.queue) \ {d}
  BY ResumeKeeps
<1>4. \A q \in S : q \in Pages /\ OneStory(q) /\ q.order = p.order
  BY DEF After
<1>5. ResumeRows(p, bad) = turn[N]
  BY DEF ResumeRows
<1> HIDE DEF N, S
<1>6. step \in [(1..N) \X S -> S]
  BY <1>1, <1>3
<1>7. PICK f \in [0..N -> S] :
        f[0] = p /\ \A n \in 1..N : f[n] = step[<<n, f[n - 1]>>]
  <2> HIDE DEF step
  <2>1. Iterates(N, S, p, step)
    BY <1>1, <1>2, <1>6, Recursion
  <2> QED
    BY <2>1 DEF Iterates
<1>8. f = Body(f)
  <2>1. ASSUME NEW n \in 1..N
        PROVE  f[n] = Resume(f[n - 1], p.order[n], bad)
    <3>1. f[n - 1] \in S
      BY <1>1
    <3> QED
      BY <1>7, <3>1
  <2>2. \A n \in 0..N : n = 0 \/ (n \in 1..N /\ n # 0)
    BY <1>1
  <2>3. \A n \in 0..N : f[n] = IF n = 0 THEN p ELSE Resume(f[n - 1], p.order[n], bad)
    BY <1>7, <2>1, <2>2
  <2>4. f = [n \in 0..N |-> f[n]]
    OBVIOUS
  <2> QED
    BY <2>3, <2>4
<1>9. turn = Body(turn)
  <2> HIDE DEF Body
  <2> QED
    BY <1>8
<1> HIDE DEF turn
<1> DEFINE Good(n) ==
             /\ turn[n] \in S
             /\ \A i \in 1..n : \/ p.status[p.order[i]] = "Completed"
                                \/ Served(turn[n], p.order[i], bad)
             /\ \/ Cardinality(Busy(turn[n].worker)) >= slots
                \/ \A i \in 1..n : p.order[i] \notin QueuedIds(turn[n].queue)
           T == {n \in Nat : n <= N => Good(n)}
<1>10. 0 \in T
  <2>1. turn[0] = p
    BY <1>1, <1>9
  <2>2. Good(0)
    BY <1>1, <1>2, <2>1
  <2> HIDE DEF Good
  <2> QED
    BY <2>2
<1>11. ASSUME NEW k \in Nat, k \in T
       PROVE  k + 1 \in T
  <2>1. SUFFICES ASSUME k + 1 <= N
                 PROVE  Good(k + 1)
    <3> HIDE DEF Good
    <3> QED
      OBVIOUS
  <2>2. Good(k)
    <3> HIDE DEF Good
    <3> QED
      BY <1>1, <1>11, <2>1
  <2> DEFINE n == k + 1
             q == turn[k]
             d == p.order[n]
             r == turn[n]
  <2>3. n \in 0..N /\ n # 0 /\ n - 1 = k /\ n \in 1..N
    BY <1>1, <2>1
  <2>4. r = Resume(q, d, bad)
    <3> HIDE DEF n
    <3>1. n # 0 => turn[n] = Resume(turn[n - 1], p.order[n], bad)
      BY <1>9, <2>3
    <3> QED
      BY <2>3, <3>1
  <2>5. q \in S /\ d \in ToSet(p.order) /\ d \in Ids
    BY <1>1, <2>2, <2>3
  <2>6. /\ r \in S /\ Busy(q.worker) \subseteq Busy(r.worker)
        /\ \A e \in Ids : Served(q, e, bad) => Served(r, e, bad)
        /\ p.status[d] = "Completed" \/ Served(r, d, bad)
        /\ \/ Cardinality(Busy(r.worker)) >= slots
           \/ QueuedIds(r.queue) = QueuedIds(q.queue) \ {d}
    <3> HIDE DEF q, d, r
    <3> QED
      BY <1>3, <2>4, <2>5
  <2>7. Cardinality(Busy(q.worker)) <= Cardinality(Busy(r.worker))
    BY <2>6, SlotsGrow
  <2>8. Cardinality(Busy(q.worker)) \in Nat /\ Cardinality(Busy(r.worker)) \in Nat
    BY BusySlots
  <2>9. \A i \in 1..n : i = n \/ i \in 1..k
    OBVIOUS
  <2>10. \A i \in 1..k : p.order[i] \in Ids
    BY <1>1, <2>1
  <2>11. /\ \A i \in 1..k : \/ p.status[p.order[i]] = "Completed"
                            \/ Served(q, p.order[i], bad)
         /\ \/ Cardinality(Busy(q.worker)) >= slots
            \/ \A i \in 1..k : p.order[i] \notin QueuedIds(q.queue)
    BY <2>2
  <2> HIDE DEF q, r
  <2>12. \A i \in 1..n : p.status[p.order[i]] = "Completed" \/ Served(r, p.order[i], bad)
    <3> HIDE DEF n
    <3> QED
      BY <2>6, <2>9, <2>10, <2>11
  <2>13. \/ Cardinality(Busy(r.worker)) >= slots
         \/ \A i \in 1..n : p.order[i] \notin QueuedIds(r.queue)
    <3> HIDE DEF n
    <3>1. CASE Cardinality(Busy(q.worker)) >= slots
      BY <2>7, <2>8, <3>1
    <3>2. CASE \A i \in 1..k : p.order[i] \notin QueuedIds(q.queue)
      BY <2>6, <2>9, <3>2
    <3> QED
      BY <2>11, <3>1, <3>2
  <2> QED
    BY <2>6, <2>12, <2>13 DEF r
<1>12. Nat \subseteq T
  <2> HIDE DEF T
  <2> QED
    BY <1>10, <1>11, Induction
<1>13. Good(N)
  <2> HIDE DEF Good
  <2> QED
    BY <1>1, <1>12
<1> HIDE DEF Body
<1> DEFINE r == turn[N]
<1>14. /\ r \in S
       /\ \A i \in 1..N : p.status[p.order[i]] = "Completed" \/ Served(r, p.order[i], bad)
       /\ \/ Cardinality(Busy(r.worker)) >= slots
          \/ \A i \in 1..N : p.order[i] \notin QueuedIds(r.queue)
  BY <1>13
<1> HIDE DEF r
<1>15. \A d \in ToSet(p.order) : p.status[d] = "Completed" \/ Served(r, d, bad)
  BY <1>1, <1>14
<1>16. Cardinality(Busy(r.worker)) >= slots \/ r.queue = <<>>
  <2>1. SUFFICES ASSUME \A i \in 1..N : p.order[i] \notin QueuedIds(r.queue)
                 PROVE  r.queue = <<>>
    BY <1>14
  <2>2. \A d \in ToSet(p.order) : d \notin QueuedIds(r.queue)
    BY <1>1, <2>1
  <2>3. r \in Pages /\ OneStory(r) /\ r.order = p.order
    BY <1>4, <1>14
  <2>4. QueuedIds(r.queue) = {}
    BY <2>2, <2>3 DEF OneStory
  <2>5. r.queue \in Seq(Item)
    BY <2>3 DEF Pages
  <2> QED
    BY <2>4, <2>5, NobodyWaits
<1> QED
  BY <1>5, <1>14, <1>15, <1>16 DEF S, r

-----------------------------------------------------------------------------
(***************************************************************************)
(* The signals of a worker.                                                *)
(***************************************************************************)
\* The page takes a signal that is not the last.
LEMMA TakePosted ==
  ASSUME NEW w \in Worker, NEW s \in Seq(Texts), s # <<>>, PostedBy(w, s),
         Head(s) # "finished"
  PROVE  /\ PostedBy(w, Tail(s)) /\ w.phase \in {"run", "done"}
         /\ Head(s) = "task_finished" => w.phase = "done" /\ Tail(s) = <<"finished">>
         /\ (PromisedBy(w, s) /\ Head(s) \notin {"task_finished", "error"})
               => PromisedBy(w, Tail(s))
<1> DEFINE t == Tail(s)
<1>1. /\ t \in Seq(Texts) /\ Len(s) \in Nat \ {0} /\ Len(t) = Len(s) - 1
      /\ Head(s) = s[1]
  OBVIOUS
<1>2. \A i \in 1..Len(s) - 1 : t[i] = s[i + 1] /\ i + 1 \in 1..Len(s)
  OBVIOUS
<1>3. w.phase \in {"run", "done"}
  BY DEF PostedBy, Worker
<1> HIDE DEF t
<1>4. \A i \in 1..Len(t) : /\ t[i] = "finished" => w.phase = "done" /\ i = Len(t)
                           /\ t[i] = "task_finished" => w.phase = "done" /\ i + 1 = Len(t)
  BY <1>1, <1>2 DEF PostedBy
<1>5. w.phase = "done" => t # <<>> /\ t[Len(t)] = "finished"
  <2>1. SUFFICES ASSUME w.phase = "done"
                 PROVE  t # <<>> /\ t[Len(t)] = "finished"
    OBVIOUS
  <2>2. s[Len(s)] = "finished"
    BY <2>1 DEF PostedBy
  <2>3. Len(s) # 1
    BY <1>1, <2>2
  <2>4. Len(t) \in 1..Len(s) - 1 /\ Len(t) + 1 = Len(s)
    BY <1>1, <2>3
  <2> QED
    BY <1>1, <1>2, <2>2, <2>4
<1>6. PostedBy(w, t)
  BY <1>3, <1>4, <1>5 DEF PostedBy
<1>7. ASSUME Head(s) = "task_finished"
      PROVE  w.phase = "done" /\ t = <<"finished">>
  <2>1. 1 \in 1..Len(s)
    BY <1>1
  <2>2. w.phase = "done" /\ Len(s) = 2
    BY <1>1, <1>7, <2>1 DEF PostedBy
  <2>3. Len(t) = 1 /\ t[1] = "finished"
    BY <1>1, <1>5, <2>2
  <2> QED
    BY <1>1, <2>2, <2>3
<1>8. ASSUME PromisedBy(w, s), Head(s) \notin {"task_finished", "error"}
      PROVE  PromisedBy(w, t)
  <2>1. SUFFICES ASSUME w.phase = "done"
                 PROVE  \E i \in 1..Len(t) : t[i] \in {"task_finished", "error"}
    BY <1>8 DEF PromisedBy
  <2>2. PICK i \in 1..Len(s) : s[i] \in {"task_finished", "error"}
    BY <1>8, <2>1 DEF PromisedBy
  <2>3. i # 1
    BY <1>1, <1>8, <2>2
  <2>4. i - 1 \in 1..Len(s) - 1 /\ i - 1 + 1 = i
    BY <1>1, <2>3
  <2>5. t[i - 1] = s[i]
    BY <1>2, <2>4
  <2> QED
    BY <1>1, <2>2, <2>4, <2>5
<1> QED
  BY <1>3, <1>6, <1>7, <1>8 DEF t

\* The page takes the last signal.
LEMMA TakeLast ==
  ASSUME NEW w \in Worker, NEW s \in Seq(Texts), s # <<>>, PostedBy(w, s),
         Head(s) = "finished"
  PROVE  Tail(s) = <<>> /\ w.phase = "done" /\ s = <<"finished">> /\ ~PromisedBy(w, s)
<1>1. Len(s) \in Nat \ {0} /\ Head(s) = s[1] /\ 1 \in 1..Len(s)
  OBVIOUS
<1>2. w.phase = "done" /\ Len(s) = 1
  BY <1>1 DEF PostedBy
<1>3. s = <<"finished">>
  BY <1>1, <1>2
<1>4. \A i \in 1..Len(s) : s[i] = "finished"
  BY <1>1, <1>2
<1> QED
  BY <1>2, <1>3, <1>4 DEF PromisedBy

\* A thread at work posts one more signal.
LEMMA PostOne ==
  ASSUME NEW w \in Worker, NEW s \in Seq(Texts), PostedBy(w, s), w.phase # "done",
         NEW v \in Worker, v.phase = "run", NEW text \in {Working, "progress"}
  PROVE  /\ s \o <<text>> \in Seq(Texts) /\ PostedBy(v, s \o <<text>>)
         /\ s # <<>> => Head(s \o <<text>>) = Head(s)
         /\ s = <<>> => Head(s \o <<text>>) = text
<1> DEFINE t == s \o <<text>>
<1>1. <<text>> \in Seq(Texts) /\ text \in Texts
  BY DEF Texts
<1>2. t \in Seq(Texts) /\ Len(t) = Len(s) + 1 /\ Len(s) \in Nat /\ t # <<>>
  BY <1>1
<1>3. /\ \A i \in 1..Len(s) : t[i] = s[i]
      /\ t[Len(s) + 1] = text
  BY <1>1
<1>4. Head(t) = t[1] /\ (s # <<>> => Head(s) = s[1] /\ 1 \in 1..Len(s))
      /\ (s = <<>> => Len(s) = 0)
  BY <1>2
<1>5. \A i \in 1..Len(s) + 1 : i \in 1..Len(s) \/ i = Len(s) + 1
  BY <1>2
<1>6. text # "finished" /\ text # "task_finished"
  BY DEF Working
<1> HIDE DEF t
<1>7. \A i \in 1..Len(s) : s[i] # "finished" /\ s[i] # "task_finished"
  BY DEF PostedBy
<1>8. \A i \in 1..Len(t) : t[i] # "finished" /\ t[i] # "task_finished"
  BY <1>2, <1>3, <1>5, <1>6, <1>7
<1>9. PostedBy(v, t)
  BY <1>8 DEF PostedBy
<1> QED
  BY <1>2, <1>3, <1>4, <1>9 DEF t

\* What a thread says last.
LEMMA PostLast ==
  ASSUME NEW w \in Worker, NEW s \in Seq(Texts), PostedBy(w, s), w.phase # "done",
         NEW v \in Worker, v.phase = "done", v.stop = w.stop,
         NEW last \in {<<"Completed", "task_finished">>, <<"error">>, <<"Paused">>, <<>>},
         w.stop \/ last \notin {<<"Paused">>, <<>>}
  PROVE  LET t == s \o Append(last, "finished")
         IN /\ t \in Seq(Texts) /\ PostedBy(v, t) /\ t # <<>>
            /\ ~w.stop => PromisedBy(v, t)
            /\ s # <<>> => Head(t) = Head(s)
            /\ (s = <<>> /\ last = <<"Paused">>) => Head(t) = "Paused"
<1> DEFINE e == Append(last, "finished")
           t == s \o e
<1>0. ASSUME last \in Seq(Texts)
      PROVE  /\ e \in Seq(Texts) /\ Len(e) = Len(last) + 1 /\ e[Len(last) + 1] = "finished"
             /\ \A i \in 1..Len(last) : e[i] = last[i]
  <2>1. "finished" \in Texts
    BY DEF Texts
  <2> QED
    BY <1>0, <2>1, AppendProperties
<1>1. /\ e \in Seq(Texts) /\ Len(e) \in 1..3 /\ e[Len(e)] = "finished"
      /\ \A i \in 1..Len(e) : /\ e[i] = "finished" => i = Len(e)
                              /\ e[i] = "task_finished" => i + 1 = Len(e)
      /\ last = <<"Paused">> => e[1] = "Paused"
      /\ last \notin {<<"Paused">>, <<>>} =>
           \E i \in 1..Len(e) : e[i] \in {"task_finished", "error"}
  <2>1. CASE last = <<"Completed", "task_finished">>
    <3>1. /\ last \in Seq(Texts) /\ Len(last) = 2
          /\ last[1] = "Completed" /\ last[2] = "task_finished"
      BY <2>1 DEF Texts
    <3>2. e \in Seq(Texts) /\ Len(e) = 3 /\ e[1] = "Completed"
          /\ e[2] = "task_finished" /\ e[3] = "finished"
      <4> HIDE DEF e
      <4> QED
        BY <1>0, <3>1
    <3>3. 2 \in 1..3 /\ \A i \in 1..3 : i = 1 \/ i = 2 \/ i = 3
      OBVIOUS
    <3> HIDE DEF e
    <3> QED
      BY <2>1, <3>2, <3>3
  <2>2. CASE last = <<"error">>
    <3>1. last \in Seq(Texts) /\ Len(last) = 1 /\ last[1] = "error"
      BY <2>2 DEF Texts
    <3>2. e \in Seq(Texts) /\ Len(e) = 2 /\ e[1] = "error" /\ e[2] = "finished"
      <4> HIDE DEF e
      <4> QED
        BY <1>0, <3>1
    <3>3. 1 \in 1..2 /\ \A i \in 1..2 : i = 1 \/ i = 2
      OBVIOUS
    <3> HIDE DEF e
    <3> QED
      BY <2>2, <3>2, <3>3
  <2>3. CASE last = <<"Paused">>
    <3>1. last \in Seq(Texts) /\ Len(last) = 1 /\ last[1] = "Paused"
      BY <2>3 DEF Texts
    <3>2. e \in Seq(Texts) /\ Len(e) = 2 /\ e[1] = "Paused" /\ e[2] = "finished"
      <4> HIDE DEF e
      <4> QED
        BY <1>0, <3>1
    <3>3. \A i \in 1..2 : i = 1 \/ i = 2
      OBVIOUS
    <3> HIDE DEF e
    <3> QED
      BY <2>3, <3>2, <3>3
  <2>4. CASE last = <<>>
    <3>1. last \in Seq(Texts) /\ Len(last) = 0
      BY <2>4
    <3>2. e \in Seq(Texts) /\ Len(e) = 1 /\ e[1] = "finished"
      <4> HIDE DEF e
      <4> QED
        BY <1>0, <3>1
    <3>3. \A i \in 1..1 : i = 1
      OBVIOUS
    <3>4. last # <<"Paused">>
      BY <2>4
    <3> HIDE DEF e
    <3> QED
      BY <2>4, <3>2, <3>3, <3>4
  <2> QED
    BY <2>1, <2>2, <2>3, <2>4
<1> HIDE DEF e
<1>2. t \in Seq(Texts) /\ Len(t) = Len(s) + Len(e) /\ Len(s) \in Nat /\ Len(e) \in Nat
  BY <1>1
<1>3. /\ \A i \in 1..Len(s) : t[i] = s[i]
      /\ \A i \in 1..Len(e) : t[Len(s) + i] = e[i]
  <2>1. \A i \in 1..Len(s) + Len(e) : t[i] = IF i <= Len(s) THEN s[i] ELSE e[i - Len(s)]
    BY <1>1, ConcatProperties
  <2>2. /\ \A i \in 1..Len(s) : i \in 1..Len(s) + Len(e) /\ i <= Len(s)
        /\ \A i \in 1..Len(e) : /\ Len(s) + i \in 1..Len(s) + Len(e)
                                /\ ~(Len(s) + i <= Len(s)) /\ Len(s) + i - Len(s) = i
    BY <1>2
  <2> HIDE DEF t
  <2>3. \A i \in 1..Len(s) : t[i] = s[i]
    BY <2>1, <2>2
  <2>4. ASSUME NEW i \in 1..Len(e)
        PROVE  t[Len(s) + i] = e[i]
    <3>1. t[Len(s) + i] = e[Len(s) + i - Len(s)]
      BY <2>1, <2>2
    <3> QED
      BY <2>2, <3>1
  <2> QED
    BY <2>3, <2>4
<1> HIDE DEF t
<1>4. t # <<>> /\ Head(t) = t[1]
  BY <1>1, <1>2
<1>5. \A i \in 1..Len(s) : s[i] # "finished" /\ s[i] # "task_finished"
  BY DEF PostedBy
<1>6. \A i \in 1..Len(t) : \/ i \in 1..Len(s)
                           \/ i - Len(s) \in 1..Len(e) /\ Len(s) + (i - Len(s)) = i
  BY <1>2
<1>7. ASSUME NEW i \in 1..Len(t)
      PROVE  /\ t[i] = "finished" => i = Len(t)
             /\ t[i] = "task_finished" => i + 1 = Len(t)
  <2>1. CASE i \in 1..Len(s)
    BY <1>3, <1>5, <2>1
  <2>2. CASE i - Len(s) \in 1..Len(e) /\ Len(s) + (i - Len(s)) = i
    <3>1. t[i] = e[i - Len(s)]
      BY <1>3, <2>2
    <3>2. /\ e[i - Len(s)] = "finished" => i - Len(s) = Len(e)
          /\ e[i - Len(s)] = "task_finished" => i - Len(s) + 1 = Len(e)
      BY <1>1, <2>2
    <3> QED
      BY <1>2, <3>1, <3>2
  <2> QED
    BY <1>6, <2>1, <2>2
<1>8. t[Len(t)] = "finished"
  <2>1. Len(e) \in 1..Len(e)
    BY <1>1
  <2> QED
    BY <1>1, <1>2, <1>3, <2>1
<1>9. PostedBy(v, t)
  BY <1>4, <1>7, <1>8 DEF PostedBy
<1>10. ASSUME ~w.stop
       PROVE  PromisedBy(v, t)
  <2>1. PICK i \in 1..Len(e) : e[i] \in {"task_finished", "error"}
    BY <1>1, <1>10
  <2>2. Len(s) + i \in 1..Len(t) /\ t[Len(s) + i] = e[i]
    BY <1>2, <1>3
  <2> QED
    BY <1>10, <2>1, <2>2 DEF PromisedBy
<1>11. s # <<>> => Head(t) = Head(s)
  <2>1. s # <<>> => 1 \in 1..Len(s) /\ Head(s) = s[1]
    OBVIOUS
  <2> QED
    BY <1>3, <1>4, <2>1
<1>12. (s = <<>> /\ last = <<"Paused">>) => Head(t) = "Paused"
  <2>1. s = <<>> => Len(s) = 0
    OBVIOUS
  <2>2. 1 \in 1..Len(e)
    BY <1>1
  <2>3. Len(s) = 0 => t[1] = e[1]
    BY <1>3, <2>2
  <2> QED
    BY <1>1, <1>4, <2>1, <2>3
<1> QED
  BY <1>2, <1>4, <1>9, <1>10, <1>11, <1>12 DEF t, e

-----------------------------------------------------------------------------
(***************************************************************************)
(* From pages to states.  An action hands a page p to the calls, which     *)
(* lead to the page of the next state.  `Fits' says what p owes to the     *)
(* rest of the next state for the invariant to hold there.                 *)
(***************************************************************************)
FitsTypes(p) ==
  /\ IsInjective(p.order)
  /\ nextId' \in 1..Downloads + 1 /\ suspended' \in BOOLEAN /\ slots' \in 1..MaxSlots
  /\ signals' \in [Ids -> Seq(Texts)] /\ wanted' \subseteq Ids /\ restarts' \in Nat
  /\ contexts' \subseteq FromBrowser /\ options' \cap FromBrowser = {}
  /\ \A d \in ToSet(p.order) : d < nextId'
  /\ \A d \in Busy(p.worker) : d < nextId'
  /\ speeds' \subseteq Busy(p.worker)

FitsSignals(p) ==
  /\ \A d \in Ids : PostedBy(p.worker[d], signals'[d])
  /\ \A d \in ToSet(p.order) :
       (p.worker[d].phase # "none" /\ p.status[d] = "Queued")
         => ShownBy(p.worker[d], signals'[d])
  /\ \A d \in wanted' :
       p.worker[d].phase # "none" => PromisedBy(p.worker[d], signals'[d])

FitsMemory(p) ==
  restarts' = 0 =>
    /\ Faithful(p) /\ formats' = Media \cap ToSet(p.order)
    /\ \A d \in ToSet(p.order) : d \notin options' \cup contexts' =>
         OverBy(p.status[d], p.worker[d], signals'[d])

Fits(p) == FitsTypes(p) /\ FitsSignals(p) /\ FitsMemory(p)

LEMMA CallsKeepInv ==
  ASSUME NEW p \in Pages, NEW bad, NEW cap, NEW q \in After(p, bad, cap),
         Fits(p), Becomes(q),
         suspended' \/ q.queue = <<>> \/ Cardinality(Busy(q.worker)) >= slots',
         \A d \in wanted' : d \in QueuedIds(q.queue) \cup Busy(q.worker)
  PROVE  SchedulerInv'
<1>1. /\ q \in Pages /\ q.order = p.order /\ OneStory(q)
      /\ order' = q.order /\ status' = q.status /\ queue' = q.queue /\ worker' = q.worker
  BY DEF After, Becomes
<1>2. /\ p.order \in Seq(Ids) /\ p.status \in [Ids -> Statuses] /\ p.queue \in Seq(Item)
      /\ p.worker \in [Ids -> Worker]
      /\ order' \in Seq(Ids) /\ status' \in [Ids -> Statuses] /\ queue' \in Seq(Item)
      /\ worker' \in [Ids -> Worker]
  BY <1>1 DEF Pages
<1>3. ToSet(order') \subseteq Ids /\ QueuedIds(queue') \subseteq Ids
  BY <1>2, Members, QueuedMembers
<1>4. \A d \in Ids : (\/ p.worker[d].phase # "none" \/ p.status[d] = "Completed"
                      \/ d \notin ToSet(p.order))
        => worker'[d] = p.worker[d] /\ status'[d] = p.status[d]
  BY <1>1 DEF After, Kept
<1>5. \A d \in Ids : worker'[d] = p.worker[d] \/ Fresh(worker'[d])
  BY <1>1 DEF After
<1>6. TypeOK'
  <2>1. IsInjective(order')
    BY <1>1 DEF Fits, FitsTypes
  <2>2. speeds' \subseteq Ids
    BY DEF Fits, FitsTypes, Busy
  <2> QED
    BY <1>2, <1>3, <2>1, <2>2 DEF TypeOK, Fits, FitsTypes, Worker
<1>7. Shape'
  BY <1>2 DEF Shape, Fits, FitsTypes
<1>8. Added'
  <2>1. ASSUME NEW d \in Busy(worker')
        PROVE  d < nextId'
    <3>1. d \in Ids /\ worker'[d].phase # "none"
      BY DEF Busy
    <3>2. d \in Busy(p.worker) \/ d \in ToSet(p.order)
      BY <1>4, <3>1 DEF Busy
    <3> QED
      BY <3>2 DEF Fits, FitsTypes
  <2> QED
    BY <1>1, <2>1 DEF Added, Fits, FitsTypes
<1>9. Posted'
  <2>1. ASSUME NEW d \in Ids
        PROVE  PostedBy(worker'[d], signals'[d])
    <3>1. PostedBy(p.worker[d], signals'[d])
      BY DEF Fits, FitsSignals
    <3>2. CASE worker'[d] = p.worker[d]
      BY <3>1, <3>2
    <3>3. CASE worker'[d] # p.worker[d]
      <4>1. p.worker[d].phase = "none" /\ Fresh(worker'[d])
        BY <1>4, <1>5, <3>3
      <4>2. signals'[d] = <<>>
        BY <3>1, <4>1 DEF PostedBy
      <4> QED
        BY <4>1, <4>2 DEF PostedBy, Fresh
    <3> QED
      BY <3>2, <3>3
  <2> QED
    BY <2>1 DEF Posted
<1>10. Shown'
  <2>1. ASSUME NEW d \in ToSet(order'), worker'[d].phase # "none", status'[d] = "Queued"
        PROVE  ShownBy(worker'[d], signals'[d])
    <3>1. d \in Ids /\ d \in ToSet(p.order)
      BY <1>1, <1>3
    <3>2. CASE Fresh(worker'[d])
      BY <3>2 DEF ShownBy, Fresh
    <3>3. CASE ~Fresh(worker'[d])
      <4>1. worker'[d] = p.worker[d]
        BY <1>5, <3>1, <3>3
      <4>2. status'[d] = p.status[d]
        BY <1>4, <2>1, <3>1, <4>1
      <4> QED
        BY <2>1, <3>1, <4>1, <4>2 DEF Fits, FitsSignals
    <3> QED
      BY <3>2, <3>3
  <2> QED
    BY <2>1 DEF Shown
<1>11. Promised'
  <2>1. ASSUME NEW d \in wanted', worker'[d].phase # "none"
        PROVE  PromisedBy(worker'[d], signals'[d])
    <3>1. d \in Ids
      BY DEF Fits, FitsTypes
    <3>2. CASE Fresh(worker'[d])
      BY <3>2 DEF PromisedBy, Fresh
    <3>3. CASE ~Fresh(worker'[d])
      <4>1. worker'[d] = p.worker[d]
        BY <1>5, <3>1, <3>3
      <4> QED
        BY <2>1, <4>1 DEF Fits, FitsSignals
    <3> QED
      BY <3>2, <3>3
  <2> QED
    BY <2>1 DEF Promised
<1>12. Remembered'
  <2>1. SUFFICES ASSUME restarts' = 0
                 PROVE  /\ formats' = Media \cap ToSet(order')
                        /\ \A d \in ToSet(order') : d \notin options' \cup contexts' =>
                             OverBy(status'[d], worker'[d], signals'[d])
                        /\ \A item \in ToSet(queue') : OfKind(item)
    BY DEF Remembered
  <2>2. /\ Faithful(p) /\ formats' = Media \cap ToSet(p.order)
        /\ \A d \in ToSet(p.order) : d \notin options' \cup contexts' =>
             OverBy(p.status[d], p.worker[d], signals'[d])
    BY <2>1 DEF Fits, FitsMemory
  <2>3. \A item \in ToSet(queue') : OfKind(item)
    BY <1>1, <2>2 DEF After, Faithful
  <2>4. ASSUME NEW d \in ToSet(order'), d \notin options' \cup contexts'
        PROVE  OverBy(status'[d], worker'[d], signals'[d])
    <3>1. d \in Ids /\ d \in ToSet(p.order)
      BY <1>1, <1>3
    <3>2. OverBy(p.status[d], p.worker[d], signals'[d])
      BY <2>2, <2>4, <3>1
    <3>3. worker'[d] = p.worker[d] /\ status'[d] = p.status[d]
      BY <1>4, <3>1, <3>2 DEF OverBy
    <3> QED
      BY <3>2, <3>3
  <2> QED
    BY <1>1, <2>2, <2>3, <2>4
<1>13. PageIsConsistent'
  <2>1. WaitingIsReal'
    <3>1. Distinct(queue')
      BY <1>1 DEF OneStory
    <3>2. ASSUME NEW d \in QueuedIds(queue')
          PROVE  /\ d \in ToSet(order') \ Busy(worker')
                 /\ status'[d] \in {"Queued", "Paused"}
      BY <1>1 DEF OneStory, Busy
    <3>3. ASSUME NEW d \in ToSet(order'), status'[d] = "Queued"
          PROVE  d \in QueuedIds(queue') \cup Busy(worker')
      BY <1>1, <1>3, <3>3 DEF OneStory, Busy
    <3> QED
      BY <3>1, <3>2, <3>3 DEF WaitingIsReal, Distinct
  <2>2. NoSlotIdle'
    BY <1>1 DEF NoSlotIdle
  <2>3. SpeedNeedsWorker'
    <3>1. Busy(p.worker) \subseteq Busy(worker')
      BY <1>4 DEF Busy
    <3> QED
      BY <3>1 DEF SpeedNeedsWorker, Fits, FitsTypes
  <2> QED
    BY <2>1, <2>2, <2>3 DEF PageIsConsistent
<1>14. WantedIsServed'
  BY <1>1 DEF WantedIsServed
<1> QED
  BY <1>6, <1>7, <1>8, <1>9, <1>10, <1>11, <1>12, <1>13, <1>14 DEF SchedulerInv

\* The page of a state that satisfies the invariant.
LEMMA PageOfInv ==
  ASSUME SchedulerInv
  PROVE  /\ Page \in Pages /\ OneStory(Page) /\ slots \in Nat
         /\ restarts = 0 => Faithful(Page)
         /\ Page.order = order /\ Page.status = status /\ Page.queue = queue
         /\ Page.worker = worker /\ Page.contexts = contexts
<1>1. /\ Page.order = order /\ Page.status = status /\ Page.queue = queue
      /\ Page.worker = worker /\ Page.contexts = contexts
  BY DEF Page
<1>2. Page \in Pages
  BY SchedulerAssumption DEF SchedulerInv, TypeOK, Shape, Page, Pages, Worker
<1>3. ToSet(order) \subseteq Ids /\ QueuedIds(queue) \subseteq Ids
  BY DEF SchedulerInv, TypeOK
<1>4. OneStory(Page)
  <2>1. WaitingIsReal
    BY DEF SchedulerInv, PageIsConsistent
  <2>2. Distinct(queue)
    BY <2>1 DEF WaitingIsReal, Distinct
  <2> QED
    BY <1>1, <1>3, <2>1, <2>2 DEF WaitingIsReal, OneStory, Busy
<1>5. ASSUME restarts = 0
      PROVE  Faithful(Page)
  <2>1. ASSUME NEW d \in ToSet(order), status[d] # "Completed"
        PROVE  d \in contexts <=> d \in FromBrowser
    BY <1>5, <2>1 DEF SchedulerInv, Remembered, OverBy, Shape
  <2> QED
    BY <1>1, <1>5, <2>1 DEF SchedulerInv, Remembered, Faithful
<1>6. slots \in Nat
  BY DEF SchedulerInv, TypeOK
<1> QED
  BY <1>1, <1>2, <1>4, <1>5, <1>6

\* What a step starts has a row, is within the limit and of the kind that was asked
\* for, and a row that appears is the next one of the database.
StartsWell ==
  /\ Busy(worker') \ Busy(worker) # {} => Cardinality(Busy(worker')) <= slots'
  /\ \A d \in Busy(worker') \ Busy(worker) :
       d \in ToSet(order') /\ (restarts = 0 => AsAsked(worker'[d], d))
  /\ ToSet(order') \subseteq ToSet(order) \cup {nextId}

LEMMA CallsStartWell ==
  ASSUME NEW p \in Pages, NEW bad, NEW q \in After(p, bad, slots'), Becomes(q),
         Busy(p.worker) \subseteq Busy(worker),
         ToSet(p.order) \subseteq ToSet(order) \cup {nextId},
         restarts = 0 => Faithful(p)
  PROVE  StartsWell
<1>1. order' = p.order /\ worker' = q.worker
  BY DEF After, Becomes
<1>2. ASSUME NEW d \in Busy(worker') \ Busy(worker)
      PROVE  /\ d \in Ids /\ d \in Busy(q.worker) /\ d \notin Busy(p.worker)
             /\ q.worker[d] # p.worker[d]
  BY <1>1, <1>2 DEF Busy
<1>3. ASSUME NEW d \in Busy(worker') \ Busy(worker)
      PROVE  d \in ToSet(order') /\ (restarts = 0 => AsAsked(worker'[d], d))
  <2>1. d \in ToSet(p.order)
    BY <1>2, <1>3 DEF After, Kept
  <2>2. Faithful(p) => AsAsked(q.worker[d], d)
    BY <1>2, <1>3 DEF After
  <2> QED
    BY <1>1, <2>1, <2>2
<1>4. ASSUME Busy(worker') \ Busy(worker) # {}
      PROVE  Cardinality(Busy(worker')) <= slots'
  <2>1. Busy(q.worker) # Busy(p.worker)
    BY <1>2, <1>4
  <2> QED
    BY <1>1, <2>1 DEF After
<1> QED
  BY <1>1, <1>3, <1>4 DEF StartsWell

\* A step that starts nothing and adds no row.
LEMMA NothingStarts ==
  ASSUME Busy(worker') \subseteq Busy(worker), ToSet(order') \subseteq ToSet(order)
  PROVE  StartsWell
  BY DEF StartsWell

-----------------------------------------------------------------------------
(***************************************************************************)
(* The actions in which the page makes calls.                              *)
(***************************************************************************)
\* No slot was idle, and a call that leaves one idle has taken its request out.
LEMMA StillNoneIdle ==
  ASSUME SchedulerInv, NEW q \in Pages, NEW d, Busy(worker) \subseteq Busy(q.worker),
         \/ suspended \/ Cardinality(Busy(q.worker)) >= slots
         \/ QueuedIds(q.queue) = QueuedIds(queue) \ {d}
  PROVE  suspended \/ q.queue = <<>> \/ Cardinality(Busy(q.worker)) >= slots
<1>1. suspended \/ queue = <<>> \/ Cardinality(Busy(worker)) >= slots
  BY DEF SchedulerInv, PageIsConsistent, NoSlotIdle
<1>2. CASE queue = <<>> /\ QueuedIds(q.queue) = QueuedIds(queue) \ {d}
  <2>1. DOMAIN queue = {}
    BY <1>2
  <2>2. QueuedIds(q.queue) = {}
    BY <1>2, <2>1 DEF QueuedIds
  <2> QED
    BY <2>2, NobodyWaits DEF Pages
<1>3. CASE Cardinality(Busy(worker)) >= slots
  <2>1. Cardinality(Busy(worker)) <= Cardinality(Busy(q.worker))
    BY SlotsGrow
  <2>2. slots \in Nat
    BY PageOfInv
  <2>3. Cardinality(Busy(worker)) \in Nat /\ Cardinality(Busy(q.worker)) \in Nat
    BY BusySlots
  <2> QED
    BY <1>3, <2>1, <2>2, <2>3
<1> QED
  BY <1>1, <1>2, <1>3

\* A step that hands the page itself to the calls and changes no memory.
LEMMA PageFits ==
  ASSUME SchedulerInv,
         UNCHANGED <<nextId, signals, speeds, memory, restarts>>,
         suspended' \in BOOLEAN, slots' \in 1..MaxSlots, wanted' \subseteq Ids,
         \A d \in wanted' : worker[d].phase # "none" => d \in wanted
  PROVE  Fits(Page)
<1>1. /\ Page.order = order /\ Page.status = status /\ Page.worker = worker
      /\ restarts = 0 => Faithful(Page)
  BY PageOfInv
<1>2. FitsTypes(Page)
  BY <1>1 DEF SchedulerInv, TypeOK, Shape, Added, PageIsConsistent, SpeedNeedsWorker,
     FitsTypes, memory
<1>3. FitsSignals(Page)
  BY <1>1 DEF SchedulerInv, Posted, Shown, Promised, FitsSignals
<1>4. FitsMemory(Page)
  BY <1>1 DEF SchedulerInv, Remembered, FitsMemory, memory
<1> QED
  BY <1>2, <1>3, <1>4 DEF Fits

\* The page with a new row.
RowAdded(d) == [Page EXCEPT !.order = Append(@, d), !.status[d] = "Pending",
                            !.contexts = @ \cup ({d} \cap FromBrowser)]

LEMMA RowAddedPage ==
  ASSUME SchedulerInv, NEW d \in Ids, d = nextId
  PROVE  /\ RowAdded(d) \in Pages /\ OneStory(RowAdded(d))
         /\ RowAdded(d).order = Append(order, d)
         /\ ToSet(RowAdded(d).order) = ToSet(order) \cup {d}
         /\ IsInjective(RowAdded(d).order)
         /\ RowAdded(d).queue = queue /\ RowAdded(d).worker = worker
         /\ RowAdded(d).status = [status EXCEPT ![d] = "Pending"]
         /\ RowAdded(d).contexts = contexts \cup ({d} \cap FromBrowser)
         /\ d \notin ToSet(order) /\ worker[d].phase = "none" /\ d \notin wanted
         /\ d \notin QueuedIds(queue)
         /\ restarts = 0 => Faithful(RowAdded(d))
<1> DEFINE row == RowAdded(d)
<1>1. /\ Page \in Pages /\ OneStory(Page)
      /\ Page.order = order /\ Page.status = status /\ Page.queue = queue
      /\ Page.worker = worker /\ Page.contexts = contexts
      /\ restarts = 0 => Faithful(Page)
  BY PageOfInv
<1>2. d \notin ToSet(order) /\ d \notin Busy(worker)
  BY SchedulerAssumption DEF SchedulerInv, Added, Ids
<1>3. worker[d].phase = "none"
  BY <1>2 DEF Busy
<1>4. /\ Append(order, d) \in Seq(Ids) /\ IsInjective(Append(order, d))
      /\ ToSet(Append(order, d)) = ToSet(order) \cup {d}
  BY <1>2, AppendMembers DEF SchedulerInv, Shape, TypeOK
<1>5. row = [Page EXCEPT !.order = Append(order, d),
                         !.status = [status EXCEPT ![d] = "Pending"],
                         !.contexts = contexts \cup ({d} \cap FromBrowser)]
  BY <1>1 DEF RowAdded, Pages
<1> HIDE DEF row
<1>6. row \in Pages
  <2>1. [status EXCEPT ![d] = "Pending"] \in [Ids -> Statuses]
    BY <1>1 DEF Pages, Statuses
  <2>2. contexts \cup ({d} \cap FromBrowser) \in SUBSET Ids
    BY <1>1 DEF Pages
  <2> QED
    BY <1>1, <1>4, <1>5, <2>1, <2>2 DEF Pages
<1>7. /\ row.order = Append(order, d) /\ row.queue = queue /\ row.worker = worker
      /\ row.status = [status EXCEPT ![d] = "Pending"]
      /\ row.contexts = contexts \cup ({d} \cap FromBrowser)
  BY <1>1, <1>5 DEF Pages
<1>8. row.status[d] = "Pending" /\ \A e \in Ids \ {d} : row.status[e] = status[e]
  BY <1>1, <1>7 DEF Pages
<1>9. d \notin QueuedIds(queue)
  BY <1>1, <1>2 DEF OneStory
<1>10. d \notin wanted
  BY <1>2, <1>9 DEF SchedulerInv, WantedIsServed
<1>11. ToSet(order) \subseteq Ids /\ QueuedIds(queue) \subseteq Ids
  BY DEF SchedulerInv, TypeOK
<1>12. OneStory(row)
  <2>1. \A e \in QueuedIds(row.queue) :
          /\ e \in ToSet(row.order) /\ row.worker[e].phase = "none"
          /\ row.status[e] \in {"Queued", "Paused"}
    BY <1>1, <1>4, <1>7, <1>8, <1>9, <1>11 DEF OneStory
  <2>2. \A e \in ToSet(row.order) : row.status[e] = "Queued" =>
          e \in QueuedIds(row.queue) \/ row.worker[e].phase # "none"
    BY <1>1, <1>4, <1>7, <1>8, <1>11 DEF OneStory
  <2> QED
    BY <1>1, <1>7, <2>1, <2>2 DEF OneStory
<1>13. restarts = 0 => Faithful(row)
  <2>1. SUFFICES ASSUME restarts = 0, Faithful(Page)
                 PROVE  Faithful(row)
    BY <1>1
  <2>2. contexts \subseteq FromBrowser
    BY DEF SchedulerInv, Shape
  <2>3. ASSUME NEW e \in ToSet(row.order), row.status[e] # "Completed"
        PROVE  e \in row.contexts <=> e \in FromBrowser
    <3>1. CASE e = d
      BY <1>7, <2>2, <3>1
    <3>2. CASE e # d
      BY <1>1, <1>4, <1>7, <1>8, <1>11, <2>1, <2>3, <3>2 DEF Faithful
    <3> QED
      BY <3>1, <3>2
  <2> QED
    BY <1>1, <1>7, <2>1, <2>3 DEF Faithful
<1> QED
  BY <1>2, <1>3, <1>4, <1>6, <1>7, <1>9, <1>10, <1>12, <1>13 DEF row

LEMMA NewRowKeepsInv ==
  ASSUME SchedulerInv, NEW d \in Ids, d = nextId, NEW bad, NewRow(d, bad),
         contexts' = contexts \cup ({d} \cap FromBrowser),
         options' = options \cup ({d} \ FromBrowser)
  PROVE  SchedulerInv' /\ StartsWell
<1> DEFINE p == RowAdded(d)
           item == [id |-> d, video |-> d \in Media, hash |-> d \in Checked]
           q == AttemptStart(p, item, suspended, bad)
<1>1. /\ p \in Pages /\ OneStory(p)
      /\ ToSet(p.order) = ToSet(order) \cup {d} /\ IsInjective(p.order)
      /\ p.queue = queue /\ p.worker = worker
      /\ p.status = [status EXCEPT ![d] = "Pending"]
      /\ d \notin ToSet(order) /\ worker[d].phase = "none" /\ d \notin wanted
      /\ d \notin QueuedIds(queue)
      /\ restarts = 0 => Faithful(p)
  BY RowAddedPage
<1>2. item \in Item /\ item.id = d /\ OfKind(item)
  <2>1. /\ item \in Item /\ item.id = d
        /\ item.video = (d \in Media) /\ item.hash = (d \in Checked)
    BY DEF Item
  <2> HIDE DEF item
  <2> QED
    BY <2>1 DEF OfKind
<1>3. /\ Becomes(q) /\ nextId' = d + 1 /\ formats' = formats \cup ({d} \cap Media)
      /\ wanted' = (wanted \cup {d}) \ Failed(q, {d})
      /\ UNCHANGED <<signals, speeds, suspended, slots, restarts>>
  BY DEF NewRow, RowAdded
<1>4. slots \in Nat /\ suspended \in BOOLEAN
  BY PageOfInv DEF SchedulerInv, TypeOK
<1> HIDE DEF item, p
<1>5. p.status[d] = "Pending" /\ \A e \in Ids \ {d} : p.status[e] = status[e]
  BY <1>1 DEF SchedulerInv, TypeOK
<1>6. p \in After(p, bad, slots)
  BY <1>1, AfterNothing
<1>7. /\ q \in After(p, bad, slots) /\ Served(q, d, bad)
      /\ Busy(worker) \subseteq Busy(q.worker)
      /\ QueuedIds(queue) \ {d} \subseteq QueuedIds(q.queue)
      /\ \/ suspended \/ Cardinality(Busy(q.worker)) >= slots
         \/ QueuedIds(q.queue) = QueuedIds(queue) \ {d}
  <2>1. /\ HasRow(p, item.id) /\ p.worker[item.id].phase = "none"
        /\ p.status[item.id] # "Completed"
    BY <1>1, <1>2, <1>5 DEF HasRow
  <2>2. /\ q \in After(p, bad, slots) /\ Served(q, item.id, bad)
        /\ Busy(p.worker) \subseteq Busy(q.worker)
        /\ QueuedIds(p.queue) \ {item.id} \subseteq QueuedIds(q.queue)
        /\ \/ suspended \/ Cardinality(Busy(q.worker)) >= slots
           \/ QueuedIds(q.queue) = QueuedIds(p.queue) \ {item.id}
    <3>1. q = AttemptStart(p, item, suspended, bad)
      OBVIOUS
    <3>2. p \in Pages /\ item \in Item /\ (Faithful(p) => OfKind(item))
      BY <1>1, <1>2
    <3> HIDE DEF q
    <3> QED
      BY <1>4, <1>6, <2>1, <3>1, <3>2, AttemptKeeps
  <2> HIDE DEF q
  <2> QED
    BY <1>1, <1>2, <2>2
<1> HIDE DEF q
<1>8. q \in Pages
  BY <1>7 DEF After
<1>9. suspended' \/ q.queue = <<>> \/ Cardinality(Busy(q.worker)) >= slots'
  BY <1>3, <1>7, <1>8, StillNoneIdle
<1>10. \A e \in wanted' : e \in QueuedIds(q.queue) \cup Busy(q.worker)
  <2>1. ASSUME NEW e \in wanted'
        PROVE  e \in QueuedIds(q.queue) \cup Busy(q.worker)
    <3>1. CASE e = d
      <4>1. q.status[d] # "Error"
        BY <1>3, <2>1, <3>1 DEF Failed
      <4> QED
        BY <1>7, <3>1, <4>1 DEF Served, Busy
    <3>2. CASE e # d
      <4>1. e \in QueuedIds(queue) \cup Busy(worker)
        BY <1>3, <2>1, <3>2 DEF SchedulerInv, WantedIsServed
      <4> QED
        BY <1>7, <3>2, <4>1
    <3> QED
      BY <3>1, <3>2
  <2> QED
    BY <2>1
<1>11. FitsTypes(p)
  <2>1. \A e \in ToSet(p.order) : e < nextId'
    BY <1>1, <1>3 DEF SchedulerInv, Added, TypeOK, Ids
  <2>2. \A e \in Busy(p.worker) : e < nextId'
    BY <1>1, <1>3 DEF SchedulerInv, Added, TypeOK, Ids, Busy
  <2>3. nextId' \in 1..Downloads + 1
    BY <1>3, SchedulerAssumption DEF Ids
  <2>4. speeds' \subseteq Busy(p.worker)
    BY <1>1, <1>3 DEF SchedulerInv, PageIsConsistent, SpeedNeedsWorker
  <2> QED
    BY <1>1, <1>3, <2>1, <2>2, <2>3, <2>4 DEF SchedulerInv, TypeOK, Shape, FitsTypes
<1>12. FitsSignals(p)
  <2>1. \A e \in Ids : PostedBy(p.worker[e], signals'[e])
    BY <1>1, <1>3 DEF SchedulerInv, Posted
  <2>2. ASSUME NEW e \in ToSet(p.order), p.worker[e].phase # "none",
               p.status[e] = "Queued"
        PROVE  ShownBy(p.worker[e], signals'[e])
    <3>1. e # d /\ e \in ToSet(order) /\ e \in Ids
      BY <1>1, <2>2 DEF SchedulerInv, TypeOK
    <3> QED
      BY <1>1, <1>3, <1>5, <2>2, <3>1 DEF SchedulerInv, Shown
  <2>3. ASSUME NEW e \in wanted', p.worker[e].phase # "none"
        PROVE  PromisedBy(p.worker[e], signals'[e])
    BY <1>1, <1>3, <2>3 DEF SchedulerInv, Promised
  <2> QED
    BY <2>1, <2>2, <2>3 DEF FitsSignals
<1>13. FitsMemory(p)
  <2>1. SUFFICES ASSUME restarts = 0
                 PROVE  /\ Faithful(p) /\ formats' = Media \cap ToSet(p.order)
                        /\ \A e \in ToSet(p.order) : e \notin options' \cup contexts' =>
                             OverBy(p.status[e], p.worker[e], signals'[e])
    BY <1>3 DEF FitsMemory
  <2>2. /\ formats = Media \cap ToSet(order)
        /\ \A e \in ToSet(order) : e \notin options \cup contexts =>
             OverBy(status[e], worker[e], signals[e])
    BY <2>1 DEF SchedulerInv, Remembered
  <2>3. formats' = Media \cap ToSet(p.order)
    BY <1>1, <1>3, <2>2
  <2>4. ASSUME NEW e \in ToSet(p.order), e \notin options' \cup contexts'
        PROVE  OverBy(p.status[e], p.worker[e], signals'[e])
    <3>1. CASE e = d
      BY <2>4, <3>1
    <3>2. CASE e # d
      <4>1. e \in ToSet(order) /\ e \in Ids
        BY <1>1, <3>2 DEF SchedulerInv, TypeOK
      <4> QED
        BY <1>1, <1>3, <1>5, <2>2, <2>4, <3>2, <4>1
    <3> QED
      BY <3>1, <3>2
  <2> QED
    BY <1>1, <2>1, <2>3, <2>4
<1>14. SchedulerInv'
  BY <1>1, <1>3, <1>7, <1>9, <1>10, <1>11, <1>12, <1>13, CallsKeepInv DEF Fits
<1>15. StartsWell
  <2>1. p \in Pages /\ q \in After(p, bad, slots') /\ Becomes(q)
        /\ Busy(p.worker) \subseteq Busy(worker)
    BY <1>1, <1>3, <1>7
  <2>2. ToSet(p.order) \subseteq ToSet(order) \cup {nextId}
    BY <1>1
  <2> QED
    BY <1>1, <2>1, <2>2, CallsStartWell
<1> QED
  BY <1>14, <1>15

\* What toggle_download and resume_all ask with is what the dialog asked for.
LEMMA RequestOfKind ==
  ASSUME SchedulerInv, NEW d \in ToSet(order), status[d] # "Completed", restarts = 0
  PROVE  OfKind(Request(d))
<1>1. /\ formats = Media \cap ToSet(order) /\ d \in options \cup contexts
  BY DEF SchedulerInv, Remembered, OverBy
<1>2. d \in Checked => d \in options
  BY <1>1, SchedulerAssumption DEF SchedulerInv, Shape
<1>3. d \in Ids
  BY DEF SchedulerInv, TypeOK
<1>4. /\ Request(d).id = d /\ Request(d).video = (d \in formats)
      /\ Request(d).hash = (d \in options \cap Checked)
  BY DEF Request
<1> QED
  BY <1>1, <1>2, <1>4 DEF OfKind

LEMMA ToggleStartKeepsInv ==
  ASSUME SchedulerInv, NEW d \in Ids, NEW bad, ToggleStart(d, bad)
  PROVE  SchedulerInv' /\ StartsWell
<1> DEFINE item == Request(d)
           q == AttemptStart(Page, item, suspended, bad)
<1>1. /\ d \in ToSet(order) /\ status[d] # "Completed" /\ worker[d].phase = "none"
      /\ Becomes(q) /\ wanted' = (wanted \cup {d}) \ Failed(q, {d} \cap bad)
      /\ UNCHANGED <<nextId, signals, speeds, suspended, slots, memory, restarts>>
  BY DEF ToggleStart
<1>2. /\ Page \in Pages /\ OneStory(Page) /\ slots \in Nat
      /\ Page.order = order /\ Page.status = status /\ Page.queue = queue
      /\ Page.worker = worker
  BY PageOfInv
<1>3. item \in Item /\ item.id = d
  BY RequestIsItem
<1>4. Faithful(Page) => OfKind(item)
  BY <1>1, RequestOfKind DEF Faithful
<1>5. Page \in After(Page, bad, slots) /\ suspended \in BOOLEAN
  BY <1>2, AfterNothing DEF SchedulerInv, TypeOK
<1> HIDE DEF item
<1>6. /\ HasRow(Page, item.id) /\ Page.worker[item.id].phase = "none"
      /\ Page.status[item.id] # "Completed"
  BY <1>1, <1>2, <1>3 DEF HasRow
<1>7. /\ q \in After(Page, bad, slots) /\ Served(q, item.id, bad)
      /\ Busy(Page.worker) \subseteq Busy(q.worker)
      /\ QueuedIds(Page.queue) \ {item.id} \subseteq QueuedIds(q.queue)
      /\ \/ suspended \/ Cardinality(Busy(q.worker)) >= slots
         \/ QueuedIds(q.queue) = QueuedIds(Page.queue) \ {item.id}
  <2>1. q = AttemptStart(Page, item, suspended, bad)
    OBVIOUS
  <2> HIDE DEF q
  <2> QED
    BY <1>2, <1>3, <1>4, <1>5, <1>6, <2>1, AttemptKeeps
<1> HIDE DEF q
<1>8. q \in Pages
  BY <1>7 DEF After
<1>9. suspended' \/ q.queue = <<>> \/ Cardinality(Busy(q.worker)) >= slots'
  BY <1>1, <1>2, <1>7, <1>8, StillNoneIdle
<1>10. \A e \in wanted' : e \in QueuedIds(q.queue) \cup Busy(q.worker)
  <2>1. ASSUME NEW e \in wanted'
        PROVE  e \in QueuedIds(q.queue) \cup Busy(q.worker)
    <3>1. CASE e = d
      <4>1. ~(d \in bad /\ q.status[d] = "Error")
        BY <1>1, <2>1, <3>1 DEF Failed
      <4> QED
        BY <1>3, <1>7, <3>1, <4>1 DEF Served, Busy
    <3>2. CASE e # d
      <4>1. e \in QueuedIds(queue) \cup Busy(worker)
        BY <1>1, <2>1, <3>2 DEF SchedulerInv, WantedIsServed
      <4> QED
        BY <1>2, <1>3, <1>7, <3>2, <4>1
    <3> QED
      BY <3>1, <3>2
  <2> QED
    BY <2>1
<1>11. Fits(Page)
  <2>1. wanted' \subseteq Ids /\ \A e \in wanted' : worker[e].phase # "none" => e \in wanted
    BY <1>1 DEF SchedulerInv, Shape
  <2>2. suspended' \in BOOLEAN /\ slots' \in 1..MaxSlots
    BY <1>1 DEF SchedulerInv, TypeOK
  <2> QED
    BY <1>1, <2>1, <2>2, PageFits
<1>12. SchedulerInv'
  BY <1>1, <1>2, <1>7, <1>9, <1>10, <1>11, CallsKeepInv
<1>13. StartsWell
  <2>1. q \in After(Page, bad, slots') /\ Becomes(q)
    BY <1>1, <1>7
  <2>2. Page.order = order /\ Page.worker = worker /\ (restarts = 0 => Faithful(Page))
    BY PageOfInv
  <2> QED
    BY <1>2, <2>1, <2>2, CallsStartWell
<1> QED
  BY <1>12, <1>13

LEMMA ResumeAllKeepsInv ==
  ASSUME SchedulerInv, NEW bad, ResumeAll(bad)
  PROVE  SchedulerInv' /\ StartsWell
<1> DEFINE q == ResumeRows(Page, bad)
           asked == {d \in ToSet(order) : status[d] # "Completed"} \ Busy(worker)
<1>1. /\ suspended' = FALSE /\ Becomes(q)
      /\ wanted' = (wanted \cup asked) \ Failed(q, asked \cap bad)
      /\ UNCHANGED <<nextId, signals, speeds, slots, memory, restarts>>
  BY DEF ResumeAll
<1>2. /\ Page \in Pages /\ OneStory(Page) /\ slots \in Nat
      /\ Page.order = order /\ Page.status = status /\ Page.queue = queue
      /\ Page.worker = worker
  BY PageOfInv
<1>3. \A d \in ToSet(Page.order) :
        (Faithful(Page) /\ Page.status[d] # "Completed") => OfKind(Request(d))
  BY <1>2, RequestOfKind DEF Faithful
<1>4. /\ q \in After(Page, bad, slots)
      /\ \A d \in ToSet(order) : status[d] = "Completed" \/ Served(q, d, bad)
      /\ Cardinality(Busy(q.worker)) >= slots \/ q.queue = <<>>
  <2>1. /\ q \in After(Page, bad, slots)
        /\ \A d \in ToSet(Page.order) : Page.status[d] = "Completed" \/ Served(q, d, bad)
        /\ Cardinality(Busy(q.worker)) >= slots \/ q.queue = <<>>
    BY <1>2, <1>3, ResumeRowsKeeps
  <2> HIDE DEF q
  <2> QED
    BY <1>2, <2>1
<1> HIDE DEF q
<1>5. Busy(worker) \subseteq Busy(q.worker)
  BY <1>2, <1>4, AfterBusy
<1>6. asked \subseteq Ids
  BY DEF SchedulerInv, TypeOK
<1>7. \A d \in wanted : d \in asked \/ d \in Busy(worker)
  <2>1. ASSUME NEW d \in wanted, d \notin Busy(worker)
        PROVE  d \in asked
    <3>1. d \in QueuedIds(queue)
      BY <2>1 DEF SchedulerInv, WantedIsServed
    <3>2. d \in ToSet(order) /\ status[d] # "Completed"
      BY <1>2, <3>1 DEF OneStory
    <3> QED
      BY <2>1, <3>2
  <2> QED
    BY <2>1
<1>8. \A d \in wanted' : d \in QueuedIds(q.queue) \cup Busy(q.worker)
  <2>1. ASSUME NEW d \in wanted'
        PROVE  d \in QueuedIds(q.queue) \cup Busy(q.worker)
    <3>1. CASE d \in Busy(worker)
      BY <1>5, <3>1
    <3>2. CASE d \in asked
      <4>1. Served(q, d, bad)
        BY <1>4, <3>2
      <4>2. ~(d \in bad /\ q.status[d] = "Error")
        BY <1>1, <2>1, <3>2 DEF Failed
      <4> QED
        BY <1>6, <3>2, <4>1, <4>2 DEF Served, Busy
    <3> QED
      BY <1>1, <1>7, <2>1, <3>1, <3>2
  <2> QED
    BY <2>1
<1>9. Fits(Page)
  <2>1. wanted' \subseteq Ids
    BY <1>1, <1>6 DEF SchedulerInv, Shape
  <2>2. \A e \in wanted' : worker[e].phase # "none" => e \in wanted
    <3>1. \A e \in asked : worker[e].phase = "none"
      BY <1>6 DEF Busy
    <3> HIDE DEF asked
    <3> QED
      BY <1>1, <3>1
  <2>3. suspended' \in BOOLEAN /\ slots' \in 1..MaxSlots
    BY <1>1 DEF SchedulerInv, TypeOK
  <2> QED
    BY <1>1, <2>1, <2>2, <2>3, PageFits
<1> HIDE DEF asked
<1>10. SchedulerInv'
  BY <1>1, <1>2, <1>4, <1>8, <1>9, CallsKeepInv
<1>11. StartsWell
  <2>1. q \in After(Page, bad, slots') /\ Becomes(q)
    BY <1>1, <1>4
  <2>2. Page.order = order /\ Page.worker = worker /\ (restarts = 0 => Faithful(Page))
    BY PageOfInv
  <2> QED
    BY <1>2, <2>1, <2>2, CallsStartWell
<1> QED
  BY <1>10, <1>11

\* process_queue, or nothing while scheduling is suspended.
LEMMA ServedAfterProcess ==
  ASSUME NEW p \in Pages, OneStory(p), NEW bad, NEW cap \in Nat, NEW q,
         q = (IF suspended THEN p ELSE ProcessQueue(p, bad, cap))
  PROVE  /\ q \in After(p, bad, cap)
         /\ suspended \/ Cardinality(Busy(q.worker)) >= cap \/ q.queue = <<>>
         /\ Busy(p.worker) \subseteq Busy(q.worker)
         /\ \A d \in QueuedIds(p.queue) : Served(q, d, bad)
<1>1. /\ q \in After(p, bad, cap)
      /\ suspended \/ Cardinality(Busy(q.worker)) >= cap \/ q.queue = <<>>
  <2>1. CASE suspended
    BY <2>1, AfterNothing
  <2>2. CASE ~suspended
    <3> DEFINE r == ProcessQueue(p, bad, cap)
    <3>1. r \in After(p, bad, cap) /\ (Cardinality(Busy(r.worker)) >= cap \/ r.queue = <<>>)
      BY ProcessKeeps
    <3>2. q = r
      BY <2>2
    <3> HIDE DEF r
    <3> QED
      BY <3>1, <3>2
  <2> QED
    BY <2>1, <2>2
<1>2. Busy(p.worker) \subseteq Busy(q.worker)
  BY <1>1, AfterBusy
<1>3. \A d \in QueuedIds(p.queue) : Served(q, d, bad)
  BY <1>1 DEF After
<1> QED
  BY <1>1, <1>2, <1>3

LEMMA SettingsChangedKeepsInv ==
  ASSUME SchedulerInv, NEW n \in 1..MaxSlots, NEW bad, SettingsChanged(n, bad)
  PROVE  SchedulerInv' /\ StartsWell
<1> DEFINE q == IF suspended THEN Page ELSE ProcessQueue(Page, bad, n)
<1>1. /\ slots' = n /\ Becomes(q)
      /\ wanted' = wanted \ Failed(q, QueuedIds(queue))
      /\ UNCHANGED <<nextId, signals, speeds, suspended, memory, restarts>>
  BY DEF SettingsChanged
<1>2. /\ Page \in Pages /\ OneStory(Page) /\ n \in Nat
      /\ Page.queue = queue /\ Page.worker = worker
  BY PageOfInv
<1>3. /\ q \in After(Page, bad, n)
      /\ suspended \/ Cardinality(Busy(q.worker)) >= n \/ q.queue = <<>>
      /\ Busy(Page.worker) \subseteq Busy(q.worker)
      /\ \A d \in QueuedIds(Page.queue) : Served(q, d, bad)
  <2>1. q = IF suspended THEN Page ELSE ProcessQueue(Page, bad, n)
    OBVIOUS
  <2> HIDE DEF q
  <2> QED
    BY <1>2, <2>1, ServedAfterProcess
<1> HIDE DEF q
<1>4. \A d \in wanted' : d \in QueuedIds(q.queue) \cup Busy(q.worker)
  <2>1. ASSUME NEW d \in wanted'
        PROVE  d \in QueuedIds(q.queue) \cup Busy(q.worker)
    <3>1. d \in Ids /\ d \in QueuedIds(queue) \cup Busy(worker)
      BY <1>1, <2>1 DEF SchedulerInv, WantedIsServed, Shape
    <3>2. CASE d \in Busy(worker)
      BY <1>2, <1>3, <3>2
    <3>3. CASE d \in QueuedIds(queue)
      <4>1. q.status[d] # "Error"
        BY <1>1, <2>1, <3>3 DEF Failed
      <4> QED
        BY <1>2, <1>3, <3>1, <3>3, <4>1 DEF Served, Busy
    <3> QED
      BY <3>1, <3>2, <3>3
  <2> QED
    BY <2>1
<1>5. Fits(Page)
  <2>1. suspended' \in BOOLEAN /\ slots' \in 1..MaxSlots /\ wanted' \subseteq Ids
        /\ \A d \in wanted' : worker[d].phase # "none" => d \in wanted
    BY <1>1 DEF SchedulerInv, TypeOK, Shape
  <2> QED
    BY <1>1, <2>1, PageFits
<1>6. SchedulerInv'
  BY <1>1, <1>2, <1>3, <1>4, <1>5, CallsKeepInv
<1>7. StartsWell
  <2>1. q \in After(Page, bad, slots') /\ Becomes(q)
    BY <1>1, <1>3
  <2>2. Page.order = order /\ Page.worker = worker /\ (restarts = 0 => Faithful(Page))
    BY PageOfInv
  <2> QED
    BY <1>2, <2>1, <2>2, CallsStartWell
<1> QED
  BY <1>6, <1>7

LEMMA CleanupKeepsInv ==
  ASSUME SchedulerInv, NEW d \in Ids, NEW bad, CleanupWorker(d, bad)
  PROVE  SchedulerInv' /\ StartsWell
<1> DEFINE p == [Page EXCEPT !.worker[d] = NoWorker]
           q == IF suspended THEN p ELSE ProcessQueue(p, bad, slots)
<1>1. /\ signals[d] # <<>> /\ Head(signals[d]) = "finished"
      /\ signals' = [signals EXCEPT ![d] = Tail(signals[d])]
      /\ Becomes(q) /\ wanted' = wanted \ Failed(q, QueuedIds(queue))
      /\ speeds' = speeds \ {d}
      /\ UNCHANGED <<nextId, suspended, slots, memory, restarts>>
  BY DEF CleanupWorker, Take
<1>2. /\ Page \in Pages /\ OneStory(Page) /\ slots \in Nat
      /\ Page.order = order /\ Page.status = status /\ Page.queue = queue
      /\ Page.worker = worker /\ Page.contexts = contexts
      /\ restarts = 0 => Faithful(Page)
  BY PageOfInv
<1>3. /\ signals[d] \in Seq(Texts) /\ worker[d] \in Worker
      /\ PostedBy(worker[d], signals[d])
  BY DEF SchedulerInv, Shape, TypeOK, Worker, Posted
<1>4. /\ Tail(signals[d]) = <<>> /\ worker[d].phase = "done"
      /\ signals[d] = <<"finished">> /\ ~PromisedBy(worker[d], signals[d])
  BY <1>1, <1>3, TakeLast
<1>5. NoWorker \in Worker /\ NoWorker.phase = "none"
  BY DEF NoWorker, Worker
<1>6. p = [Page EXCEPT !.worker = [worker EXCEPT ![d] = NoWorker]]
  BY <1>2 DEF Pages
<1> HIDE DEF p
<1>7. /\ p \in Pages /\ p.order = order /\ p.status = status /\ p.queue = queue
      /\ p.contexts = contexts /\ p.worker = [worker EXCEPT ![d] = NoWorker]
  BY <1>2, <1>5, <1>6 DEF Pages
<1>8. p.worker[d] = NoWorker /\ \A e \in Ids \ {d} : p.worker[e] = worker[e]
  BY <1>2, <1>7 DEF Pages
<1>9. d \in ToSet(order) => status[d] # "Queued"
  BY <1>1, <1>4 DEF SchedulerInv, Shown, ShownBy, Working
<1>10. d \notin wanted
  BY <1>4 DEF SchedulerInv, Promised
<1>11. ToSet(order) \subseteq Ids /\ QueuedIds(queue) \subseteq Ids
  BY DEF SchedulerInv, TypeOK
<1>12. Busy(p.worker) = Busy(worker) \ {d}
  BY <1>5, <1>8 DEF Busy
<1>13. OneStory(p)
  <2>1. \A e \in QueuedIds(p.queue) :
          /\ e \in ToSet(p.order) /\ p.worker[e].phase = "none"
          /\ p.status[e] \in {"Queued", "Paused"}
    BY <1>2, <1>5, <1>7, <1>8, <1>11 DEF OneStory
  <2>2. \A e \in ToSet(p.order) : p.status[e] = "Queued" =>
          e \in QueuedIds(p.queue) \/ p.worker[e].phase # "none"
    BY <1>2, <1>7, <1>8, <1>9, <1>11 DEF OneStory
  <2> QED
    BY <1>2, <1>7, <2>1, <2>2 DEF OneStory
<1>14. /\ q \in After(p, bad, slots)
       /\ suspended \/ Cardinality(Busy(q.worker)) >= slots \/ q.queue = <<>>
       /\ Busy(p.worker) \subseteq Busy(q.worker)
       /\ \A e \in QueuedIds(p.queue) : Served(q, e, bad)
  <2>1. q = IF suspended THEN p ELSE ProcessQueue(p, bad, slots)
    OBVIOUS
  <2>2. p \in Pages /\ slots \in Nat
    BY <1>2, <1>7
  <2> HIDE DEF q
  <2> QED
    BY <1>13, <2>1, <2>2, ServedAfterProcess
<1> HIDE DEF q
<1>15. \A e \in wanted' : e \in QueuedIds(q.queue) \cup Busy(q.worker)
  <2>1. ASSUME NEW e \in wanted'
        PROVE  e \in QueuedIds(q.queue) \cup Busy(q.worker)
    <3>1. e # d /\ e \in Ids /\ e \in QueuedIds(queue) \cup Busy(worker)
      BY <1>1, <1>10, <2>1 DEF SchedulerInv, WantedIsServed, Shape
    <3>2. CASE e \in Busy(worker)
      BY <1>12, <1>14, <3>1, <3>2
    <3>3. CASE e \in QueuedIds(queue)
      <4>1. q.status[e] # "Error"
        BY <1>1, <2>1, <3>3 DEF Failed
      <4> QED
        BY <1>7, <1>14, <3>1, <3>3, <4>1 DEF Served, Busy
    <3> QED
      BY <3>1, <3>2, <3>3
  <2> QED
    BY <2>1
<1>16. signals'[d] = <<>> /\ \A e \in Ids \ {d} : signals'[e] = signals[e]
  BY <1>1, <1>4 DEF SchedulerInv, Shape
<1>17. FitsTypes(p)
  <2>1. signals' \in [Ids -> Seq(Texts)]
    BY <1>1, <1>4 DEF SchedulerInv, Shape
  <2>2. speeds' \subseteq Busy(p.worker)
    BY <1>1, <1>12 DEF SchedulerInv, PageIsConsistent, SpeedNeedsWorker
  <2>3. \A e \in Busy(p.worker) : e < nextId'
    BY <1>1, <1>12 DEF SchedulerInv, Added
  <2> QED
    BY <1>1, <1>7, <2>1, <2>2, <2>3 DEF SchedulerInv, TypeOK, Shape, Added, FitsTypes, memory
<1>18. FitsSignals(p)
  <2>1. ASSUME NEW e \in Ids
        PROVE  PostedBy(p.worker[e], signals'[e])
    <3>1. CASE e = d
      <4>1. PostedBy(NoWorker, <<>>)
        BY <1>5 DEF PostedBy
      <4> QED
        BY <1>8, <1>16, <3>1, <4>1
    <3>2. CASE e # d
      BY <1>8, <1>16, <3>2 DEF SchedulerInv, Posted
    <3> QED
      BY <3>1, <3>2
  <2>2. ASSUME NEW e \in ToSet(p.order), p.worker[e].phase # "none",
               p.status[e] = "Queued"
        PROVE  ShownBy(p.worker[e], signals'[e])
    <3>1. e # d /\ e \in Ids
      BY <1>5, <1>7, <1>8, <1>11, <2>2
    <3> QED
      BY <1>7, <1>8, <1>16, <2>2, <3>1 DEF SchedulerInv, Shown
  <2>3. ASSUME NEW e \in wanted', p.worker[e].phase # "none"
        PROVE  PromisedBy(p.worker[e], signals'[e])
    <3>1. e # d /\ e \in Ids /\ e \in wanted
      BY <1>1, <1>10 DEF SchedulerInv, Shape
    <3> QED
      BY <1>8, <1>16, <2>3, <3>1 DEF SchedulerInv, Promised
  <2> QED
    BY <2>1, <2>2, <2>3 DEF FitsSignals
<1>19. FitsMemory(p)
  <2>1. SUFFICES ASSUME restarts = 0
                 PROVE  /\ Faithful(p) /\ formats' = Media \cap ToSet(p.order)
                        /\ \A e \in ToSet(p.order) : e \notin options' \cup contexts' =>
                             OverBy(p.status[e], p.worker[e], signals'[e])
    BY <1>1 DEF FitsMemory
  <2>2. Faithful(p)
    BY <1>2, <1>7, <2>1 DEF Faithful
  <2>3. ASSUME NEW e \in ToSet(order), e \notin options \cup contexts
        PROVE  OverBy(status[e], p.worker[e], signals'[e])
    <3>1. OverBy(status[e], worker[e], signals[e]) /\ e \in Ids
      BY <1>11, <2>1, <2>3 DEF SchedulerInv, Remembered
    <3>2. CASE e = d
      BY <1>5, <1>8, <1>16, <3>1, <3>2 DEF OverBy
    <3>3. CASE e # d
      BY <1>8, <1>16, <3>1, <3>3
    <3> QED
      BY <3>2, <3>3
  <2> QED
    BY <1>1, <1>7, <2>1, <2>2, <2>3 DEF SchedulerInv, Remembered, memory
<1>20. SchedulerInv'
  BY <1>1, <1>7, <1>14, <1>15, <1>17, <1>18, <1>19, CallsKeepInv DEF Fits
<1>21. StartsWell
  <2>1. q \in After(p, bad, slots') /\ Becomes(q)
    BY <1>1, <1>14
  <2>2. p.order = order /\ Busy(p.worker) \subseteq Busy(worker)
    BY <1>7, <1>12
  <2>3. restarts = 0 => Faithful(p)
    BY <1>2, <1>7 DEF Faithful
  <2> QED
    BY <1>7, <2>1, <2>2, <2>3, CallsStartWell
<1> QED
  BY <1>20, <1>21

-----------------------------------------------------------------------------
(***************************************************************************)
(* The other actions.                                                      *)
(***************************************************************************)
\* A step that sets the page to p and calls nothing.
LEMMA PageKeepsInv ==
  ASSUME NEW p \in Pages, OneStory(p), Fits(p), Becomes(p),
         suspended' \/ p.queue = <<>> \/ Cardinality(Busy(p.worker)) >= slots',
         \A d \in wanted' : d \in QueuedIds(p.queue) \cup Busy(p.worker)
  PROVE  SchedulerInv'
<1>1. p \in After(p, {}, 0)
  BY AfterNothing
<1> QED
  BY <1>1, CallsKeepInv

\* A step of one worker that is in the table and stays there.
LEMMA WorkerStepKeepsInv ==
  ASSUME SchedulerInv, NEW d \in Ids, NEW w \in Worker, NEW s \in Seq(Texts),
         worker[d].phase # "none", w.phase # "none",
         UNCHANGED <<order, nextId, status, queue, suspended, slots, memory, restarts>>,
         worker' = [worker EXCEPT ![d] = w], signals' = [signals EXCEPT ![d] = s],
         PostedBy(w, s), ShownBy(worker[d], signals[d]) => ShownBy(w, s),
         ~OverBy(status[d], worker[d], signals[d]),
         wanted' \subseteq wanted, d \in wanted' => PromisedBy(w, s),
         speeds' \subseteq Busy(worker)
  PROVE  SchedulerInv'
<1> DEFINE p == [Page EXCEPT !.worker = worker']
<1>1. /\ Page \in Pages /\ OneStory(Page)
      /\ Page.order = order /\ Page.status = status /\ Page.queue = queue
      /\ Page.worker = worker /\ Page.contexts = contexts
      /\ restarts = 0 => Faithful(Page)
  BY PageOfInv
<1>2. worker \in [Ids -> Worker] /\ signals \in [Ids -> Seq(Texts)]
  BY DEF SchedulerInv, TypeOK, Shape, Worker
<1>3. /\ p \in Pages /\ p.order = order /\ p.status = status /\ p.queue = queue
      /\ p.contexts = contexts /\ p.worker = worker'
  BY <1>1, <1>2 DEF Pages
<1> HIDE DEF p
<1>4. /\ p.worker[d] = w /\ signals'[d] = s
      /\ \A e \in Ids \ {d} : p.worker[e] = worker[e] /\ signals'[e] = signals[e]
  BY <1>2, <1>3
<1>5. ToSet(order) \subseteq Ids /\ QueuedIds(queue) \subseteq Ids
  BY DEF SchedulerInv, TypeOK
<1>6. Busy(p.worker) = Busy(worker)
  BY <1>4 DEF Busy
<1>7. OneStory(p)
  <2>1. \A e \in Ids : p.worker[e].phase = "none" <=> worker[e].phase = "none"
    BY <1>4
  <2> QED
    BY <1>1, <1>3, <1>5, <2>1 DEF OneStory
<1>8. FitsTypes(p)
  <2>1. signals' \in [Ids -> Seq(Texts)]
    BY <1>2
  <2> QED
    BY <1>3, <1>6, <2>1 DEF SchedulerInv, TypeOK, Shape, Added, FitsTypes, memory
<1>9. FitsSignals(p)
  <2>1. \A e \in Ids : PostedBy(p.worker[e], signals'[e])
    BY <1>4 DEF SchedulerInv, Posted
  <2>2. \A e \in ToSet(p.order) : (p.worker[e].phase # "none" /\ p.status[e] = "Queued")
          => ShownBy(p.worker[e], signals'[e])
    BY <1>3, <1>4, <1>5 DEF SchedulerInv, Shown
  <2>3. \A e \in wanted' : p.worker[e].phase # "none" => PromisedBy(p.worker[e], signals'[e])
    BY <1>4 DEF SchedulerInv, Promised, Shape
  <2> QED
    BY <2>1, <2>2, <2>3 DEF FitsSignals
<1>10. FitsMemory(p)
  <2>1. SUFFICES ASSUME restarts = 0
                 PROVE  /\ Faithful(p) /\ formats' = Media \cap ToSet(p.order)
                        /\ \A e \in ToSet(p.order) : e \notin options' \cup contexts' =>
                             OverBy(p.status[e], p.worker[e], signals'[e])
    BY DEF FitsMemory
  <2>2. Faithful(p)
    BY <1>1, <1>3, <2>1 DEF Faithful
  <2>3. ASSUME NEW e \in ToSet(order), e \notin options \cup contexts
        PROVE  OverBy(status[e], p.worker[e], signals'[e])
    <3>1. OverBy(status[e], worker[e], signals[e]) /\ e \in Ids
      BY <1>5, <2>1, <2>3 DEF SchedulerInv, Remembered
    <3> QED
      BY <1>4, <3>1
  <2> QED
    BY <1>3, <2>1, <2>2, <2>3 DEF SchedulerInv, Remembered, memory
<1>11. suspended' \/ p.queue = <<>> \/ Cardinality(Busy(p.worker)) >= slots'
  BY <1>3, <1>6 DEF SchedulerInv, PageIsConsistent, NoSlotIdle
<1>12. \A e \in wanted' : e \in QueuedIds(p.queue) \cup Busy(p.worker)
  BY <1>3, <1>6 DEF SchedulerInv, WantedIsServed
<1>13. Becomes(p)
  BY <1>3 DEF Becomes
<1> QED
  BY <1>3, <1>7, <1>8, <1>9, <1>10, <1>11, <1>12, <1>13, PageKeepsInv DEF Fits

\* The page shows a status for a signal of a worker that has more to say.
LEMMA StatusStepKeepsInv ==
  ASSUME SchedulerInv, NEW d \in Ids, NEW text \in {Working, "Paused", "Completed", "Error"},
         signals[d] # <<>>, Head(signals[d]) # "finished",
         signals' = [signals EXCEPT ![d] = Tail(signals[d])],
         Becomes(SetStatus(Page, d, text)),
         UNCHANGED <<nextId, suspended, slots, formats, restarts>>,
         wanted' \subseteq wanted, speeds' \subseteq speeds,
         d \in wanted' => PromisedBy(worker[d], Tail(signals[d])),
         contexts' \subseteq contexts, options' \subseteq options,
         contexts \ {d} \subseteq contexts', options \ {d} \subseteq options',
         \/ contexts' = contexts /\ options' = options
         \/ OverBy(text, worker[d], Tail(signals[d]))
  PROVE  SchedulerInv'
<1> DEFINE p == SetStatus(Page, d, text)
           s == Tail(signals[d])
<1>1. /\ Page \in Pages /\ OneStory(Page)
      /\ Page.order = order /\ Page.status = status /\ Page.queue = queue
      /\ Page.worker = worker /\ Page.contexts = contexts
      /\ restarts = 0 => Faithful(Page)
  BY PageOfInv
<1>2. /\ worker \in [Ids -> Worker] /\ signals \in [Ids -> Seq(Texts)]
      /\ ToSet(order) \subseteq Ids /\ QueuedIds(queue) \subseteq Ids
  BY DEF SchedulerInv, TypeOK, Shape, Worker
<1>3. /\ p \in Pages /\ p.order = order /\ p.queue = queue /\ p.worker = worker
      /\ p.contexts = contexts
      /\ \A e \in Ids \ {d} : p.status[e] = status[e]
      /\ d \in ToSet(order) => p.status[d] = text
      /\ d \notin ToSet(order) => p.status = status
  <2>1. text \in Statuses
    BY DEF Statuses
  <2>2. CASE d \in ToSet(order)
    <3>1. p = [Page EXCEPT !.status[d] = text]
      BY <1>1, <2>2 DEF SetStatus, HasRow
    <3> HIDE DEF p
    <3> QED
      BY <1>1, <2>1, <2>2, <3>1 DEF Pages
  <2>3. CASE d \notin ToSet(order)
    <3>1. p = Page
      BY <1>1, <2>3 DEF SetStatus, HasRow
    <3> HIDE DEF p
    <3> QED
      BY <1>1, <2>3, <3>1
  <2> QED
    BY <2>2, <2>3
<1>4. Becomes(p)
  OBVIOUS
<1> HIDE DEF p
<1>5. PostedBy(worker[d], s) /\ worker[d].phase \in {"run", "done"} /\ s \in Seq(Texts)
  BY <1>2, TakePosted DEF SchedulerInv, Posted
<1>6. signals'[d] = s /\ \A e \in Ids \ {d} : signals'[e] = signals[e]
  BY <1>2
<1> HIDE DEF s
<1>7. OneStory(p)
  <2>1. d \notin QueuedIds(queue)
    BY <1>1, <1>5 DEF OneStory
  <2>2. ASSUME NEW e \in QueuedIds(p.queue)
        PROVE  /\ e \in ToSet(p.order) /\ p.worker[e].phase = "none"
               /\ p.status[e] \in {"Queued", "Paused"}
    <3>1. e \in Ids \ {d} /\ e \in QueuedIds(queue)
      BY <1>2, <1>3, <2>1
    <3> QED
      BY <1>1, <1>3, <3>1 DEF OneStory
  <2>3. ASSUME NEW e \in ToSet(p.order), p.status[e] = "Queued"
        PROVE  e \in QueuedIds(p.queue) \/ p.worker[e].phase # "none"
    <3>1. CASE e = d
      BY <1>3, <1>5, <3>1
    <3>2. CASE e # d
      <4>1. e \in ToSet(order) /\ status[e] = "Queued"
        BY <1>2, <1>3, <2>3, <3>2
      <4> QED
        BY <1>1, <1>3, <4>1 DEF OneStory
    <3> QED
      BY <3>1, <3>2
  <2> QED
    BY <1>1, <1>3, <2>2, <2>3 DEF OneStory
<1>8. FitsTypes(p)
  <2>1. signals' \in [Ids -> Seq(Texts)]
    BY <1>2, <1>5 DEF s
  <2> QED
    BY <1>3, <2>1 DEF SchedulerInv, TypeOK, Shape, Added, PageIsConsistent,
       SpeedNeedsWorker, FitsTypes
<1>9. FitsSignals(p)
  <2>1. \A e \in Ids : PostedBy(p.worker[e], signals'[e])
    BY <1>3, <1>5, <1>6 DEF SchedulerInv, Posted
  <2>2. ASSUME NEW e \in ToSet(p.order), p.worker[e].phase # "none",
               p.status[e] = "Queued"
        PROVE  ShownBy(p.worker[e], signals'[e])
    <3>1. e # d /\ e \in Ids
      BY <1>2, <1>3, <2>2 DEF Working
    <3> QED
      BY <1>3, <1>6, <2>2, <3>1 DEF SchedulerInv, Shown
  <2>3. \A e \in wanted' : p.worker[e].phase # "none" => PromisedBy(p.worker[e], signals'[e])
    BY <1>3, <1>6 DEF SchedulerInv, Promised, Shape, s
  <2> QED
    BY <2>1, <2>2, <2>3 DEF FitsSignals
<1>10. FitsMemory(p)
  <2>1. SUFFICES ASSUME restarts = 0
                 PROVE  /\ Faithful(p) /\ formats' = Media \cap ToSet(p.order)
                        /\ \A e \in ToSet(p.order) : e \notin options' \cup contexts' =>
                             OverBy(p.status[e], p.worker[e], signals'[e])
    BY DEF FitsMemory
  <2>2. \A e \in ToSet(order) : e \notin options \cup contexts =>
          OverBy(status[e], worker[e], signals[e])
    BY <2>1 DEF SchedulerInv, Remembered
  <2>3. d \in ToSet(order) => d \in options \cup contexts
    <3>1. signals[d] # <<"finished">>
      BY <1>2
    <3>2. ~OverBy(status[d], worker[d], signals[d])
      BY <3>1 DEF OverBy
    <3> QED
      BY <2>2, <3>2
  <2>4. Faithful(p)
    <3>1. ASSUME NEW e \in ToSet(p.order), p.status[e] # "Completed"
          PROVE  e \in p.contexts <=> e \in FromBrowser
      <4>1. CASE e = d
        BY <1>3, <2>3, <4>1 DEF SchedulerInv, Shape
      <4>2. CASE e # d
        BY <1>1, <1>2, <1>3, <2>1, <3>1, <4>2 DEF Faithful
      <4> QED
        BY <4>1, <4>2
    <3> QED
      BY <1>1, <1>3, <2>1, <3>1 DEF Faithful
  <2>5. ASSUME NEW e \in ToSet(order), e \notin options' \cup contexts'
        PROVE  OverBy(p.status[e], p.worker[e], signals'[e])
    <3>1. CASE e = d
      BY <1>3, <1>6, <2>3, <2>5, <3>1 DEF s
    <3>2. CASE e # d
      <4>1. OverBy(status[e], worker[e], signals[e])
        BY <2>2, <2>5, <3>2
      <4> QED
        BY <1>2, <1>3, <1>6, <3>2, <4>1
    <3> QED
      BY <3>1, <3>2
  <2> QED
    BY <1>3, <2>1, <2>4, <2>5 DEF SchedulerInv, Remembered
<1>11. suspended' \/ p.queue = <<>> \/ Cardinality(Busy(p.worker)) >= slots'
  BY <1>3 DEF SchedulerInv, PageIsConsistent, NoSlotIdle
<1>12. \A e \in wanted' : e \in QueuedIds(p.queue) \cup Busy(p.worker)
  BY <1>3 DEF SchedulerInv, WantedIsServed
<1> QED
  BY <1>3, <1>4, <1>7, <1>8, <1>9, <1>10, <1>11, <1>12, PageKeepsInv DEF Fits

LEMMA SignalsKeepInv ==
  ASSUME SchedulerInv, NEW d \in Ids,
         ShowStatus(d) \/ DownloadFinished(d) \/ DownloadError(d)
  PROVE  SchedulerInv'
<1>1. /\ signals[d] # <<>>
      /\ signals' = [signals EXCEPT ![d] = Tail(signals[d])]
      /\ Head(signals[d]) # "finished"
      /\ UNCHANGED <<nextId, suspended, slots, formats, restarts>>
      /\ speeds' \subseteq speeds /\ wanted' \subseteq wanted
  BY DEF ShowStatus, DownloadFinished, DownloadError, Take, Statuses, Working, memory
<1>2. /\ signals[d] \in Seq(Texts) /\ worker[d] \in Worker
      /\ PostedBy(worker[d], signals[d]) /\ Head(signals[d]) \in Texts
  BY <1>1 DEF SchedulerInv, Shape, TypeOK, Worker, Posted
<1>3. /\ Head(signals[d]) = "task_finished" =>
           worker[d].phase = "done" /\ Tail(signals[d]) = <<"finished">>
      /\ (PromisedBy(worker[d], signals[d])
           /\ Head(signals[d]) \notin {"task_finished", "error"})
           => PromisedBy(worker[d], Tail(signals[d]))
      /\ worker[d].phase # "none"
  BY <1>1, <1>2, TakePosted
<1>4. CASE ShowStatus(d)
  <2> DEFINE text == Head(signals[d])
  <2>1. /\ Becomes(SetStatus(Page, d, text)) /\ UNCHANGED <<contexts, options, wanted>>
        /\ text \in Statuses
    BY <1>4 DEF ShowStatus, memory, Take
  <2>2. text \in {Working, "Paused", "Completed", "Error"}
        /\ text \notin {"task_finished", "error"}
    BY <1>2, <2>1 DEF Texts, Statuses, Working
  <2>3. d \in wanted' => PromisedBy(worker[d], Tail(signals[d]))
    BY <1>3, <2>1, <2>2 DEF SchedulerInv, Promised
  <2> HIDE DEF text
  <2> QED
    BY <1>1, <2>1, <2>2, <2>3, StatusStepKeepsInv
<1>5. CASE DownloadFinished(d)
  <2> DEFINE text == "Completed"
  <2>1. /\ Becomes(SetStatus(Page, d, text)) /\ d \notin wanted'
        /\ contexts' = contexts \ {d} /\ options' = options \ {d}
        /\ Head(signals[d]) = "task_finished"
    BY <1>5 DEF DownloadFinished, Take
  <2>2. OverBy(text, worker[d], Tail(signals[d]))
    BY <1>3, <2>1 DEF OverBy
  <2>3. text \in {Working, "Paused", "Completed", "Error"}
    OBVIOUS
  <2> HIDE DEF text
  <2> QED
    BY <1>1, <2>1, <2>2, <2>3, StatusStepKeepsInv
<1>6. CASE DownloadError(d)
  <2> DEFINE text == "Error"
  <2>1. /\ Becomes(SetStatus(Page, d, text)) /\ d \notin wanted'
        /\ UNCHANGED <<contexts, options>>
    BY <1>6 DEF DownloadError, memory
  <2>2. text \in {Working, "Paused", "Completed", "Error"}
    OBVIOUS
  <2> HIDE DEF text
  <2> QED
    BY <1>1, <2>1, <2>2, StatusStepKeepsInv
<1> QED
  BY <1>4, <1>5, <1>6

LEMMA UpdateProgressKeepsInv ==
  ASSUME SchedulerInv, NEW d \in Ids, UpdateProgress(d)
  PROVE  SchedulerInv'
<1> DEFINE w == worker[d]
           s == Tail(signals[d])
<1>1. /\ signals[d] # <<>> /\ signals' = [signals EXCEPT ![d] = s]
      /\ Head(signals[d]) = "progress" /\ speeds' = speeds \cup {d}
      /\ UNCHANGED <<order, nextId, status, queue, suspended, slots, memory, restarts>>
      /\ worker' = worker /\ wanted' = wanted
  BY DEF UpdateProgress, Take, pageVars
<1>2. /\ signals[d] \in Seq(Texts) /\ w \in Worker /\ worker \in [Ids -> Worker]
      /\ PostedBy(w, signals[d])
  BY DEF SchedulerInv, Shape, TypeOK, Worker, Posted
<1>3. /\ PostedBy(w, s) /\ w.phase \in {"run", "done"}
      /\ PromisedBy(w, signals[d]) => PromisedBy(w, s)
  BY <1>1, <1>2, TakePosted
<1>4. worker' = [worker EXCEPT ![d] = w]
  BY <1>1, <1>2
<1>5. ~ShownBy(worker[d], signals[d])
  BY <1>1, <1>3 DEF ShownBy, Working
<1>6. ~OverBy(status[d], worker[d], signals[d])
  <2>1. signals[d] # <<"finished">>
    BY <1>1
  <2> QED
    BY <1>1, <2>1 DEF OverBy
<1>7. speeds' \subseteq Busy(worker)
  BY <1>1, <1>3 DEF SchedulerInv, PageIsConsistent, SpeedNeedsWorker, Busy
<1>8. d \in wanted' => PromisedBy(w, s)
  BY <1>1, <1>3 DEF SchedulerInv, Promised
<1>9. s \in Seq(Texts)
  BY <1>1, <1>2
<1> HIDE DEF w, s
<1>10. worker[d].phase # "none" /\ w.phase # "none"
  BY <1>3 DEF w
<1> QED
  BY <1>1, <1>2, <1>3, <1>4, <1>5, <1>6, <1>7, <1>8, <1>9, <1>10, WorkerStepKeepsInv

LEMMA WorkerKeepsInv ==
  ASSUME SchedulerInv, NEW d \in Ids, WorkerBegins(d) \/ WorkerMoves(d) \/ WorkerEnds(d)
  PROVE  SchedulerInv'
<1>1. /\ signals[d] \in Seq(Texts) /\ worker[d] \in Worker /\ worker \in [Ids -> Worker]
      /\ PostedBy(worker[d], signals[d])
      /\ d \in wanted /\ worker[d].phase # "none" => PromisedBy(worker[d], signals[d])
      /\ speeds \subseteq Busy(worker)
  BY DEF SchedulerInv, Shape, TypeOK, Worker, Posted, Promised, PageIsConsistent,
     SpeedNeedsWorker
<1>2. /\ UNCHANGED <<order, nextId, status, queue, suspended, slots, memory, restarts>>
      /\ UNCHANGED <<speeds, wanted>>
  BY DEF WorkerBegins, WorkerMoves, WorkerEnds, pageVars, memory
<1>3. CASE WorkerBegins(d)
  <2> DEFINE w == [worker[d] EXCEPT !.phase = "run"]
             text == Working
             s == signals[d] \o <<text>>
  <2>1. /\ worker[d].phase = "new" /\ worker' = [worker EXCEPT ![d] = w]
        /\ signals' = [signals EXCEPT ![d] = s]
    BY <1>3 DEF WorkerBegins, Post
  <2>2. w \in Worker /\ w.phase = "run" /\ w.stop = worker[d].stop
    BY <1>1 DEF Worker
  <2>3. text \in {Working, "progress"} /\ text = Working
    OBVIOUS
  <2>4. /\ s \in Seq(Texts) /\ PostedBy(w, s)
        /\ signals[d] = <<>> => Head(s) = text
    <3>1. s = signals[d] \o <<text>> /\ worker[d].phase # "done"
      BY <2>1
    <3> HIDE DEF s, text, w
    <3> QED
      BY <1>1, <2>2, <2>3, <3>1, PostOne
  <2>5. signals[d] = <<>>
    BY <1>1, <2>1 DEF PostedBy
  <2>6. ShownBy(w, s)
    <3>1. s # <<>>
      BY <1>1, <2>3
    <3> HIDE DEF s, text, w
    <3> QED
      BY <2>3, <2>4, <2>5, <3>1 DEF ShownBy
  <2>7. ~OverBy(status[d], worker[d], signals[d])
    BY <2>1 DEF OverBy
  <2>8. d \in wanted' => PromisedBy(w, s)
    BY <1>1, <1>2, <2>1, <2>2 DEF PromisedBy
  <2> HIDE DEF w, s, text
  <2> QED
    BY <1>1, <1>2, <2>1, <2>2, <2>4, <2>6, <2>7, <2>8, WorkerStepKeepsInv
<1>4. CASE WorkerMoves(d)
  <2> DEFINE w == worker[d]
             text == "progress"
             s == signals[d] \o <<text>>
  <2>1. /\ w.phase = "run" /\ worker' = worker /\ signals[d] = <<>>
        /\ signals' = [signals EXCEPT ![d] = s]
    BY <1>4 DEF WorkerMoves, Post, pageVars
  <2>2. worker' = [worker EXCEPT ![d] = w]
    BY <1>1, <2>1
  <2>3. s \in Seq(Texts) /\ PostedBy(w, s)
    <3>1. s = signals[d] \o <<text>> /\ worker[d].phase # "done" /\ w = worker[d]
          /\ text \in {Working, "progress"}
      BY <2>1
    <3> HIDE DEF s, text, w
    <3> QED
      BY <1>1, <2>1, <3>1, PostOne
  <2>4. ~OverBy(status[d], worker[d], signals[d]) /\ ~ShownBy(worker[d], signals[d])
    BY <2>1 DEF OverBy, ShownBy
  <2>5. d \in wanted' => PromisedBy(w, s)
    BY <1>1, <1>2, <2>1 DEF PromisedBy
  <2>6. w \in Worker /\ w.phase # "none" /\ worker[d].phase # "none"
    BY <1>1, <2>1
  <2> HIDE DEF w, s, text
  <2> QED
    BY <1>1, <1>2, <2>1, <2>2, <2>3, <2>4, <2>5, <2>6, WorkerStepKeepsInv
<1>5. CASE WorkerEnds(d)
  <2> DEFINE w == [worker[d] EXCEPT !.phase = "done"]
  <2>1. /\ worker[d].phase \in {"new", "run"} /\ worker' = [worker EXCEPT ![d] = w]
    BY <1>5 DEF WorkerEnds
  <2>2. w \in Worker /\ w.phase = "done" /\ w.stop = worker[d].stop
    BY <1>1 DEF Worker
  <2>3. PICK last \in {<<"Completed", "task_finished">>, <<"error">>, <<"Paused">>, <<>>} :
          /\ worker[d].stop \/ last \notin {<<"Paused">>, <<>>}
          /\ worker[d].phase = "new" => last = <<"Paused">>
          /\ signals' = [signals EXCEPT ![d] = signals[d] \o Append(last, "finished")]
    <3>1. CASE worker[d].phase = "run" /\ \E last \in Farewells(worker[d]) :
                 Post(d, Append(last, "finished"))
      <4>1. PICK last \in Farewells(worker[d]) : Post(d, Append(last, "finished"))
        BY <3>1
      <4>2. /\ last \in {<<"Completed", "task_finished">>, <<"error">>, <<"Paused">>, <<>>}
            /\ worker[d].stop \/ last \in {<<"Completed", "task_finished">>, <<"error">>}
        BY <4>1 DEF Farewells
      <4>3. last \in {<<"Completed", "task_finished">>, <<"error">>}
              => last # <<"Paused">> /\ last # <<>>
        <5>1. /\ Len(<<"Completed", "task_finished">>) = 2 /\ Len(<<"Paused">>) = 1
              /\ Len(<<"error">>) = 1 /\ Len(<<>>) = 0
              /\ <<"error">>[1] = "error" /\ <<"Paused">>[1] = "Paused"
          OBVIOUS
        <5> QED
          BY <5>1
      <4> QED
        BY <3>1, <4>1, <4>2, <4>3 DEF Post
    <3>2. CASE /\ worker[d].phase = "new" /\ worker[d].stop
               /\ Post(d, <<"Paused", "finished">>)
      <4>1. <<"Paused", "finished">> = Append(<<"Paused">>, "finished")
        OBVIOUS
      <4> QED
        BY <3>2, <4>1 DEF Post
    <3> QED
      BY <1>5, <3>1, <3>2 DEF WorkerEnds
  <2> DEFINE s == signals[d] \o Append(last, "finished")
  <2>4. /\ s \in Seq(Texts) /\ PostedBy(w, s) /\ s # <<>>
        /\ ~worker[d].stop => PromisedBy(w, s)
        /\ signals[d] # <<>> => Head(s) = Head(signals[d])
        /\ (signals[d] = <<>> /\ last = <<"Paused">>) => Head(s) = "Paused"
    <3>1. worker[d].phase # "done"
      BY <2>1
    <3> HIDE DEF w
    <3> QED
      BY <1>1, <2>2, <2>3, <3>1, PostLast
  <2>5. signals' = [signals EXCEPT ![d] = s]
    BY <2>3
  <2> HIDE DEF s, w
  <2>6. ShownBy(worker[d], signals[d]) => ShownBy(w, s)
    <3>1. worker[d].phase = "new" => signals[d] = <<>>
      BY <1>1 DEF PostedBy
    <3> QED
      BY <2>1, <2>3, <2>4, <3>1 DEF ShownBy
  <2>7. ~OverBy(status[d], worker[d], signals[d]) /\ worker[d].phase # "none"
    BY <2>1 DEF OverBy
  <2>8. d \in wanted' => PromisedBy(w, s)
    BY <1>1, <1>2, <2>4, <2>7 DEF PromisedBy
  <2> QED
    BY <1>1, <1>2, <2>1, <2>2, <2>4, <2>5, <2>6, <2>7, <2>8, WorkerStepKeepsInv
<1> QED
  BY <1>3, <1>4, <1>5

LEMMA ToggleStopKeepsInv ==
  ASSUME SchedulerInv, NEW d \in Ids, ToggleStop(d)
  PROVE  SchedulerInv'
<1> DEFINE w == [worker[d] EXCEPT !.stop = TRUE]
           s == signals[d]
<1>1. /\ worker[d].phase \in {"new", "run"} /\ worker' = StopIn(worker, {d})
      /\ speeds' = speeds \ {d} /\ wanted' = wanted \ {d}
      /\ UNCHANGED <<order, nextId, status, queue, signals, suspended, slots, memory,
                     restarts>>
  BY DEF ToggleStop
<1>2. /\ s \in Seq(Texts) /\ worker[d] \in Worker /\ worker \in [Ids -> Worker]
      /\ PostedBy(worker[d], s) /\ signals \in [Ids -> Seq(Texts)]
      /\ speeds \subseteq Busy(worker)
  BY DEF SchedulerInv, Shape, TypeOK, Worker, Posted, PageIsConsistent, SpeedNeedsWorker
<1>3. w \in Worker /\ w.phase = worker[d].phase
  BY <1>2 DEF Worker
<1>4. worker' = [worker EXCEPT ![d] = w]
  BY <1>1, <1>2 DEF StopIn
<1>5. signals' = [signals EXCEPT ![d] = s]
  BY <1>1, <1>2
<1> HIDE DEF w
<1>6. PostedBy(w, s) /\ (ShownBy(worker[d], s) => ShownBy(w, s))
  BY <1>2, <1>3 DEF PostedBy, ShownBy
<1>7. ~OverBy(status[d], worker[d], signals[d])
  BY <1>1 DEF OverBy
<1> QED
  BY <1>1, <1>2, <1>3, <1>4, <1>5, <1>6, <1>7, WorkerStepKeepsInv

LEMMA PauseAllKeepsInv ==
  ASSUME SchedulerInv, PauseAll
  PROVE  SchedulerInv'
<1> DEFINE p == [Page EXCEPT !.status = status', !.queue = <<>>, !.worker = worker']
<1>1. /\ Page \in Pages /\ OneStory(Page)
      /\ Page.order = order /\ Page.status = status /\ Page.queue = queue
      /\ Page.worker = worker /\ Page.contexts = contexts
      /\ restarts = 0 => Faithful(Page)
  BY PageOfInv
<1>2. /\ suspended' = TRUE /\ queue' = <<>> /\ worker' = StopIn(worker, Ids)
      /\ speeds' = speeds \ Busy(worker) /\ wanted' = {}
      /\ UNCHANGED <<order, nextId, signals, slots, memory, restarts>>
  BY DEF PauseAll
<1>3. /\ worker \in [Ids -> Worker] /\ status \in [Ids -> Statuses]
      /\ ToSet(order) \subseteq Ids /\ QueuedIds(queue) \subseteq Ids
  BY DEF SchedulerInv, TypeOK, Worker
<1>4. /\ worker' \in [Ids -> Worker]
      /\ \A e \in Ids : worker'[e].phase = worker[e].phase
  BY <1>2, <1>3 DEF StopIn, Worker
<1>5. /\ status' \in [Ids -> Statuses]
      /\ \A e \in QueuedIds(queue) : status'[e] = "Paused"
      /\ \A e \in Ids \ QueuedIds(queue) : status'[e] = status[e]
  BY <1>3 DEF PauseAll, Statuses
<1>6. /\ p \in Pages /\ p.order = order /\ p.status = status' /\ p.queue = <<>>
      /\ p.contexts = contexts /\ p.worker = worker'
  <2> DEFINE texts == status'
             table == worker'
  <2>1. texts \in [Ids -> Statuses] /\ table \in [Ids -> Worker] /\ <<>> \in Seq(Item)
    BY <1>4, <1>5
  <2>2. p = [Page EXCEPT !.status = texts, !.queue = <<>>, !.worker = table]
    OBVIOUS
  <2> HIDE DEF p, texts, table
  <2>3. p \in Pages
    BY <1>1, <2>1, <2>2 DEF Pages
  <2>4. /\ p.order = order /\ p.status = texts /\ p.queue = <<>>
        /\ p.contexts = contexts /\ p.worker = table
    BY <1>1, <2>2 DEF Pages
  <2> QED
    BY <2>3, <2>4 DEF texts, table
<1> HIDE DEF p
<1>7. Becomes(p)
  BY <1>2, <1>6 DEF Becomes
<1>8. Busy(p.worker) = Busy(worker)
  BY <1>4, <1>6 DEF Busy
<1>9. QueuedIds(p.queue) = {} /\ Distinct(p.queue) /\ ToSet(p.queue) = {}
  <2>1. DOMAIN p.queue = {}
    BY <1>6
  <2> QED
    BY <2>1 DEF QueuedIds, Distinct, ToSet
<1>10. OneStory(p)
  <2>1. ASSUME NEW e \in ToSet(p.order), p.status[e] = "Queued"
        PROVE  p.worker[e].phase # "none"
    <3>1. e \in ToSet(order) /\ e \in Ids \ QueuedIds(queue) /\ status[e] = "Queued"
      BY <1>3, <1>5, <1>6, <2>1
    <3> QED
      BY <1>1, <1>4, <1>6, <3>1 DEF OneStory
  <2> QED
    BY <1>9, <2>1 DEF OneStory
<1>11. FitsTypes(p)
  <2>1. speeds' \subseteq Busy(p.worker)
    BY <1>2, <1>8 DEF SchedulerInv, PageIsConsistent, SpeedNeedsWorker
  <2> QED
    BY <1>2, <1>6, <1>8, <2>1 DEF SchedulerInv, TypeOK, Shape, Added, FitsTypes, memory
<1>12. FitsSignals(p)
  <2>1. \A e \in Ids : PostedBy(p.worker[e], signals'[e])
    BY <1>2, <1>4, <1>6 DEF SchedulerInv, Posted, PostedBy
  <2>2. ASSUME NEW e \in ToSet(p.order), p.worker[e].phase # "none",
               p.status[e] = "Queued"
        PROVE  ShownBy(p.worker[e], signals'[e])
    <3>1. e \in ToSet(order) /\ e \in Ids \ QueuedIds(queue) /\ status[e] = "Queued"
      BY <1>3, <1>5, <1>6, <2>2
    <3>2. ShownBy(worker[e], signals[e])
      BY <1>4, <1>6, <2>2, <3>1 DEF SchedulerInv, Shown
    <3> QED
      BY <1>2, <1>4, <1>6, <3>1, <3>2 DEF ShownBy
  <2> QED
    BY <1>2, <2>1, <2>2 DEF FitsSignals
<1>13. FitsMemory(p)
  <2>1. SUFFICES ASSUME restarts = 0
                 PROVE  /\ Faithful(p) /\ formats' = Media \cap ToSet(p.order)
                        /\ \A e \in ToSet(p.order) : e \notin options' \cup contexts' =>
                             OverBy(p.status[e], p.worker[e], signals'[e])
    BY <1>2 DEF FitsMemory
  <2>2. \A e \in QueuedIds(queue) : status[e] # "Completed"
    BY <1>1 DEF OneStory
  <2>3. \A e \in Ids : status'[e] = "Completed" <=> status[e] = "Completed"
    BY <1>5, <2>2
  <2>4. Faithful(p)
    BY <1>1, <1>3, <1>6, <1>9, <2>1, <2>3 DEF Faithful
  <2>5. ASSUME NEW e \in ToSet(order), e \notin options \cup contexts
        PROVE  OverBy(p.status[e], p.worker[e], signals[e])
    <3>1. OverBy(status[e], worker[e], signals[e]) /\ e \in Ids
      BY <1>3, <2>1, <2>5 DEF SchedulerInv, Remembered
    <3> QED
      BY <1>4, <1>6, <2>3, <3>1 DEF OverBy
  <2> QED
    BY <1>2, <1>6, <2>1, <2>4, <2>5 DEF SchedulerInv, Remembered, memory
<1> QED
  BY <1>2, <1>6, <1>7, <1>10, <1>11, <1>12, <1>13, PageKeepsInv DEF Fits

\* The worker of a row that is removed ends inside the call, if it had not ended.
LEMMA RemovedWorker ==
  ASSUME SchedulerInv, NEW d \in Ids, RemoveDownload(d)
  PROVE  /\ worker' \in [Ids -> Worker] /\ signals' \in [Ids -> Seq(Texts)]
         /\ \A e \in Ids \ {d} : worker'[e] = worker[e] /\ signals'[e] = signals[e]
         /\ worker'[d].phase = "none" <=> worker[d].phase = "none"
         /\ PostedBy(worker'[d], signals'[d])
<1>1. /\ worker \in [Ids -> Worker] /\ signals \in [Ids -> Seq(Texts)]
      /\ PostedBy(worker[d], signals[d])
  BY DEF SchedulerInv, TypeOK, Shape, Worker, Posted
<1>2. CASE worker[d].phase \in {"none", "done"} /\ UNCHANGED <<worker, signals>>
  BY <1>1, <1>2
<1>3. CASE /\ worker[d].phase \in {"new", "run"}
           /\ worker' = [worker EXCEPT ![d].phase = "done", ![d].stop = TRUE]
           /\ \E last \in Farewells(worker'[d]) : Post(d, Append(last, "finished"))
  <2> DEFINE w == [worker[d] EXCEPT !.stop = TRUE]
             v == worker'[d]
  <2>1. /\ v = [worker[d] EXCEPT !.phase = "done", !.stop = TRUE]
        /\ \A e \in Ids \ {d} : worker'[e] = worker[e]
    BY <1>1, <1>3
  <2>2. /\ v \in Worker /\ v.phase = "done" /\ v.stop = TRUE
        /\ w \in Worker /\ w.phase = worker[d].phase /\ w.stop = TRUE
    <3>1. worker[d] \in Worker
      BY <1>1
    <3>2. w \in Worker /\ w.phase = worker[d].phase /\ w.stop = TRUE
      BY <3>1 DEF Worker
    <3>3. [worker[d] EXCEPT !.phase = "done", !.stop = TRUE] \in Worker
      BY <3>1 DEF Worker
    <3> HIDE DEF v, w
    <3>4. v \in Worker /\ v.phase = "done" /\ v.stop = TRUE
      BY <2>1, <3>1, <3>3 DEF Worker
    <3> QED
      BY <3>2, <3>4
  <2>3. worker' \in [Ids -> Worker]
    BY <1>1, <1>3, <2>1, <2>2 DEF Worker
  <2>4. PostedBy(w, signals[d])
    BY <1>1, <2>2 DEF PostedBy
  <2>5. PICK last \in Farewells(v) : Post(d, Append(last, "finished"))
    BY <1>3
  <2>6. last \in {<<"Completed", "task_finished">>, <<"error">>, <<"Paused">>, <<>>}
    BY <2>5 DEF Farewells
  <2> DEFINE t == signals[d] \o Append(last, "finished")
  <2>7. t \in Seq(Texts) /\ PostedBy(v, t)
    <3> HIDE DEF v, w
    <3> QED
      BY <1>1, <1>3, <2>2, <2>4, <2>6, PostLast
  <2>8. signals' = [signals EXCEPT ![d] = t]
    BY <2>5 DEF Post
  <2> HIDE DEF t, w
  <2> QED
    BY <1>1, <1>3, <2>1, <2>2, <2>3, <2>7, <2>8
<1> QED
  BY <1>2, <1>3 DEF RemoveDownload

LEMMA RemoveKeepsInv ==
  ASSUME SchedulerInv, NEW d \in Ids, RemoveDownload(d)
  PROVE  SchedulerInv' /\ StartsWell
<1> DEFINE p == [Page EXCEPT !.order = order', !.status = status', !.queue = queue',
                             !.worker = worker', !.contexts = contexts']
<1>1. /\ Page \in Pages /\ OneStory(Page) /\ slots \in Nat
      /\ Page.order = order /\ Page.status = status /\ Page.queue = queue
      /\ Page.worker = worker /\ Page.contexts = contexts
      /\ restarts = 0 => Faithful(Page)
  BY PageOfInv
<1>2. /\ queue' = Discard(queue, d) /\ order' = Without(order, {d})
      /\ formats' = formats \ {d} /\ contexts' = contexts \ {d} /\ options' = options \ {d}
      /\ status' = [status EXCEPT ![d] = "Pending"] /\ wanted' = wanted \ {d}
      /\ UNCHANGED <<nextId, speeds, suspended, slots, restarts>>
  BY DEF RemoveDownload
<1>3. /\ worker \in [Ids -> Worker] /\ status \in [Ids -> Statuses]
      /\ ToSet(order) \subseteq Ids /\ QueuedIds(queue) \subseteq Ids
      /\ order \in Seq(Ids) /\ queue \in Seq(Item) /\ IsInjective(order)
      /\ contexts \subseteq Ids
  BY SchedulerAssumption DEF SchedulerInv, TypeOK, Worker, Shape
<1>4. /\ worker' \in [Ids -> Worker] /\ signals' \in [Ids -> Seq(Texts)]
      /\ \A e \in Ids \ {d} : worker'[e] = worker[e] /\ signals'[e] = signals[e]
      /\ worker'[d].phase = "none" <=> worker[d].phase = "none"
      /\ PostedBy(worker'[d], signals'[d])
  BY RemovedWorker
<1>5. /\ order' \in Seq(Ids) /\ ToSet(order') = ToSet(order) \ {d}
      /\ IsInjective(order')
  BY <1>2, <1>3, WithoutMembers
<1>6. /\ queue' \in Seq(Item) /\ Distinct(queue')
      /\ ToSet(queue') = {item \in ToSet(queue) : item.id # d}
  BY <1>1, <1>2, <1>3, DiscardMembers DEF OneStory
<1>7. QueuedIds(queue') = QueuedIds(queue) \ {d}
  BY <1>3, <1>6, QueuedMembers
<1>8. /\ status' \in [Ids -> Statuses]
      /\ \A e \in Ids \ {d} : status'[e] = status[e]
  BY <1>2, <1>3 DEF Statuses
<1>9. /\ p \in Pages /\ p.order = order' /\ p.status = status' /\ p.queue = queue'
      /\ p.contexts = contexts' /\ p.worker = worker'
  <2>1. contexts' \in SUBSET Ids
    BY <1>2, <1>3
  <2> QED
    BY <1>1, <1>4, <1>5, <1>6, <1>8, <2>1 DEF Pages
<1> HIDE DEF p
<1>10. Busy(p.worker) = Busy(worker)
  BY <1>4, <1>9 DEF Busy
<1>11. OneStory(p)
  <2>1. ASSUME NEW e \in QueuedIds(p.queue)
        PROVE  /\ e \in ToSet(p.order) /\ p.worker[e].phase = "none"
               /\ p.status[e] \in {"Queued", "Paused"}
    <3>1. e \in QueuedIds(queue) /\ e \in Ids \ {d}
      BY <1>3, <1>7, <1>9
    <3> QED
      BY <1>1, <1>4, <1>5, <1>8, <1>9, <3>1 DEF OneStory
  <2>2. ASSUME NEW e \in ToSet(p.order), p.status[e] = "Queued"
        PROVE  e \in QueuedIds(p.queue) \/ p.worker[e].phase # "none"
    <3>1. e \in ToSet(order) /\ e \in Ids \ {d} /\ status[e] = "Queued"
      BY <1>3, <1>5, <1>8, <1>9, <2>2
    <3> QED
      BY <1>1, <1>4, <1>7, <1>9, <3>1 DEF OneStory
  <2> QED
    BY <1>6, <1>9, <2>1, <2>2 DEF OneStory
<1>12. FitsTypes(p)
  <2>1. /\ \A e \in ToSet(p.order) : e < nextId'
        /\ \A e \in Busy(p.worker) : e < nextId'
    BY <1>2, <1>5, <1>9, <1>10 DEF SchedulerInv, Added
  <2>2. speeds' \subseteq Busy(p.worker)
    BY <1>2, <1>10 DEF SchedulerInv, PageIsConsistent, SpeedNeedsWorker
  <2> QED
    BY <1>2, <1>4, <1>5, <1>9, <2>1, <2>2 DEF SchedulerInv, TypeOK, Shape, FitsTypes
<1>13. FitsSignals(p)
  <2>1. \A e \in Ids : PostedBy(p.worker[e], signals'[e])
    BY <1>4, <1>9 DEF SchedulerInv, Posted
  <2>2. ASSUME NEW e \in ToSet(p.order), p.worker[e].phase # "none",
               p.status[e] = "Queued"
        PROVE  ShownBy(p.worker[e], signals'[e])
    <3>1. e \in ToSet(order) /\ e \in Ids \ {d}
      BY <1>3, <1>5, <1>9
    <3> QED
      BY <1>4, <1>8, <1>9, <2>2, <3>1 DEF SchedulerInv, Shown
  <2>3. ASSUME NEW e \in wanted', p.worker[e].phase # "none"
        PROVE  PromisedBy(p.worker[e], signals'[e])
    <3>1. e \in wanted /\ e \in Ids \ {d}
      BY <1>2 DEF SchedulerInv, Shape
    <3> QED
      BY <1>4, <1>9, <2>3, <3>1 DEF SchedulerInv, Promised
  <2> QED
    BY <2>1, <2>2, <2>3 DEF FitsSignals
<1>14. FitsMemory(p)
  <2>1. SUFFICES ASSUME restarts = 0
                 PROVE  /\ Faithful(p) /\ formats' = Media \cap ToSet(p.order)
                        /\ \A e \in ToSet(p.order) : e \notin options' \cup contexts' =>
                             OverBy(p.status[e], p.worker[e], signals'[e])
    BY <1>2 DEF FitsMemory
  <2>2. /\ formats = Media \cap ToSet(order)
        /\ \A e \in ToSet(order) : e \notin options \cup contexts =>
             OverBy(status[e], worker[e], signals[e])
    BY <2>1 DEF SchedulerInv, Remembered
  <2>3. Faithful(p)
    <3>1. \A item \in ToSet(p.queue) : OfKind(item)
      BY <1>1, <1>6, <1>9, <2>1 DEF Faithful
    <3>2. ASSUME NEW e \in ToSet(p.order), p.status[e] # "Completed"
          PROVE  e \in p.contexts <=> e \in FromBrowser
      <4>1. e \in ToSet(order) /\ e \in Ids \ {d} /\ status[e] # "Completed"
        BY <1>3, <1>5, <1>8, <1>9, <3>2
      <4> QED
        BY <1>1, <1>2, <1>9, <2>1, <4>1 DEF Faithful
    <3> QED
      BY <2>1, <3>1, <3>2 DEF Faithful
  <2>4. formats' = Media \cap ToSet(p.order)
    BY <1>2, <1>5, <1>9, <2>2
  <2>5. ASSUME NEW e \in ToSet(p.order), e \notin options' \cup contexts'
        PROVE  OverBy(p.status[e], p.worker[e], signals'[e])
    <3>1. e \in ToSet(order) /\ e \in Ids \ {d} /\ e \notin options \cup contexts
      BY <1>2, <1>3, <1>5, <1>9, <2>5
    <3> QED
      BY <1>4, <1>8, <1>9, <2>2, <3>1
  <2> QED
    BY <2>3, <2>4, <2>5
<1>15. suspended' \/ p.queue = <<>> \/ Cardinality(Busy(p.worker)) >= slots'
  BY <1>2, <1>7, <1>9, <1>10, StillNoneIdle
<1>16. ASSUME NEW e \in wanted'
       PROVE  e \in QueuedIds(p.queue) \cup Busy(p.worker)
  BY <1>2, <1>7, <1>9, <1>10, <1>16 DEF SchedulerInv, WantedIsServed
<1>17. SchedulerInv'
  <2>1. Becomes(p)
    BY <1>9 DEF Becomes
  <2> QED
    BY <1>9, <1>11, <1>12, <1>13, <1>14, <1>15, <1>16, <2>1, PageKeepsInv DEF Fits
<1>18. StartsWell
  BY <1>5, <1>9, <1>10, NothingStarts
<1> QED
  BY <1>17, <1>18

\* The rows that the database returns.
LEMMA NewestFirstRows ==
  ASSUME NEW rows \in SUBSET Ids, NEW s \in NewestFirst(rows)
  PROVE  s \in Seq(Ids) /\ ToSet(s) = rows /\ IsInjective(s)
<1> DEFINE n == Cardinality(rows)
<1>1. n \in Nat
  BY SchedulerAssumption, FS_Interval, FS_Subset, FS_CardinalityType, 1 \in Int,
     Downloads \in Int DEF Ids
<1> HIDE DEF n
<1>2. /\ s \in [1..n -> rows] /\ ToSet(s) = rows
      /\ \A i, j \in DOMAIN s : i < j => s[i] > s[j]
  BY DEF NewestFirst, n
<1>3. s \in Seq(Ids)
  BY <1>1, <1>2
<1>4. ASSUME NEW i \in DOMAIN s, NEW j \in DOMAIN s, s[i] = s[j]
      PROVE  i = j
  <2>1. DOMAIN s = 1..n /\ s[i] \in rows
    BY <1>2
  <2>2. i \in Int /\ j \in Int /\ s[i] \in Int /\ ~(s[i] > s[i])
    <3>1. i \in Int /\ j \in Int
      BY <1>1, <1>4, <2>1
    <3>2. s[i] \in Int
      <4>1. rows \subseteq Ids /\ \A x \in Ids : x \in Int
        BY SchedulerAssumption DEF Ids
      <4> QED
        BY <2>1, <4>1
    <3> QED
      BY <3>1, <3>2
  <2>3. ~(i < j) /\ ~(j < i)
    BY <1>2, <1>4, <2>2
  <2> QED
    BY <2>2, <2>3
<1> QED
  BY <1>2, <1>3, <1>4 DEF IsInjective

LEMMA RestartKeepsInv ==
  ASSUME SchedulerInv, Restart
  PROVE  SchedulerInv' /\ StartsWell
<1> DEFINE table == [e \in Ids |-> NoWorker]
           p == [order |-> order', status |-> status', queue |-> <<>>,
                 worker |-> table, contexts |-> {}]
<1>1. /\ order' \in NewestFirst(ToSet(order)) /\ restarts' = restarts + 1
      /\ queue' = <<>> /\ worker' = table /\ signals' = [e \in Ids |-> <<>>]
      /\ speeds' = {} /\ suspended' = FALSE
      /\ formats' = {} /\ contexts' = {} /\ options' = {} /\ wanted' = {}
      /\ UNCHANGED <<nextId, slots>>
  BY DEF Restart
<1>2. /\ status \in [Ids -> Statuses] /\ ToSet(order) \in SUBSET Ids
      /\ restarts \in Nat
  BY DEF SchedulerInv, TypeOK, Shape
<1>3. order' \in Seq(Ids) /\ ToSet(order') = ToSet(order) /\ IsInjective(order')
  BY <1>1, <1>2, NewestFirstRows
<1>4. /\ status' \in [Ids -> Statuses]
      /\ \A e \in ToSet(order) : status'[e] # "Queued"
  <2>1. status' = [e \in Ids |-> IF e \in ToSet(order)
                                 THEN RecoverStartupStatus(status[e]) ELSE "Pending"]
    BY DEF Restart
  <2>2. \A text \in Statuses : /\ RecoverStartupStatus(text) \in Statuses
                               /\ RecoverStartupStatus(text) # "Queued"
    BY DEF RecoverStartupStatus, Interrupted, Statuses, Working
  <2>3. "Pending" \in Statuses
    BY DEF Statuses
  <2> QED
    BY <1>2, <2>1, <2>2, <2>3
<1>5. table \in [Ids -> Worker] /\ \A e \in Ids : table[e].phase = "none"
  BY DEF NoWorker, Worker
<1> HIDE DEF table
<1>6. /\ p \in Pages /\ p.order = order' /\ p.status = status' /\ p.queue = <<>>
      /\ p.worker = table /\ p.contexts = {}
  BY <1>3, <1>4, <1>5 DEF Pages
<1> HIDE DEF p
<1>7. QueuedIds(p.queue) = {} /\ Distinct(p.queue)
  <2>1. DOMAIN p.queue = {}
    BY <1>6
  <2> QED
    BY <2>1 DEF QueuedIds, Distinct
<1>8. Busy(p.worker) = {} /\ Busy(worker') = {}
  BY <1>1, <1>5, <1>6 DEF Busy
<1>9. OneStory(p)
  BY <1>3, <1>4, <1>6, <1>7 DEF OneStory
<1>10. FitsTypes(p)
  <2>1. signals' \in [Ids -> Seq(Texts)]
    BY <1>1
  <2>2. /\ nextId' \in 1..Downloads + 1 /\ suspended' \in BOOLEAN
        /\ slots' \in 1..MaxSlots /\ restarts' \in Nat
    <3>1. nextId \in 1..Downloads + 1 /\ slots \in 1..MaxSlots
      BY DEF SchedulerInv, TypeOK
    <3>2. restarts + 1 \in Nat
      BY <1>2
    <3> QED
      BY <1>1, <3>1, <3>2
  <2>3. \A e \in ToSet(p.order) : e < nextId'
    BY <1>1, <1>3, <1>6 DEF SchedulerInv, Added
  <2>4. wanted' \subseteq Ids /\ contexts' \subseteq FromBrowser
        /\ options' \cap FromBrowser = {}
    BY <1>1
  <2> QED
    BY <1>1, <1>3, <1>6, <1>8, <2>1, <2>2, <2>3, <2>4 DEF FitsTypes
<1>11. FitsSignals(p)
  <2>1. \A e \in Ids : PostedBy(p.worker[e], signals'[e])
    BY <1>1, <1>5, <1>6 DEF PostedBy
  <2>2. \A e \in ToSet(p.order) : p.worker[e].phase = "none"
    BY <1>2, <1>3, <1>5, <1>6
  <2> QED
    BY <1>1, <2>1, <2>2 DEF FitsSignals
<1>12. FitsMemory(p)
  BY <1>1, <1>2 DEF FitsMemory
<1>13. Becomes(p)
  BY <1>1, <1>6 DEF Becomes
<1>14. SchedulerInv'
  BY <1>1, <1>6, <1>9, <1>10, <1>11, <1>12, <1>13, PageKeepsInv DEF Fits
<1>15. StartsWell
  BY <1>3, <1>8, NothingStarts
<1> QED
  BY <1>14, <1>15

-----------------------------------------------------------------------------
(***************************************************************************)
(* The theorems.                                                           *)
(***************************************************************************)
LEMMA InitSchedulerInv ==
  ASSUME Init
  PROVE  SchedulerInv
<1>1. /\ order = <<>> /\ nextId = 1 /\ status = [d \in Ids |-> "Pending"]
      /\ queue = <<>> /\ worker = [d \in Ids |-> NoWorker]
      /\ signals = [d \in Ids |-> <<>>]
      /\ speeds = {} /\ suspended = FALSE /\ slots \in 1..MaxSlots
      /\ formats = {} /\ contexts = {} /\ options = {} /\ restarts = 0 /\ wanted = {}
  BY DEF Init
<1>2. NoWorker \in Worker /\ NoWorker.phase = "none"
  BY DEF NoWorker, Worker
<1>3. DOMAIN order = {} /\ DOMAIN queue = {}
  BY <1>1
<1>4. /\ ToSet(order) = {} /\ ToSet(queue) = {} /\ IsInjective(order)
      /\ QueuedIds(queue) = {} /\ Busy(worker) = {}
  BY <1>1, <1>2, <1>3 DEF ToSet, IsInjective, QueuedIds, Busy
<1>5. TypeOK
  <2>1. nextId \in 1..Downloads + 1
    BY <1>1, SchedulerAssumption
  <2> QED
    BY <1>1, <1>2, <1>4, <2>1 DEF TypeOK, Statuses, Worker
<1>6. Shape
  BY <1>1 DEF Shape
<1>7. Added /\ Shown /\ Promised /\ Remembered
  BY <1>1, <1>4 DEF Added, Shown, Promised, Remembered
<1>8. Posted
  BY <1>1, <1>2 DEF Posted, PostedBy
<1>9. PageIsConsistent /\ WantedIsServed
  BY <1>1, <1>3, <1>4 DEF PageIsConsistent, WaitingIsReal, NoSlotIdle, SpeedNeedsWorker,
     WantedIsServed
<1> QED
  BY <1>5, <1>6, <1>7, <1>8, <1>9 DEF SchedulerInv

LEMMA StutterKeepsInv ==
  ASSUME SchedulerInv, UNCHANGED vars
  PROVE  SchedulerInv' /\ StartsWell
<1>1. /\ UNCHANGED <<order, nextId, status, queue, worker, signals, speeds, suspended>>
      /\ UNCHANGED <<slots, formats, contexts, options, restarts, wanted>>
  BY DEF vars, pageVars, memory
<1>2. TypeOK' /\ Shape' /\ Added'
  BY <1>1 DEF SchedulerInv, TypeOK, Shape, Added
<1>3. Posted' /\ Shown' /\ Promised' /\ Remembered'
  BY <1>1 DEF SchedulerInv, Posted, Shown, Promised, Remembered
<1>4. PageIsConsistent' /\ WantedIsServed'
  BY <1>1 DEF SchedulerInv, PageIsConsistent, WaitingIsReal, NoSlotIdle, SpeedNeedsWorker,
     WantedIsServed
<1>5. StartsWell
  BY <1>1, NothingStarts
<1> QED
  BY <1>2, <1>3, <1>4, <1>5 DEF SchedulerInv

\* What the thread of a worker does, and what the page does with a signal that is not
\* the last one, leaves the table of workers and the rows as they are.
LEMMA QuietSteps ==
  ASSUME SchedulerInv, NEW d \in Ids,
         \/ WorkerBegins(d) \/ WorkerMoves(d) \/ WorkerEnds(d) \/ ToggleStop(d)
         \/ ShowStatus(d) \/ UpdateProgress(d) \/ DownloadFinished(d) \/ DownloadError(d)
  PROVE  StartsWell
<1>1. worker \in [Ids -> Worker]
  BY DEF SchedulerInv, TypeOK, Worker
<1>2. CASE WorkerBegins(d) \/ WorkerMoves(d) \/ WorkerEnds(d) \/ ToggleStop(d)
  <2>1. order' = order
    BY <1>2 DEF WorkerBegins, WorkerMoves, WorkerEnds, ToggleStop, pageVars
  <2>2. \A e \in Ids : worker[e].phase = "none" => worker'[e].phase = "none"
    BY <1>1, <1>2 DEF WorkerBegins, WorkerMoves, WorkerEnds, ToggleStop, StopIn, pageVars
  <2> QED
    BY <2>1, <2>2, NothingStarts DEF Busy
<1>3. CASE \/ ShowStatus(d) \/ UpdateProgress(d) \/ DownloadFinished(d)
           \/ DownloadError(d)
  <2>1. \A text : /\ SetStatus(Page, d, text).order = order
                  /\ SetStatus(Page, d, text).worker = worker
    BY DEF SetStatus, Page
  <2>2. UNCHANGED <<order, worker>>
    BY <1>3, <2>1 DEF ShowStatus, UpdateProgress, DownloadFinished, DownloadError, Becomes,
       pageVars
  <2> QED
    BY <2>2, NothingStarts
<1> QED
  BY <1>2, <1>3

LEMMA NextKeepsInv ==
  ASSUME SchedulerInv, [Next]_vars
  PROVE  SchedulerInv' /\ StartsWell
<1>1. CASE PageSteps
  <2>1. PICK bad \in BadStarts :
          \/ \E d \in Ids : \/ AddDownload(d, bad) \/ AddBrowserDownload(d, bad)
                            \/ ToggleStart(d, bad) \/ CleanupWorker(d, bad)
          \/ ResumeAll(bad)
          \/ \E n \in 1..MaxSlots : SettingsChanged(n, bad)
    BY <1>1 DEF PageSteps
  <2>2. ASSUME NEW d \in Ids, AddDownload(d, bad)
        PROVE  SchedulerInv' /\ StartsWell
    <3>1. /\ d = nextId /\ NewRow(d, bad)
          /\ contexts' = contexts \cup ({d} \cap FromBrowser)
          /\ options' = options \cup ({d} \ FromBrowser)
      BY <2>2 DEF AddDownload
    <3> QED
      BY <3>1, NewRowKeepsInv
  <2>3. ASSUME NEW d \in Ids, AddBrowserDownload(d, bad)
        PROVE  SchedulerInv' /\ StartsWell
    <3>1. /\ d = nextId /\ NewRow(d, bad)
          /\ contexts' = contexts \cup ({d} \cap FromBrowser)
          /\ options' = options \cup ({d} \ FromBrowser)
      BY <2>3 DEF AddBrowserDownload
    <3> QED
      BY <3>1, NewRowKeepsInv
  <2>4. ASSUME NEW d \in Ids, ToggleStart(d, bad)
        PROVE  SchedulerInv' /\ StartsWell
    BY <2>4, ToggleStartKeepsInv
  <2>5. ASSUME NEW d \in Ids, CleanupWorker(d, bad)
        PROVE  SchedulerInv' /\ StartsWell
    BY <2>5, CleanupKeepsInv
  <2>6. CASE ResumeAll(bad)
    BY <2>6, ResumeAllKeepsInv
  <2>7. ASSUME NEW n \in 1..MaxSlots, SettingsChanged(n, bad)
        PROVE  SchedulerInv' /\ StartsWell
    BY <2>7, SettingsChangedKeepsInv
  <2> QED
    BY <2>1, <2>2, <2>3, <2>4, <2>5, <2>6, <2>7
<1>2. CASE RowSteps
  <2>1. PICK d \in Ids : \/ ToggleStop(d) \/ RemoveDownload(d) \/ ShowStatus(d)
                         \/ UpdateProgress(d) \/ DownloadFinished(d) \/ DownloadError(d)
    BY <1>2 DEF RowSteps
  <2>2. CASE ToggleStop(d)
    BY <2>2, ToggleStopKeepsInv, QuietSteps
  <2>3. CASE RemoveDownload(d)
    BY <2>3, RemoveKeepsInv
  <2>4. CASE UpdateProgress(d)
    BY <2>4, UpdateProgressKeepsInv, QuietSteps
  <2>5. CASE ShowStatus(d) \/ DownloadFinished(d) \/ DownloadError(d)
    BY <2>5, SignalsKeepInv, QuietSteps
  <2> QED
    BY <2>1, <2>2, <2>3, <2>4, <2>5
<1>3. CASE WorkerSteps
  BY <1>3, WorkerKeepsInv, QuietSteps DEF WorkerSteps
<1>4. CASE PauseAll
  <2>1. order' = order /\ worker' = StopIn(worker, Ids)
    BY <1>4 DEF PauseAll
  <2>2. Busy(worker') \subseteq Busy(worker)
    BY <2>1 DEF Busy, StopIn
  <2> QED
    BY <1>4, <2>1, <2>2, PauseAllKeepsInv, NothingStarts
<1>5. CASE Restart
  BY <1>5, RestartKeepsInv
<1>6. CASE UNCHANGED vars
  BY <1>6, StutterKeepsInv
<1> QED
  BY <1>1, <1>2, <1>3, <1>4, <1>5, <1>6 DEF Next

\* The rows, the queue, the table of workers, the signals on their way and what the
\* page remembers fit together in every reachable state: no interleaving of the
\* threads with the handlers of downloads_page.py breaks what the next handler
\* relies on.
THEOREM SchedulerInvariant == Spec => []SchedulerInv
<1>1. Init => SchedulerInv
  BY InitSchedulerInv
<1>2. SchedulerInv /\ [Next]_vars => SchedulerInv'
  BY NextKeepsInv
<1> QED
  BY <1>1, <1>2, PTL DEF Spec

\* The table of rows, the queue and the table of workers keep their shape: one row
\* and one worker for an id, and ids as the database gives them out.
THEOREM TypesAreKept == Spec => []TypeOK
<1>1. SchedulerInv => TypeOK
  BY DEF SchedulerInv
<1> QED
  BY <1>1, SchedulerInvariant, PTL

\* What the list shows is what happens: a download that waits has a row that says so,
\* a row that shows "Queued" is waiting or has its slot, no request waits beside a
\* free slot, and the total speed counts no download without a worker.
THEOREM ListIsConsistent == Spec => []PageIsConsistent
<1>1. SchedulerInv => PageIsConsistent
  BY DEF SchedulerInv
<1> QED
  BY <1>1, SchedulerInvariant, PTL

\* No handler of the page loses a download that the user asked to run: until it is
\* stopped, removed or ends, it has a worker or a place in the queue.
THEOREM NobodyIsForgotten == Spec => []WantedIsServed
<1>1. SchedulerInv => WantedIsServed
  BY DEF SchedulerInv
<1> QED
  BY <1>1, SchedulerInvariant, PTL

\* None of the five handlers that start workers adds one beyond the limit in force at
\* the end of the handler, whatever the order of the rows, of the queue and of the
\* starts that fail.
THEOREM LimitIsKept == Spec => NeverOverLimit
<1>1. SchedulerInv /\ [Next]_vars => StartsWell
  BY NextKeepsInv
<1>2. StartsWell =>
        (Busy(worker') \ Busy(worker) # {} => Cardinality(Busy(worker')) <= slots')
  BY DEF StartsWell
<1> QED
  BY <1>1, <1>2, SchedulerInvariant, PTL DEF Spec, NeverOverLimit

\* Until a restart every start is of the kind, and with the checksum, that the dialog
\* of the row asked for, for every choice of the kinds of the downloads.
THEOREM KindsAreKept == Spec => StartsAsAsked
<1>1. SchedulerInv /\ [Next]_vars => StartsWell
  BY NextKeepsInv
<1>2. StartsWell =>
        \A d \in (Busy(worker') \ Busy(worker)) :
          restarts = 0 => /\ worker'[d].video <=> d \in Videos
                          /\ worker'[d].hash <=> d \in Checked \ Videos
  BY DEF StartsWell, AsAsked
<1> QED
  BY <1>1, <1>2, SchedulerInvariant, PTL DEF Spec, StartsAsAsked

\* A download that was removed has no row, no request and no new worker again: not
\* from a late signal of its thread, not from resume_all and not from a restart.
THEOREM RemovedIsGone == Spec => RemovedStaysAway
<1> DEFINE Gone == \A d \in Removed :
                     /\ d \notin ToSet(order') \cup QueuedIds(queue')
                     /\ d \in Busy(worker') => d \in Busy(worker)
<1>1. SchedulerInv /\ [Next]_vars => StartsWell /\ SchedulerInv'
  BY NextKeepsInv
<1>2. ASSUME SchedulerInv, SchedulerInv', StartsWell
      PROVE  Gone
  <2>1. nextId \in Nat
    BY <1>2 DEF SchedulerInv, TypeOK
  <2>2. QueuedIds(queue') \subseteq ToSet(order')
    BY <1>2 DEF SchedulerInv, PageIsConsistent, WaitingIsReal
  <2>3. ASSUME NEW d \in Removed
        PROVE  d \notin ToSet(order')
    BY <1>2, <2>1, <2>3 DEF StartsWell, Removed
  <2> QED
    BY <1>2, <2>2, <2>3 DEF StartsWell
<1>3. SchedulerInv /\ SchedulerInv' /\ StartsWell => [Gone]_vars
  BY <1>2
<1> QED
  BY <1>1, <1>3, SchedulerInvariant, PTL DEF Spec, RemovedStaysAway
=============================================================================
