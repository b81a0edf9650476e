---------------------------- MODULE SpeedLimiter ----------------------------
(***************************************************************************)
(* The token bucket that all transfers share (core/traffic_control.py) and *)
(* the settings page that sets its rate (ui/settings_page.py).             *)
(*                                                                         *)
(* Every worker has a thread and an event loop of its own, and calls       *)
(* acquire after each chunk; the settings page runs in the thread of the   *)
(* user interface and writes the bucket without its lock, one field after  *)
(* the other.  The locked part of acquire has no await and is one step     *)
(* here.  Time passes in ticks; rates are in tokens per tick.              *)
(***************************************************************************)
EXTENDS Integers, FiniteSets

CONSTANTS
  Workers,
  Chunk,     \* tokens that a chunk costs
  MaxRate,   \* largest limit; 0 means unlimited
  MaxSaves   \* bound on the number of times the settings are saved

VARIABLES
  rate, capacity, tokens,  \* the fields of the bucket
  elapsed,  \* ticks since _last_refill, as far as they matter
  need,     \* tokens each worker has still to get in its call of acquire
  sleep,    \* ticks it has still to sleep in it
  limit,    \* bytes_per_second of set_limit, and
  line,     \* the assignment it makes next; 0: it is not running
  saves

bucket == <<rate, capacity, tokens, elapsed>>
setting == <<limit, line, saves>>
vars == <<bucket, need, sleep, setting>>

Least(a, b) == IF a < b THEN a ELSE b
Ceil(a, b) == (a + b - 1) \div b

Init ==
  /\ rate = 0 /\ capacity = 0 /\ tokens = 0 /\ elapsed = 0
  /\ need = [w \in Workers |-> 0] /\ sleep = [w \in Workers |-> 0]
  /\ limit = 0 /\ line = 0 /\ saves = 0

\* acquire returns at once when there is no limit.
Ask(w) ==
  /\ need[w] = 0 /\ rate > 0
  /\ need' = [need EXCEPT ![w] = Chunk]
  /\ UNCHANGED <<bucket, sleep, setting>>

\* One turn of the loop: refill, then take all that is wanted or all there is.
Turn(w) ==
  LET consume == IF capacity > 0 THEN Least(need[w], capacity) ELSE need[w]
      filled  == IF elapsed * rate > 0
                 THEN Least(capacity, tokens + elapsed * rate) ELSE tokens
      enough  == filled >= consume
  IN /\ need[w] > 0 /\ sleep[w] = 0
     /\ elapsed' = IF elapsed * rate > 0 THEN 0 ELSE elapsed
     /\ tokens' = IF enough THEN filled - consume ELSE 0
     /\ need' = [need EXCEPT ![w] = @ - (IF enough THEN consume ELSE filled)]
     /\ sleep' = [sleep EXCEPT ![w] = IF enough \/ rate <= 0 THEN 0
                                      ELSE Ceil(consume - filled, rate)]
     /\ UNCHANGED <<rate, capacity, setting>>

Tick ==
  /\ elapsed' = Least(elapsed + 1, MaxRate)
  /\ sleep' = [w \in Workers |-> IF sleep[w] > 0 THEN sleep[w] - 1 ELSE 0]
  /\ <<elapsed', sleep'>> # <<elapsed, sleep>>
  /\ UNCHANGED <<rate, capacity, tokens, need, setting>>

\* save_settings stores the values and calls set_limit ...
SaveSettings(n) ==
  /\ line = 0 /\ saves < MaxSaves
  /\ limit' = n /\ line' = 1 /\ saves' = saves + 1
  /\ UNCHANGED <<bucket, need, sleep>>

\* ... which makes four assignments.
SetLimit ==
  /\ line > 0
  /\ line' = (line + 1) % 5
  /\ rate' = IF line = 1 THEN limit ELSE rate
  /\ capacity' = IF line = 2 THEN limit ELSE capacity
  /\ tokens' = IF line = 3 THEN capacity ELSE tokens
  /\ elapsed' = IF line = 4 THEN 0 ELSE elapsed
  /\ UNCHANGED <<need, sleep, limit, saves>>

Next ==
  \/ \E w \in Workers : Ask(w) \/ Turn(w)
  \/ Tick \/ SetLimit
  \/ \E n \in 0..MaxRate : SaveSettings(n)

Spec == Init /\ [][Next]_vars

\* Threads run and time passes; the settings are saved finitely often.
Fairness ==
  /\ \A w \in Workers : WF_vars(Turn(w))
  /\ WF_vars(Tick) /\ WF_vars(SetLimit)
FairSpec == Spec /\ Fairness

\* "0 = Unlimited": once the limit is 0 and stays 0, whoever is waiting for
\* tokens gets on, however the call that set it interleaves with the loop of
\* acquire.  It does not: the bucket then never fills, and the worker asks
\* again without sleeping.
UnlimitedMeansFree ==
  \A w \in Workers :
    (need[w] > 0 /\ limit = 0) ~> (need[w] = 0 \/ limit > 0)
==============================================================================
