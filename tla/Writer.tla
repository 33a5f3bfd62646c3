------------------------------- MODULE Writer -------------------------------
(***************************************************************************)
(* The off-loop order writer: the write-token pacer (v33/executor.py,      *)
(* WriteTokenBucket), the lanes of worker threads with their slot locks    *)
(* (v33/async_writer.py, AsyncOrderWriter) and the proxy round trip        *)
(* (proxy_writer.py, ProxyWriter).                                         *)
(*                                                                         *)
(* A job is one coroutine of the executor: what it does (op, id), where it *)
(* stands (step, and for a wing take the sub-batch), how long it sleeps    *)
(* still (wait), how often it has tried (tries), the round trip it awaits  *)
(* (http) and what came back (ans, seen).                                  *)
(*                                                                         *)
(* Abstractions                                                            *)
(*  - a tick is the time the bucket takes to refill by one token; a        *)
(*    sleeping coroutine wakes on its tick (the loop lags less than that); *)
(*  - a slot's lock is taken when its call starts, in any order;           *)
(*  - the bounded retries inside one DELETE (429, 5xx, exceptions) are part*)
(*    of its round trip: it comes back only with the last of them;         *)
(*  - telemetry (WriterStats, headers, journal lines) is left out.         *)
(***************************************************************************)
EXTENDS Integers, FiniteSets, FiniteSetsExt

CONSTANTS
  Coids,      \* the client ids this process mints, one order each
  Strays,     \* orders of this roster that an earlier process left resting
  Wings,      \* the wing takes of the hour
  Size,       \* write_bucket_size
  Reserve,    \* write_reserve_tokens: left for priority writes
  CostCreate, \* COST_CREATE
  CostCancel, \* COST_CANCEL
  Workers,    \* worker threads of each lane
  RetryWait   \* ticks a 429, an unpulled DELETE or the invariant's recheck waits

Lanes == {"wing", "cancel", "normal"}

\* the policy loader refuses a bucket that cannot hold the reserve and a create
ASSUME WriterAssumption ==
  /\ Size \in Nat /\ Reserve \in Nat /\ Reserve + CostCreate <= Size
  /\ CostCreate \in Nat \ {0} /\ CostCancel \in Nat \ {0} /\ RetryWait \in Nat \ {0}
  /\ Workers \in [Lanes -> Nat \ {0}]

VARIABLES
  jobs,   \* the coroutines under way
  tokens, \* the pacer's level: what is granted counts at once, it may be negative
  sent    \* history: the level of a bucket that only the writes that may wait
          \* draw from, when they leave the pacer

pacer == <<tokens, sent>>

-----------------------------------------------------------------------------
(* The pacer *)

\* what a write leaves in the bucket for the writes that may not wait
Floor(priority) == IF priority THEN 0 ELSE Reserve

\* the pause of a write: none for a priority write, unless it must fit the venue's bucket
PaceWait(cost, priority, fit) ==
  IF (~priority \/ fit) /\ tokens < cost + Floor(priority)
  THEN cost + Floor(priority) - tokens ELSE 0

\* a write leaves the pacer
Leave(cost, priority) == sent' = IF priority THEN sent ELSE sent - cost

\* mutant: the cost is taken only by a write that need not sleep
ReserveAfterSleep(cost, priority, fit) ==
  /\ tokens' = IF PaceWait(cost, priority, fit) = 0 THEN tokens - cost ELSE tokens
  /\ IF PaceWait(cost, priority, fit) = 0 THEN Leave(cost, priority) ELSE UNCHANGED sent

\* the cost is reserved at once; the pause follows outside the lock
acquire_async(cost, priority, fit) ==
  /\ tokens' = tokens - cost
  /\ IF PaceWait(cost, priority, fit) = 0 THEN Leave(cost, priority) ELSE UNCHANGED sent

\* the bucket refills
_refill ==
  /\ tokens' = Min({Size, tokens + 1})
  /\ sent' = Min({Size, sent + 1})

Due(j) == j.wait = 0 /\ j.step \in {"paced", "settle", "backoff", "throttled"}

\* time passes: nobody oversleeps
Tick ==
  /\ ~ \E j \in jobs : Due(j)
  /\ tokens < Size \/ \E j \in jobs : j.wait > 0
  /\ _refill
  /\ jobs' = { [j EXCEPT !.wait = IF @ > 0 THEN @ - 1 ELSE 0] : j \in jobs }

-----------------------------------------------------------------------------
(* Lanes and round trips *)

NewJob(op, id) == [op |-> op, id |-> id, step |-> "new", batch |-> 0, wait |-> 0, tries |-> 0,
                   http |-> "idle", ans |-> "none", seen |-> {}]

\* the coroutine awaits the round trip of this step
Await(j, step) == [j EXCEPT !.step = step, !.wait = 0, !.http = "queued", !.ans = "none", !.seen = {}]
Sleep(j, step, wait) == [j EXCEPT !.step = step, !.wait = wait, !.http = "idle", !.ans = "none",
                                  !.seen = {}]

\* the lane of a request class: wing; cancel; normal (rest, roll and poll)
LaneOf(j) ==
  IF j.op = "wing" THEN "wing" ELSE IF j.step \in {"delete", "stray"} THEN "cancel" ELSE "normal"

Running(lane) == { j \in jobs : j.http = "running" /\ LaneOf(j) = lane }
LaneFull(lane) == Cardinality(Running(lane)) >= Workers[lane]

OneOf(S) == CHOOSE x \in S : TRUE

\* the order whose slot a call holds: a create is keyed by its client id and a
\* DELETE by the venue's id, so only the DELETEs of one order exclude each other
Slot(j) ==
  IF j.step = "delete" THEN {j.id} ELSE IF j.step = "stray" THEN {OneOf(j.seen)} ELSE {}

_with_slot(j) == \A k \in jobs \ {j} : k.http = "running" => Slot(k) \cap Slot(j) = {}

\* a worker of the lane takes the call
CanRun(j) == j.http = "queued" /\ ~LaneFull(LaneOf(j)) /\ _with_slot(j)

_run_off_loop(j) ==
  /\ j \in jobs /\ CanRun(j)
  /\ jobs' = (jobs \ {j}) \cup {[j EXCEPT !.http = "running"]}
  /\ UNCHANGED pacer

\* the worker hands the answer to the loop
Answer(j, ans, seen) ==
  jobs' = (jobs \ {j}) \cup {[j EXCEPT !.http = "answered", !.ans = ans, !.seen = seen]}

-----------------------------------------------------------------------------

\* A write that may wait leaves the reserve behind, whatever other writes are paced
\* at the same time: the bucket that only such writes draw from holds the reserve
\* after each of them (WriteTokenBucket: "never draws the bucket BELOW reserve",
\* "no double-spend under concurrency").
HeadroomKept == [][sent' < sent => sent' >= Reserve]_<<jobs, tokens, sent>>
=============================================================================
