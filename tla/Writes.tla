------------------------------- MODULE Writes -------------------------------
(***************************************************************************)
(* The protocol of the off-loop executor over the writer                   *)
(* (v33/async_executor.py, V33AsyncExecutor): creates with their pre-place *)
(* check, cancels that may race a create in flight, the cancel of a stray, *)
(* the wing takes in sub-batches, the stand-down and its sweep, and the    *)
(* boot sweep of what a crashed process left (v33/executor.py).            *)
(*                                                                         *)
(* What the ladder decides is modelled in Ladder; here the core only       *)
(* places, cancels and believes what it is told.  An order is one lot, and *)
(* its venue id and its client id are one value.                           *)
(*                                                                         *)
(* Abstractions                                                            *)
(*  - the status reads after a DELETE are part of the step that handles    *)
(*    its answer: the order is off the book, or a retry will look again;   *)
(*  - a confirmed cancel is never too old to be told from a resting order  *)
(*    (CANCEL_SETTLE_S);                                                   *)
(*  - amends are modelled in Ladder, the fills of the wings in Wings.      *)
(***************************************************************************)
EXTENDS Writer

CONSTANTS
  Ladders,      \* the ladders of an hour: k_rungs, and the price of each order
  WingOrders,   \* the orders of one wing take
  WingBatchMax, \* WING_BATCH_MAX_ORDERS
  MaxRejects,   \* CONSECUTIVE_REJECT_STANDDOWN
  MaxRetries,   \* CANCEL_RETRY_ATTEMPTS
  MaxFaults     \* bound on refused, throttled, lost and unreadable round trips

\* the ids this process mints are its own; a ladder prices every order of the hour
ASSUME WritesAssumption ==
  /\ IsFiniteSet(Coids) /\ Coids \cap Strays = {}
  /\ Ladders \subseteq [k_rungs : Nat, price : [Coids -> Nat]]
  /\ WingOrders \in Nat /\ WingBatchMax \in Nat /\ MaxRetries \in Nat /\ MaxFaults \in Nat

VARIABLES
  ladder,      \* the ladder of this hour
  core,        \* what the core believes of its orders
  told,        \* the fill the last OrderCancelled of an order carried
  venue,       \* the orders at the exchange
  rest_book,   \* the status of the orders the executor remembers
  inflight,    \* _inflight_creates
  pending,     \* _cancel_pending
  oids,        \* _cancel_oids_inflight
  stand_down,  \* stand_down_reason
  swept,       \* _standdown_swept
  rejects,     \* _consecutive_rejects
  booted,      \* the boot sweep has run
  faults       \* the round trips that went wrong so far

exec == <<rest_book, inflight, pending, oids, stand_down, swept, rejects, booted>>
world == <<ladder, venue, faults>>
vars == <<jobs, tokens, sent, core, told, exec, ladder, venue, faults>>

Orders == Coids \cup Strays
K == ladder.k_rungs
Price == ladder.price

Init ==
  /\ jobs = {} /\ tokens = Size /\ sent = Size
  /\ ladder \in Ladders
  /\ core = [c \in Coids |-> "new"] /\ told = [c \in Coids |-> "nothing"]
  /\ \E left \in SUBSET Strays :
       venue = [o \in Orders |-> IF o \in left THEN "resting" ELSE "none"]
  /\ rest_book = [c \in Coids |-> "unseen"]
  /\ inflight = {} /\ pending = {} /\ oids = {}
  /\ stand_down = "no" /\ swept = FALSE /\ rejects = 0 /\ booted = FALSE /\ faults = 0

\* the core is told that its order is off the book, and how much of it was filled
OrderCancelled(c, filled) ==
  /\ told' = [told EXCEPT ![c] = filled]
  /\ core' = [core EXCEPT ![c] = IF @ = "dropped" THEN @ ELSE "off"]

StandDown(reason) == stand_down' = IF stand_down = "no" THEN reason ELSE stand_down

-----------------------------------------------------------------------------
(* The exchange, and the boot sweep *)

\* cancel_stale_open_orders: before the loop starts, every order of this roster
\* is pulled; the list may be unreadable, and a DELETE may fail
cancel_stale_open_orders(pulled) ==
  /\ ~booted
  /\ booted' = TRUE
  /\ pulled \subseteq { o \in Strays : venue[o] = "resting" }
  /\ venue' = [o \in Orders |-> IF o \in pulled THEN "gone" ELSE venue[o]]
  /\ UNCHANGED <<ladder, jobs, pacer, core, told, rest_book, inflight, pending, oids, stand_down,
                 swept, rejects, faults>>

VenueFill(o) ==
  /\ booted /\ venue[o] = "resting"
  /\ venue' = [venue EXCEPT ![o] = "filled"]
  /\ UNCHANGED <<ladder, jobs, pacer, core, told, exec, faults>>

\* the fill notice of an order the executor can attribute
on_fill(c) ==
  /\ venue[c] = "filled" /\ core[c] \in {"live", "cancelling"} /\ rest_book[c] = "live"
  /\ rest_book' = [rest_book EXCEPT ![c] = "hit"]
  /\ core' = [core EXCEPT ![c] = IF @ = "live" THEN "off" ELSE @]
  /\ UNCHANGED <<jobs, pacer, told, world, inflight, pending, oids, stand_down, swept,
                 rejects, booted>>

-----------------------------------------------------------------------------
(* The proxy round trips *)

\* a round trip that goes wrong may go wrong again when it is retried
Fault(n) == faults + n <= MaxFaults /\ faults' = faults + n

\* a POST is sent once: taken, refused, throttled, or answered by nothing while
\* the exchange may have taken it
rest_post(j) ==
  /\ j \in jobs /\ j.http = "running" /\ j.step = "post"
  /\ LET rests == j.op = "create" IN
     \E ans \in {"ok", "refused", "429", "lost"}, taken \in BOOLEAN :
       /\ ans = "ok" => taken
       /\ ans \in {"refused", "429"} => ~taken
       /\ Fault(IF ans = "ok" \/ j.tries > 0 THEN 0 ELSE 1)
       /\ venue' = IF taken /\ rests THEN [venue EXCEPT ![j.id] = "resting"] ELSE venue
       /\ Answer(j, ans, {})
  /\ UNCHANGED <<ladder, pacer, core, told, exec>>

\* a DELETE pulls the order and may still come back as a failure
rest_delete(j) ==
  /\ j \in jobs /\ j.http = "running" /\ j.step \in {"delete", "stray"}
  /\ \E o \in Slot(j), ans \in {"ok", "404", "failed"}, pulled \in BOOLEAN :
       /\ ans = "ok" => pulled
       /\ ans = "404" => ~pulled /\ venue[o] # "resting"
       /\ pulled => venue[o] = "resting"
       /\ Fault(IF ans = "failed" /\ j.tries = 0 THEN 1 ELSE 0)
       /\ venue' = IF pulled THEN [venue EXCEPT ![o] = "gone"] ELSE venue
       /\ Answer(j, ans, j.seen)
  /\ UNCHANGED <<ladder, pacer, core, told, exec>>

\* the resting orders of this roster; a list that cannot be read is an empty one
rest_get(j) ==
  /\ j \in jobs /\ j.http = "running" /\ j.step \in {"list", "relist"}
  /\ \/ Answer(j, "ok", { o \in Orders : venue[o] = "resting" }) /\ Fault(0)
     \/ Answer(j, "ok", {}) /\ Fault(1)
  /\ UNCHANGED <<ladder, pacer, core, told, venue, exec>>

-----------------------------------------------------------------------------
(* PLACE_REST *)

\* the core fills a free place of its ladder: fewer than K live, one per price, and
\* the price of a cancel it awaits is held; one that was cancelled without a venue
\* id ("dropped") holds nothing
MayPlace(c) ==
  /\ core[c] = "new" /\ Cardinality({ d \in Coids : core[d] = "live" }) < K
  /\ \A d \in Coids : core[d] \in {"live", "cancelling"} => Price[d] # Price[c]

\* _place_rest_async: in flight from here on, then the pacer, then the list;
\* a stood-down executor refuses
_place_rest_async(c) ==
  /\ booted /\ MayPlace(c)
  /\ \/ /\ stand_down # "no"
        /\ OrderCancelled(c, "none")
        /\ UNCHANGED <<jobs, pacer, inflight>>
     \/ /\ stand_down = "no"
        /\ core' = [core EXCEPT ![c] = "live"]
        /\ inflight' = inflight \cup {c}
        /\ acquire_async(CostCreate, FALSE, FALSE)
        /\ LET w == PaceWait(CostCreate, FALSE, FALSE)  j == NewJob("create", c) IN
           jobs' = jobs \cup {IF w > 0 THEN Sleep(j, "paced", w) ELSE Await(j, "list")}
        /\ UNCHANGED told
  /\ UNCHANGED <<world, rest_book, pending, oids, stand_down, swept, rejects, booted>>

\* _skip_before_post, then the POST: nothing is sent for an order that was
\* cancelled or an executor that stood down since
_skip_before_post(j) ==
  IF j.id \in pending \/ stand_down # "no"
  THEN /\ OrderCancelled(j.id, "none")
       /\ pending' = pending \ {j.id} /\ inflight' = inflight \ {j.id}
       /\ jobs' = jobs \ {j}
  ELSE /\ jobs' = (jobs \ {j}) \cup {Await(j, "post")}
       /\ UNCHANGED <<told, core, pending, inflight>>

\* mutant: orders whose DELETE is in flight still count as resting
CancellingCounts(seen) == { o \in seen : o \in Strays \/ rest_book[o] \notin {"cancelled", "filled"} }

\* _filter_phantoms and _exclude_cancelling: the list lags the engine, a cancel
\* that was confirmed or is under way is not resting
_exclude_cancelling(seen) ==
  { o \in seen : /\ o \in Strays \/ rest_book[o] \notin {"cancelled", "filled"}
                 /\ o \notin oids }

\* an order the executor does not know, and the two ways the ladder is not as it should be
StraysOf(seen) == { o \in seen : o \in Strays \/ rest_book[o] = "unseen" }
Overflow(seen) == Cardinality(seen) >= K
DupPrice(seen, c) == \E o \in seen \ StraysOf(seen) : Price[o] = Price[c]

_invariant_verdict(seen, c) ==
  IF Overflow(seen) \/ DupPrice(seen, c) THEN "violation"
  ELSE IF StraysOf(seen) # {} THEN "strays" ELSE "fine"

\* _pre_place_invariant_async: anything odd is looked at twice; strays are
\* cancelled one by one, a full ladder or a doubled price ends the hour
_pre_place_invariant_async(j) ==
  /\ j \in jobs /\ j.op = "create" /\ j.http = "answered" /\ j.step \in {"list", "relist"}
  /\ LET seen == _exclude_cancelling(j.seen)
         verdict == _invariant_verdict(seen, j.id)
     IN
     \/ /\ verdict = "fine"
        /\ _skip_before_post(j)
        /\ UNCHANGED <<pacer, stand_down>>
     \/ /\ verdict # "fine" /\ j.step = "list"
        /\ jobs' = (jobs \ {j}) \cup {Sleep(j, "settle", RetryWait)}
        /\ UNCHANGED <<pacer, told, core, pending, inflight, stand_down>>
     \/ /\ verdict = "strays" /\ j.step = "relist"
        /\ acquire_async(CostCancel, TRUE, FALSE)
        /\ jobs' = (jobs \ {j}) \cup {[Await(j, "stray") EXCEPT !.seen = StraysOf(seen)]}
        /\ UNCHANGED <<told, core, pending, inflight, stand_down>>
     \/ /\ verdict = "violation" /\ j.step = "relist"
        /\ StandDown("rest_invariant_violation")
        /\ OrderCancelled(j.id, "none")
        /\ pending' = pending \ {j.id} /\ inflight' = inflight \ {j.id}
        /\ jobs' = jobs \ {j}
        /\ UNCHANGED pacer
  /\ UNCHANGED <<world, rest_book, oids, swept, rejects, booted>>

\* _cancel_stray_async: whatever the DELETE says, the next stray, then the POST
_cancel_stray_async(j) ==
  /\ j \in jobs /\ j.http = "answered" /\ j.step = "stray"
  /\ LET rest == j.seen \ Slot(j) IN
     IF rest = {}
     THEN _skip_before_post(j) /\ UNCHANGED pacer
     ELSE /\ acquire_async(CostCancel, TRUE, FALSE)
          /\ jobs' = (jobs \ {j}) \cup {[Await(j, "stray") EXCEPT !.seen = rest]}
          /\ UNCHANGED <<told, core, pending, inflight>>
  /\ UNCHANGED <<world, rest_book, oids, stand_down, swept, rejects, booted>>

\* the answer to a create: owned, throttled twice or refused (nothing rests), or
\* of unknown outcome (it may rest: the hour stands down)
_place_rest_inflight_async(j) ==
  /\ j \in jobs /\ j.op = "create" /\ j.step = "post" /\ j.http = "answered"
  /\ ~(j.ans = "429" /\ j.tries = 0)
  /\ LET c == j.id  cancelled == c \in pending IN
     /\ pending' = pending \ {c}
     /\ rest_book' = [rest_book EXCEPT ![c] =
          CASE j.ans = "ok" -> "live" [] j.ans = "lost" -> "unknown" [] OTHER -> @]
     /\ rejects' = CASE j.ans = "ok" -> 0 [] j.ans = "429" -> rejects [] OTHER -> rejects + 1
     /\ CASE j.ans = "lost" -> StandDown("post_unknown_outcome")
          [] j.ans = "refused" /\ rejects' >= MaxRejects -> StandDown("rest_rejected")
          [] OTHER -> UNCHANGED stand_down
     /\ \/ /\ j.ans # "ok"
           /\ OrderCancelled(c, "none")
           /\ jobs' = jobs \ {j} /\ inflight' = inflight \ {c}
           /\ UNCHANGED oids
        \/ /\ j.ans = "ok" /\ ~cancelled
           /\ jobs' = jobs \ {j} /\ inflight' = inflight \ {c}
           /\ UNCHANGED <<told, core, oids>>
        \/ /\ j.ans = "ok" /\ cancelled   \* _cancel_after_ack_async
           /\ jobs' = (jobs \ {j}) \cup {[Await(j, "delete") EXCEPT !.tries = 0]}
           /\ oids' = oids \cup {c}
           /\ UNCHANGED <<told, core, inflight>>
  /\ UNCHANGED <<pacer, world, swept, booted>>

-----------------------------------------------------------------------------
(* CANCEL_REST *)

HasVenueId(c) == rest_book[c] \in {"live", "hit", "cancelled", "filled", "cancel_failed"}

\* mutant: the cancel of a create in flight reports a cancel (the code before GATE C)
CancelOfUnackedLies(c) ==
  /\ ~HasVenueId(c) /\ c \in inflight
  /\ OrderCancelled(c, "none")
  /\ UNCHANGED <<jobs, pending, oids>>

\* the create is in flight: the cancel waits for its answer
CancelDeferred(c) ==
  /\ ~HasVenueId(c) /\ c \in inflight
  /\ pending' = pending \cup {c}
  /\ core' = [core EXCEPT ![c] = "dropped"]
  /\ UNCHANGED <<jobs, told, oids>>

\* a live order without a venue id is always in flight here: the no-op the code
\* keeps for an order it has never heard of is not met
_cancel_rest_async(c) ==
  /\ core[c] = "live"
  /\ acquire_async(CostCancel, TRUE, FALSE)
  /\ \/ CancelDeferred(c)
     \/ /\ HasVenueId(c) /\ c \notin oids
        /\ jobs' = jobs \cup {Await(NewJob("cancel", c), "delete")}
        /\ oids' = oids \cup {c}
        /\ core' = [core EXCEPT ![c] = "cancelling"]
        /\ UNCHANGED <<pending, told>>
     \/ /\ HasVenueId(c) /\ c \in oids    \* the DELETE in flight resolves it
        /\ core' = [core EXCEPT ![c] = "cancelling"]
        /\ UNCHANGED <<jobs, pending, told, oids>>
  /\ UNCHANGED <<world, rest_book, inflight, stand_down, swept, rejects, booted>>

\* _finish_cancel: the status is final, the fill that came first is reported
_finish_cancel(j) ==
  LET filled == venue[j.id] = "filled" IN
  /\ rest_book' = [rest_book EXCEPT ![j.id] = IF filled THEN "filled" ELSE "cancelled"]
  /\ OrderCancelled(j.id, IF filled THEN "all" ELSE "none")
  /\ oids' = oids \ {j.id} /\ inflight' = inflight \ {j.id}
  /\ jobs' = jobs \ {j}
  /\ UNCHANGED <<stand_down, faults>>

\* _delete_and_resolve_async with _resolve_cancel_success_async and
\* _cancel_nonok_async: a DELETE that pulled nothing is settled by the status of
\* the order, tried again while that says resting or says nothing, and given up
\* with a stand-down
_delete_and_resolve_async(j) ==
  /\ j \in jobs /\ j.step = "delete" /\ j.http = "answered"
  /\ \/ /\ j.ans = "ok" \/ venue[j.id] # "resting"
        /\ _finish_cancel(j)
     \/ /\ j.ans # "ok"
        /\ IF venue[j.id] = "resting" \/ j.tries > 0 THEN Fault(0) ELSE Fault(1)  \* the status is unreadable
        /\ IF j.tries < MaxRetries
           THEN /\ jobs' = (jobs \ {j}) \cup {[Sleep(j, "backoff", RetryWait) EXCEPT !.tries = @ + 1]}
                /\ UNCHANGED <<rest_book, told, core, oids, inflight, stand_down>>
           ELSE /\ rest_book' = [rest_book EXCEPT ![j.id] = "cancel_failed"]
                /\ StandDown("cancel_failed")
                /\ OrderCancelled(j.id, "none")
                /\ oids' = oids \ {j.id} /\ inflight' = inflight \ {j.id}
                /\ jobs' = jobs \ {j}
  /\ UNCHANGED <<ladder, pacer, venue, pending, swept, rejects, booted>>

-----------------------------------------------------------------------------
(* The stand-down *)

SweepTargets == { c \in Coids : rest_book[c] \in {"live", "hit", "cancel_failed"} }

\* mutant: the creates in flight are left alone
NoneDeferred == pending

\* a create in flight is cancelled when it answers, or is not sent
DeferredCancels == pending \cup inflight

\* standdown_sweep_async, once: the cancels of creates in flight wait,
\* every other owned order that may rest is cancelled now
standdown_sweep_async ==
  /\ stand_down # "no" /\ ~swept
  /\ swept' = TRUE
  /\ pending' = DeferredCancels
  /\ jobs' = jobs \cup { Await(NewJob("cancel", c), "delete") : c \in SweepTargets \ oids }
  /\ oids' = oids \cup SweepTargets
  /\ LET cost == CostCancel * Cardinality(SweepTargets) IN
     tokens' = tokens - cost /\ Leave(cost, TRUE)
  /\ UNCHANGED <<core, told, world, rest_book, inflight, stand_down, rejects, booted>>

-----------------------------------------------------------------------------
(* Wing takes *)

\* wing_batch_max_orders and split_wing_batches: what fits the bucket at once
wing_batch_max_orders == Max({1, Min({WingBatchMax, Size \div CostCreate})})
SubBatch(i) == Min({wing_batch_max_orders, WingOrders - (i - 1) * wing_batch_max_orders})
SubBatches == { i \in 1 .. WingOrders : SubBatch(i) > 0 }

\* the pacer, then the POST of sub-batch i: the first is sent now, the others fit
SendSubBatch(j, i) ==
  LET cost == CostCreate * SubBatch(i)  w == PaceWait(cost, TRUE, i > 1)
      k == [j EXCEPT !.batch = i, !.tries = 0]
  IN
  /\ acquire_async(cost, TRUE, i > 1)
  /\ jobs' = (jobs \ {j}) \cup {IF w > 0 THEN Sleep(k, "paced", w) ELSE Await(k, "post")}

\* a stood-down executor still hedges
_take_wings_send(w) ==
  /\ booted /\ w \in Wings /\ ~ \E j \in jobs : j.op = "wing"
  /\ \E i \in SubBatches : i = 1 /\ SendSubBatch(NewJob("wing", w), i)
  /\ UNCHANGED <<core, told, world, exec>>

\* the answer of one sub-batch: the next one, whatever this one said
NextSubBatch(j) ==
  /\ j \in jobs /\ j.op = "wing" /\ j.http = "answered"
  /\ ~(j.ans = "429" /\ j.tries = 0)
  /\ IF j.batch + 1 \in SubBatches
     THEN SendSubBatch(j, j.batch + 1)
     ELSE jobs' = jobs \ {j} /\ UNCHANGED pacer
  /\ UNCHANGED <<core, told, world, exec>>

-----------------------------------------------------------------------------
(* Waking up *)

\* _apost: a 429 executed nothing, the same id is sent once more after a pause
_apost(j) ==
  /\ j \in jobs /\ j.step = "post" /\ j.http = "answered" /\ j.ans = "429" /\ j.tries = 0
  /\ jobs' = (jobs \ {j}) \cup {[Sleep(j, "throttled", RetryWait) EXCEPT !.tries = 1]}
  /\ UNCHANGED <<pacer, core, told, world, exec>>

PacedCost(j) == IF j.op = "wing" THEN CostCreate * SubBatch(j.batch) ELSE CostCreate

\* a sleep is over: the pacer's, the 429's, the recheck's, the retry's
Wake(j) ==
  /\ j \in jobs /\ Due(j)
  /\ jobs' = (jobs \ {j}) \cup
       {Await(j, CASE j.step = "paced" -> (IF j.op = "create" THEN "list" ELSE "post")
                   [] j.step = "throttled" -> "post"
                   [] j.step = "settle" -> "relist"
                   [] OTHER -> "delete")}
  /\ IF j.step = "paced" THEN Leave(PacedCost(j), j.op # "create") ELSE UNCHANGED sent
  /\ UNCHANGED <<tokens, core, told, world, exec>>

Core ==
  \/ \E c \in Coids : _place_rest_async(c) \/ _cancel_rest_async(c)
  \/ \E w \in Wings : _take_wings_send(w)

Venue ==
  \/ \E pulled \in SUBSET Strays : cancel_stale_open_orders(pulled)
  \/ \E c \in Coids : VenueFill(c)

Proxy == \E j \in jobs : rest_post(j) \/ rest_delete(j) \/ rest_get(j)

Dispatch == \E j \in jobs : _run_off_loop(j) /\ UNCHANGED <<core, told, world, exec>>

Loop ==
  \/ \E c \in Coids : on_fill(c)
  \/ \E j \in jobs :
       \/ _pre_place_invariant_async(j) \/ _cancel_stray_async(j)
       \/ _place_rest_inflight_async(j) \/ _delete_and_resolve_async(j)
       \/ NextSubBatch(j) \/ _apost(j) \/ Wake(j)
  \/ standdown_sweep_async

Time == Tick /\ UNCHANGED <<core, told, world, exec>>

\* an idle worker takes a call at once
Next ==
  IF \E j \in jobs : CanRun(j) THEN Dispatch
  ELSE Core \/ Venue \/ Proxy \/ Loop \/ Time

Spec == Init /\ [][Next]_vars

-----------------------------------------------------------------------------
\* What the core is told of an order is so: one reported off the book with
\* nothing filled neither rests nor was filled, unless the executor has said that
\* it does not know (post_unknown_outcome, cancel_failed).  Before GATE C a
\* cancel of a create in flight was "a lie the core acts on".
CancelledMeansGone ==
  \A c \in Coids : told[c] = "none" =>
    venue[c] \notin {"resting", "filled"} \/ rest_book[c] \in {"unknown", "cancel_failed"}

\* After the stand-down sweep, once nothing is under way, no order of this
\* process rests that the executor could have cancelled (standdown_sweep_async,
\* GATE C: "never rests unowned").
NothingLeftResting ==
  swept /\ jobs = {} =>
    \A c \in Coids : venue[c] = "resting" => rest_book[c] \in {"unknown", "cancel_failed"}

\* The pre-place check ends the hour only over an order that may really stand in
\* the way: one whose outcome is unknown, one no cancel could pull, one an earlier
\* process left, or one the core dropped before its create was answered; never over
\* an order whose cancel is under way or confirmed (_exclude_cancelling: "engine
\* truth beats the lagging list read").
NoFalseViolation ==
  stand_down = "rest_invariant_violation" =>
    \/ \E o \in Strays : venue[o] # "none"
    \/ \E c \in Coids : rest_book[c] \in {"unknown", "cancel_failed"} \/ core[c] = "dropped"
=============================================================================
