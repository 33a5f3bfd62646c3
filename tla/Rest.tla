-------------------------------- MODULE Rest --------------------------------
(***************************************************************************)
(* The V3.2 strategy: one resting bucket-NO order per hour, its wings, the *)
(* synchronous executor and the driver (pilot/service/v32/core.py,         *)
(* v32/executor.py, run_v32.py).  One thread runs everything: an external  *)
(* event (a tick, a fill notice, a poll) is decided, the actions it emits  *)
(* are executed in order as blocking requests, and the events those return *)
(* are decided until the queue is empty.  The exchange moves between any   *)
(* two requests.                                                           *)
(*                                                                         *)
(* Abstractions                                                            *)
(*  - prices are what the decision asks of them: whether a quote may be    *)
(*    held, whether both wings are priced, whether the desired price moved *)
(*    by the tolerance, whether a retry keeps the lock floor;              *)
(*  - time is the phase of the window;                                     *)
(*  - a count is a number of whole lots;                                   *)
(*  - a create is post-only and never fills at once;                       *)
(*  - a trade id is the order and the lots filled on it so far.            *)
(***************************************************************************)
EXTENDS Integers, Sequences, FiniteSets, FiniteSetsExt

CONSTANTS
  Buckets,      \* bucket floors
  Allotments,   \* the values of params.contracts
  Modes,        \* the effective modes: "armed", "dry"
  Contexts,     \* what a tick may read of the books (see Context)
  MaxOrders,    \* bound on the orders created
  MaxCoids,     \* bound on the client ids minted for rests
  MaxTicks,     \* bound on the ticks
  MaxRejects,   \* refused creates in a row that stand the hour down (3 in the code)
  MaxFaults     \* bound on the failed requests and the lost notices

None == 0
Sides == {"yes", "no"}
Coids == 1..MaxCoids
\* the order ids of the exchange; the dry executor answers with the client id for order id
Oids == 1..Max({MaxOrders, MaxCoids})

\* what _recompute_context leaves for the decision: the spot bucket, both wings priced, no reason
\* against a quote, a price that moved by tol after deb_ms, a retry that keeps lock_floor; and what
\* the clock says: the phase of the window, the replace rate above its alarm
Context == [spot : Buckets \cup {None}, wings : BOOLEAN, quote : BOOLEAN, moved : BOOLEAN,
            lock : BOOLEAN, phase : {"warmup", "window", "past", "cutoff"}, alarm : BOOLEAN]

ASSUME RestAssumption ==
  /\ IsFiniteSet(Buckets) /\ None \notin Buckets
  /\ Allotments \subseteq Nat \ {0} /\ Modes \subseteq {"armed", "dry"}
  /\ \A c \in Contexts : c \in Context /\ (c.wings => c.spot # None) /\ (c.quote => c.wings)
  /\ MaxOrders \in Nat \ {0} /\ MaxCoids \in Nat /\ MaxTicks \in Nat /\ MaxFaults \in Nat
  /\ MaxRejects \in Nat \ {0}

VARIABLES
  mode,     \* the effective mode of the window
  core,     \* V32State (see NewState)
  exec,     \* LiveExecutor / FrozenExecutor: [book, by_oid, gone, rejects, down], and whether the
            \* startup sweep is done
  venue,    \* the orders created, by order id
  notices,  \* fill notices under way
  queue,    \* events the pump has still to decide
  acts,     \* actions of the event just decided, still to execute
  ticks,    \* ticks so far
  faults    \* failed requests and lost notices so far

vars == <<mode, core, exec, venue, notices, queue, acts, ticks, faults>>

NoOrder == [coid |-> None, oid |-> None, count |-> 0]
NoRecord == [oid |-> None, count |-> 0, bucket |-> None, status |-> "none", confirmed |-> FALSE]

NewState(contracts) ==
  [contracts |-> contracts, remaining |-> contracts, phase |-> "warmup",
   live |-> NoOrder, pending |-> NoOrder, bucket |-> None, done |-> FALSE, stood_down |-> FALSE,
   amend |-> FALSE, cancel |-> FALSE, awaiting |-> FALSE,
   booked |-> [c \in Coids |-> 0], cancel_ctx |-> [o \in Oids |-> None],
   cross |-> [o \in Oids |-> 0], batches |-> <<>>, coid_seq |-> 0,
   spot |-> None, wings |-> FALSE, lock |-> FALSE, out |-> <<>>]

\* what a crashed process may have left on the book: this process has no record of it
Stray == [coid |-> None, rem |-> 1, filled |-> 0, open |-> TRUE]

Init ==
  /\ mode \in Modes
  /\ core \in {NewState(n) : n \in Allotments}
  /\ exec = [book |-> [c \in Coids |-> NoRecord], by_oid |-> [o \in Oids |-> None],
             gone |-> None, rejects |-> 0, down |-> FALSE, swept |-> mode = "dry"]
  /\ venue \in IF mode = "armed" THEN {<<>>, <<Stray>>} ELSE {<<>>}
  /\ notices = {}
  /\ queue = <<>> /\ acts = <<>> /\ ticks = 0 /\ faults = 0

-----------------------------------------------------------------------------
(* The pure core: operators on the state s; s.out collects the actions *)

Emit(s, a) == [s EXCEPT !.out = Append(@, a)]

Act(kind, order, count, new) ==
  [kind |-> kind, coid |-> order.coid, oid |-> order.oid, count |-> count, new |-> new]

Event(kind, coid, oid, n) == [kind |-> kind, coid |-> coid, oid |-> oid, n |-> n]

_take_batch(b) ==
  [b EXCEPT !.taken = TRUE, !.legs = [d \in Sides |-> "pending"]]

_retry_batch(b) ==
  [b EXCEPT !.legs = [d \in Sides |-> IF @[d] = "unfilled" THEN "pending" ELSE @[d]]]

\* at the cutoff an incomplete batch is one-legged
GiveUp(b) == [b EXCEPT !.one_legged = @ \/ ~b.completed]

\* what a batch sends in this step: both wings the first time, then every unfilled one while the
\* lock floor is kept
Sends(b, lock) ==
  CASE b.completed -> {}
    [] ~b.completed /\ ~b.taken -> {"both"}
    [] ~b.completed /\ b.taken -> IF lock THEN {d \in Sides : b.legs[d] = "unfilled"} ELSE {}

AllSends(batches, lock) == UNION {{i} \X Sends(batches[i], lock) : i \in DOMAIN batches}

_wing_step(s, now) ==
  IF s.phase = "cutoff"
  THEN [s EXCEPT !.batches = [i \in DOMAIN @ |-> GiveUp(@[i])]]
  ELSE IF ~now.wings THEN s
  ELSE LET step(b) == CASE b.completed -> b
                        [] ~b.completed /\ ~b.taken -> _take_batch(b)
                        [] ~b.completed /\ b.taken -> IF now.lock THEN _retry_batch(b) ELSE b
           n == Cardinality(AllSends(s.batches, now.lock))
       IN [s EXCEPT !.batches = [i \in DOMAIN @ |-> step(@[i])],
                    !.out = @ \o [i \in 1..n |-> Act("take", NoOrder, 0, None)]]

NewBatch(n) ==
  [n |-> n, taken |-> FALSE, completed |-> FALSE, one_legged |-> FALSE,
   legs |-> [d \in Sides |-> "none"]]

\* what is left of the allotment after n more lots
Left(s, n) == IF s.remaining > n THEN s.remaining - n ELSE 0

\* a fill of n lots of order coid: its own batch; the last lot ends the allotment
_book_rest_delta(s, coid, n, now) ==
  LET left == Left(s, n)
      t == [s EXCEPT !.batches = Append(@, NewBatch(n)), !.booked[coid] = @ + n,
                     !.remaining = left]
      u == IF left = 0
           THEN [t EXCEPT !.done = TRUE, !.live = NoOrder, !.pending = NoOrder, !.cancel = FALSE,
                          !.amend = FALSE]
           ELSE IF t.live.coid = coid THEN [t EXCEPT !.live.count = left] ELSE t
  IN _wing_step(u, now)

_cancel_live_if_any(s) ==
  LET t == IF s.live = NoOrder \/ s.cancel THEN s
           ELSE [Emit(s, Act("cancel", s.live, 0, None)) EXCEPT
                   !.cancel_ctx = IF s.live.oid = None THEN @ ELSE [@ EXCEPT ![s.live.oid] = s.live.coid],
                   !.live = NoOrder, !.cancel = TRUE]
  IN IF t.pending = NoOrder THEN t
     ELSE [Emit(t, Act("cancel", t.pending, 0, None)) EXCEPT !.pending = NoOrder]

_emit_place(s) ==
  LET order == [coid |-> s.coid_seq + 1, oid |-> None, count |-> s.remaining]
  IN [Emit(s, Act("place", order, s.remaining, None)) EXCEPT
        !.coid_seq = @ + 1, !.pending = order, !.bucket = s.spot]

_emit_amend(s) ==
  [Emit(s, Act("amend", s.live, s.remaining, s.coid_seq + 1)) EXCEPT
     !.coid_seq = @ + 1, !.amend = TRUE]

\* mutant: the bucket is left before what rests on it is cancelled
LeaveUncancelled(s) == [s EXCEPT !.live = NoOrder, !.awaiting = TRUE, !.bucket = None]

\* cancel what rests on the bucket that is no longer the spot, then wait for the confirmation
LeaveBucket(s) ==
  LET t == _cancel_live_if_any(s)
  IN [t EXCEPT !.cancel = @ \/ t.out # s.out, !.live = NoOrder, !.awaiting = TRUE, !.bucket = None]

\* the replace-rate alarm latches stood_down; every other reason against a quote only cancels
_requote(s, ctx) ==
  CASE s.done -> _cancel_live_if_any(s)
    [] ~s.done /\ ctx.alarm /\ ~s.stood_down -> [_cancel_live_if_any(s) EXCEPT !.stood_down = TRUE]
    [] OTHER ->
       IF s.stood_down \/ s.phase \in {"past", "cutoff"} THEN _cancel_live_if_any(s)
       ELSE IF s.phase = "warmup" THEN s
       ELSE IF ~ctx.quote THEN _cancel_live_if_any(s)
       ELSE IF s.bucket \notin {None, s.spot} /\ ~s.amend THEN LeaveBucket(s)
       ELSE IF s.pending # NoOrder \/ (s.awaiting /\ s.cancel) \/ s.amend \/ s.remaining < 1 THEN s
       ELSE IF s.live = NoOrder THEN _emit_place([s EXCEPT !.awaiting = FALSE])
       ELSE IF ctx.moved THEN _emit_amend(s)
       ELSE s

\* a book update or a clock tick
Tick(s, ctx) ==
  _requote(_wing_step([s EXCEPT !.spot = ctx.spot, !.wings = ctx.wings, !.lock = ctx.lock,
                                !.phase = ctx.phase], ctx), ctx)

_apply_ack(s, e) ==
  IF s.pending.coid # e.coid THEN s
  ELSE [s EXCEPT !.live = [s.pending EXCEPT !.oid = e.oid], !.pending = NoOrder, !.cancel = FALSE]

\* mutant: the lots of an order the core dropped when it sent the cancel are not booked
CancelledLiveOnly(s, e) == IF s.live # NoOrder /\ s.live.oid = e.oid THEN s.live.coid ELSE None

\* the order a cancel confirmation is about: the live one, the pending one, or one whose cancel
\* was sent and that the core dropped
CancelledCoid(s, e) ==
  CASE s.live # NoOrder /\ s.live.oid = e.oid -> s.live.coid
    [] s.pending # NoOrder /\ s.pending.oid = e.oid -> s.pending.coid
    [] OTHER -> IF e.oid = None THEN None ELSE s.cancel_ctx[e.oid]

\* the confirmation of a cancel; its fill count is cumulative, so only the lots above those
\* booked for the order are new
_apply_cancelled(s, e, now) ==
  LET hitLive == s.live # NoOrder /\ s.live.oid = e.oid
      hitPending == ~hitLive /\ s.pending # NoOrder /\ s.pending.oid = e.oid
      coid == CancelledCoid(s, e)
      t == [s EXCEPT !.live = IF hitLive THEN NoOrder ELSE @,
                     !.pending = IF hitPending THEN NoOrder ELSE @,
                     !.cancel = FALSE, !.amend = FALSE]
  IN IF coid # None /\ e.n > t.booked[coid]
     THEN _book_rest_delta(t, coid, e.n - t.booked[coid], now)
     ELSE t

\* a rest fill: the lots of an amend that crossed were booked by its confirmation already
_apply_fill(s, e, now) ==
  LET order == IF s.live.coid = e.coid THEN s.live ELSE IF s.pending.coid = e.coid THEN s.pending
               ELSE NoOrder
      oid == IF order.oid = None THEN e.oid ELSE order.oid
      skip == IF oid = None THEN 0 ELSE Min({s.cross[oid], e.n})
      t == IF oid = None THEN s ELSE [s EXCEPT !.cross[oid] = @ - skip]
  IN IF order = NoOrder THEN s
     ELSE IF e.n > skip THEN _book_rest_delta(t, order.coid, e.n - skip, now) ELSE t

\* the answers of the wing orders sent: any fill counts as the whole leg; a batch whose legs are
\* all filled is complete
Answered(s, e, i) ==
  LET legs == [d \in Sides |-> IF <<i, d>> \notin e.sent THEN s.batches[i].legs[d]
                               ELSE IF <<i, d>> \in e.got THEN "filled" ELSE "unfilled"]
  IN [s.batches[i] EXCEPT !.legs = legs]

_maybe_close_set(b) ==
  IF \A d \in Sides : b.legs[d] = "filled"
  THEN [b EXCEPT !.completed = TRUE, !.one_legged = FALSE] ELSE b

_apply_wings(s, e) ==
  [s EXCEPT !.batches = [i \in DOMAIN @ |-> _maybe_close_set(Answered(s, e, i))]]

\* the order id persists, the client id rotates: what was booked is carried forward
_apply_amended(s, e, now) ==
  IF s.live = NoOrder \/ s.live.oid # e.oid THEN [s EXCEPT !.amend = FALSE]
  ELSE LET old == s.live.coid
           t == [s EXCEPT !.live.coid = e.coid, !.amend = FALSE,
                          !.booked = [s.booked EXCEPT ![e.coid] = @ + s.booked[old], ![old] = 0]]
           u == _book_rest_delta(t, e.coid, e.n, now)
       IN IF e.n = 0 THEN t
          ELSE IF u.live = NoOrder THEN u ELSE [u EXCEPT !.cross[e.oid] = @ + e.n]

\* a fill of one of our orders that the core no longer tracks: the first fill of the window
\* latches the allotment, any later one is taken for a duplicate
book_late_rest_fill(s, e, now) ==
  IF s.batches # <<>> THEN s
  ELSE _wing_step([s EXCEPT !.batches = Append(@, NewBatch(e.n)), !.done = TRUE,
                            !.live = NoOrder, !.pending = NoOrder, !.cancel = FALSE,
                            !.spot = IF e.oid = None THEN @ ELSE e.oid], now)

decide_v32(s, e, now) ==
  CASE e.kind = "ack" -> _apply_ack(s, e)
    [] e.kind = "amended" -> _apply_amended(s, e, now)
    [] e.kind = "cancelled" -> _apply_cancelled(s, e, now)
    [] e.kind = "fill" -> _apply_fill(s, e, now)
    [] e.kind = "wings" -> _apply_wings(s, e)
    [] e.kind = "late" -> book_late_rest_fill(s, e, now)

-----------------------------------------------------------------------------
(* The driver *)

Quiet == queue = <<>> /\ acts = <<>>

\* mutant: the executor's latch is not read
StanddownUnread(s, down, left) == s

\* the executor's latch becomes the core's stood_down once the actions of an event are done
_apply_executor_standdown(s, down, left) == IF left = <<>> /\ down THEN [s EXCEPT !.stood_down = TRUE] ELSE s

\* the pump: the decision of one event; its actions are executed next
Decided(s) ==
  /\ core' = _apply_executor_standdown([s EXCEPT !.out = <<>>], exec.down, s.out)
  /\ acts' = s.out

\* what the wings read when an order event is decided: prices may have gone stale since the tick
Nows == {[wings |-> w, lock |-> core.lock] : w \in {FALSE, core.wings}}

_pump ==
  /\ acts = <<>> /\ queue # <<>>
  /\ \E now \in Nows : Decided(decide_v32(core, Head(queue), now))
  /\ queue' = Tail(queue)
  /\ UNCHANGED <<mode, exec, venue, notices, ticks, faults>>

Phases == <<"warmup", "window", "past", "cutoff">>
Later(p, r) == \E i, j \in 1..4 : Phases[i] = p /\ Phases[j] = r /\ i <= j

\* on_book_update and on_clock_tick
OnTick ==
  /\ Quiet /\ exec.swept /\ ticks < MaxTicks
  /\ \E ctx \in Contexts :
       /\ Later(core.phase, ctx.phase)
       /\ ctx.alarm => core.coid_seq > 1
       /\ core.coid_seq < MaxCoids
       /\ Decided(Tick(core, ctx))
  /\ ticks' = ticks + 1
  /\ UNCHANGED <<mode, exec, venue, notices, queue, faults>>

attribute(coid, oid) ==
  IF coid \in Coids /\ exec.book[coid] # NoRecord THEN coid
  ELSE IF oid = None THEN None ELSE exec.by_oid[oid]

mark_filled(coid) == [exec EXCEPT !.book[coid].status = "filled"]

\* what the status of an order says: whether it rests, and all the lots filled on it so far
parse_order_status(o) == [resting |-> venue[o].open, filled |-> venue[o].filled]

\* a private fill notice: tracked orders get a fill, any other order of ours the late hook
on_fill ==
  /\ Quiet
  /\ \E m \in notices :
       LET coid == attribute(m.coid, m.oid)
           tracked == coid \in {core.live.coid, core.pending.coid}
       IN /\ notices' = notices \ {m}
          /\ IF coid = None THEN UNCHANGED <<queue, exec>>
             ELSE /\ queue' = <<IF tracked THEN Event("fill", coid, m.oid, m.n)
                                ELSE Event("late", coid, exec.book[coid].bucket, m.n)>>
                  /\ exec' = mark_filled(coid)
  /\ UNCHANGED <<mode, core, venue, acts, ticks, faults>>

\* the one-second poll of the live order: the lots above those booked are a fill
_order_status_poll ==
  /\ Quiet /\ mode = "armed" /\ core.live.oid # None
  /\ LET oid == core.live.oid
         coid == exec.by_oid[oid]
         n == parse_order_status(oid).filled - core.booked[coid]
     IN /\ n > 0
        /\ queue' = <<Event("fill", coid, oid, n)>>
        /\ exec' = mark_filled(coid)
  /\ UNCHANGED <<mode, core, venue, notices, acts, ticks, faults>>

-----------------------------------------------------------------------------
(* The executor: one action of the queue, as the requests it makes *)

\* the head action is executed; its events join the queue
Executed(events, e) ==
  /\ exec' = e
  /\ acts' = Tail(acts)
  /\ queue' = queue \o events
  /\ core' = _apply_executor_standdown(core, e.down, Tail(acts))
  /\ UNCHANGED <<mode, ticks>>

Fault == faults < MaxFaults /\ faults' = faults + 1
NoFault == UNCHANGED faults

Todo(kind) == acts # <<>> /\ Head(acts).kind = kind /\ mode = "armed"

Open == {o \in DOMAIN venue : venue[o].open}

\* our resting orders, as the list may show them: with some that have left the book
_venue_resting_ours(lag) == (Open \cup lag) \ {exec.gone}

\* the resting list lags: it may still hold orders that have left the book; those whose cancel
\* was confirmed are known for phantoms, and the one just confirmed gone is excluded
Listed(lag) ==
  {o \in _venue_resting_ours(lag) :
     ~(o \in DOMAIN venue /\ exec.by_oid[o] # None /\ exec.book[exec.by_oid[o]].confirmed)}

\* mutant: a refused create leaves no event
RefuseSilent(e) == Executed(<<>>, e)

RefusePlace(e) == Executed(<<Event("cancelled", Head(acts).coid, None, 0)>>, e)

\* the list is clean or unreadable and the create is accepted
PlaceAccepted ==
  /\ Todo("place") /\ Len(venue) < MaxOrders
  /\ LET a == Head(acts)
         oid == Len(venue) + 1
         rec == [oid |-> oid, count |-> a.count, bucket |-> core.bucket, status |-> "live",
                 confirmed |-> FALSE]
     IN /\ \/ Listed({}) = {} /\ NoFault
           \/ Listed({}) # {} /\ Fault
        /\ venue' = Append(venue, [coid |-> a.coid, rem |-> a.count, filled |-> 0, open |-> TRUE])
        /\ Executed(<<Event("ack", a.coid, oid, 0)>>,
                    [exec EXCEPT !.book[a.coid] = rec, !.by_oid[oid] = a.coid, !.rejects = 0])
  /\ UNCHANGED notices

\* a refusal by the exchange, or no route; the last of MaxRejects in a row stands the hour down
_reject_place ==
  /\ Todo("place") /\ Fault
  /\ RefusePlace([exec EXCEPT !.rejects = @ + 1, !.down = @ \/ exec.rejects + 1 >= MaxRejects])
  /\ UNCHANGED <<venue, notices>>

\* no answer, or a server error: the order may rest; the hour stands down
PlaceUnknown ==
  /\ Todo("place") /\ Fault /\ Len(venue) < MaxOrders
  /\ LET a == Head(acts)
     IN /\ venue' \in {venue, Append(venue, [coid |-> a.coid, rem |-> a.count, filled |-> 0,
                                             open |-> TRUE])}
        /\ RefusePlace([exec EXCEPT !.book[a.coid] = [NoRecord EXCEPT !.count = 1, !.bucket = core.bucket,
                                                                      !.status = "unknown"],
                                    !.rejects = @ + 1, !.down = TRUE])
  /\ UNCHANGED notices

\* a stray rest is found before the create: it is cancelled (or cannot be) and the hour stands down
PlaceStray ==
  /\ Todo("place") /\ Listed({}) # {}
  /\ \/ venue' = [o \in DOMAIN venue |-> [venue[o] EXCEPT !.open = @ /\ o \notin Listed({})]] /\ NoFault
     \/ UNCHANGED venue /\ Fault
  /\ RefusePlace([exec EXCEPT !.down = TRUE])
  /\ UNCHANGED notices

\* the list still holds an order that left the book by filling: it is booked instead of placing
PlaceFilledStray ==
  /\ Todo("place") /\ Listed({}) = {}
  /\ \E o \in Listed({x \in DOMAIN venue : ~venue[x].open /\ venue[x].filled > 0}) :
       LET coid == exec.by_oid[o]
       IN IF coid = None THEN RefusePlace([exec EXCEPT !.down = TRUE])
          ELSE Executed(<<Event("cancelled", coid, o, venue[o].filled)>>,
                        [exec EXCEPT !.gone = o, !.book[coid].status = "filled",
                                     !.book[coid].confirmed = TRUE])
  /\ NoFault /\ UNCHANGED <<venue, notices>>

\* at the start of an armed process: cancel what an earlier one left; an order whose DELETE fails,
\* or all of them when the list cannot be read, stays
cancel_stale_open_orders ==
  /\ ~exec.swept
  /\ exec' = [exec EXCEPT !.swept = TRUE]
  /\ \/ venue' = [o \in DOMAIN venue |-> [venue[o] EXCEPT !.open = FALSE]] /\ NoFault
     \/ Open # {} /\ UNCHANGED venue /\ Fault
  /\ UNCHANGED <<mode, core, notices, queue, acts, ticks>>

\* the order a cancel or the fallback of an amend is about
Target == LET a == Head(acts) IN
  IF a.oid # None \/ a.coid = None THEN a.oid ELSE exec.book[a.coid].oid

\* the order is off the book: by the DELETE, or by a status that is terminal.  The fill count is
\* that of the status; when that cannot be read, the count of the record less what was pulled
_finish_cancel(o, filled) ==
  LET coid == exec.by_oid[o]
  IN /\ venue' = [venue EXCEPT ![o].open = FALSE]
     /\ Executed(<<Event("cancelled", coid, o, filled)>>,
                 [exec EXCEPT !.gone = o, !.book[coid].confirmed = TRUE,
                              !.book[coid].status = IF filled > 0 THEN "filled" ELSE "cancelled"])
     /\ UNCHANGED notices

\* settled by a status that can be read: after a DELETE that worked, or a terminal one
_resolve_cancel_from_status(o) == _finish_cancel(o, parse_order_status(o).filled) /\ NoFault

\* no status read after the DELETE succeeds: the lots the DELETE did not pull
_confirm_cancel_filled(o) ==
  /\ parse_order_status(o).resting /\ Fault
  /\ _finish_cancel(o, Max({0, exec.book[exec.by_oid[o]].count - venue[o].rem}))

CancelConfirmed(o) == _resolve_cancel_from_status(o) \/ _confirm_cancel_filled(o)

\* every DELETE and every status read failed: the order may still rest; the hour stands down
CancelFailed(o) ==
  /\ Fault
  /\ Executed(<<Event("cancelled", exec.by_oid[o], o, 0)>>,
              [exec EXCEPT !.book[exec.by_oid[o]].status = "cancel_failed", !.down = TRUE])
  /\ UNCHANGED <<venue, notices>>

\* an order without an order id has nothing to cancel
_cancel_rest ==
  /\ Todo("cancel")
  /\ IF Target = None THEN RefusePlace(exec) /\ NoFault /\ UNCHANGED <<venue, notices>>
     ELSE CancelConfirmed(Target) \/ CancelFailed(Target)

\* the amend is accepted; n lots of it cross and fill at once
_amend_rest ==
  /\ Todo("amend")
  /\ LET a == Head(acts)
         o == a.oid
         old == exec.book[a.coid]
     IN /\ venue[o].open
        /\ \E n \in 0..a.count :
             /\ venue' = [venue EXCEPT ![o] = [coid |-> a.new, rem |-> a.count - n,
                                               filled |-> @.filled + n, open |-> n < a.count]]
             /\ notices' = IF n = 0 THEN notices
                           ELSE notices \cup {[coid |-> a.new, oid |-> o, n |-> n,
                                               id |-> venue[o].filled + n]}
             /\ Executed(<<Event("amended", a.new, o, n)>>,
                  [exec EXCEPT !.book = [@ EXCEPT ![a.coid].status = "amended",
                                                  ![a.new] = [old EXCEPT !.count = a.count,
                                                    !.status = IF n > 0 THEN "filled" ELSE "live"]],
                               !.by_oid[o] = a.new])
  /\ NoFault

\* the amend is refused, or its answer lost: cancel, and let the next tick create
_amend_fallback ==
  /\ Todo("amend")
  /\ CancelConfirmed(Target) \/ CancelFailed(Target)
  /\ venue[Target].open => faults' > faults

\* the answers of the wing orders sent: what was not read as filled is reported as unfilled
_wing_events(sent, got) == <<[kind |-> "wings", sent |-> sent, got |-> got]>>

\* every pending leg of the state goes out as one batch of immediate-or-cancel orders, and a
\* part of a leg is reported as the leg
_take_wings ==
  /\ Todo("take")
  /\ LET legs == {k \in (DOMAIN core.batches) \X Sides : core.batches[k[1]].legs[k[2]] = "pending"}
     IN \E got \in SUBSET legs :
          /\ Executed(_wing_events(legs, got), exec)
          /\ IF got = legs THEN NoFault ELSE Fault
  /\ UNCHANGED <<venue, notices>>

\* FrozenExecutor: the answers are made up, nothing is sent
FrozenAnswers(a) ==
  CASE a.kind = "place" -> <<Event("ack", a.coid, a.coid, 0)>>
    [] a.kind = "cancel" -> <<Event("cancelled", a.coid, a.oid, 0)>>
    [] a.kind = "amend" -> <<Event("amended", a.new, a.oid, 0)>>
    [] a.kind = "take" -> <<>>

FrozenExecutor ==
  /\ mode = "dry" /\ acts # <<>>
  /\ LET a == Head(acts)
         rec == [oid |-> a.coid, count |-> a.count, bucket |-> core.bucket, status |-> "live",
                 confirmed |-> FALSE]
     IN Executed(FrozenAnswers(a),
          CASE a.kind = "place" -> [exec EXCEPT !.book[a.coid] = rec, !.by_oid[a.coid] = a.coid]
            [] a.kind = "cancel" -> [exec EXCEPT !.book[a.coid].status = "cancelled"]
            [] a.kind = "amend" -> [exec EXCEPT !.book = [@ EXCEPT ![a.coid].status = "amended",
                                                            ![a.new] = exec.book[a.coid]],
                                                !.by_oid[a.oid] = a.new]
            [] a.kind = "take" -> exec)
  /\ UNCHANGED <<venue, notices, faults>>

-----------------------------------------------------------------------------
(* The exchange *)

\* a fill is reported by a notice; that of an order the process has no record of is left out,
\* because on_fill drops it
VenueFill ==
  /\ \E o \in Open : \E n \in 1..venue[o].rem :
       /\ venue' = [venue EXCEPT ![o] =
            [venue[o] EXCEPT !.rem = @ - n, !.filled = @ + n, !.open = venue[o].rem > n]]
       /\ notices' = IF venue[o].coid = None THEN notices
                     ELSE notices \cup {[coid |-> venue[o].coid, oid |-> o, n |-> n,
                                         id |-> venue[o].filled + n]}
  /\ UNCHANGED <<mode, core, exec, queue, acts, ticks, faults>>

\* a GTC rest expires after the quote end
VenueExpire ==
  /\ core.phase \in {"past", "cutoff"}
  /\ \E o \in Open : venue' = [venue EXCEPT ![o].open = FALSE]
  /\ UNCHANGED <<mode, core, exec, notices, queue, acts, ticks, faults>>

\* a notice is lost with the connection that carried it
NoticeLost ==
  /\ Fault
  /\ \E m \in notices : notices' = notices \ {m}
  /\ UNCHANGED <<mode, core, exec, venue, queue, acts, ticks>>

Next ==
  \/ _pump \/ OnTick \/ on_fill \/ _order_status_poll
  \/ PlaceAccepted \/ _reject_place \/ PlaceUnknown \/ PlaceStray \/ PlaceFilledStray
  \/ cancel_stale_open_orders \/ _cancel_rest \/ _amend_rest \/ _amend_fallback \/ _take_wings
  \/ FrozenExecutor
  \/ VenueFill \/ VenueExpire \/ NoticeLost

Spec == Init /\ [][Next]_vars

-----------------------------------------------------------------------------
(* Properties *)

Order == [coid : Coids \cup {None}, oid : Oids \cup {None}, count : Nat]

\* The order slots of V32State, the rest book and the exchange's orders have their types.
TypeOK ==
  /\ core.live \in Order /\ core.pending \in Order
  /\ core.remaining \in 0..core.contracts
  /\ core.booked \in [Coids -> Nat] /\ core.cross \in [Oids -> Nat]
  /\ \A i \in DOMAIN core.batches :
       core.batches[i].legs \in [Sides -> {"none", "pending", "filled", "unfilled"}]
  /\ exec.by_oid \in [Oids -> Coids \cup {None}]
  /\ \A o \in DOMAIN venue : venue[o].coid \in Coids \cup {None} /\ (venue[o].rem = 0 => ~venue[o].open)
  /\ \A m \in notices : m.oid \in DOMAIN venue

BookedLots == Cardinality(UNION {{i} \X (1..core.batches[i].n) : i \in DOMAIN core.batches})
Own == {o \in DOMAIN venue : venue[o].coid # None}  \* the orders of this process
FilledLots == Cardinality(UNION {{o} \X (1..venue[o].filled) : o \in Own})

\* R-OVERLAP: this process's rests on the book, and the end of the quoting, behave as RestSlot says.
Slot == INSTANCE RestSlot WITH
  Orders <- Oids,
  resting <- Open \cap Own,
  over <- core.done \/ core.stood_down \/ core.phase \in {"past", "cutoff"}

RefinesSlot == Slot!Spec

\* _requote holds while a create, a cancel or an amend is unconfirmed; whatever the requests did,
\* the pump leaves no hold behind, or the strategy would never quote again.
HoldReleased ==
  Quiet => core.pending = NoOrder /\ ~core.cancel /\ ~core.amend

\* At an allotment of one lot, an order that rests is the one the core tracks, unless the executor
\* has stood the hour down; so every tick can cancel it.
NoForgottenRest ==
  Quiet /\ core.contracts = 1 /\ ~exec.down => Open \cap Own \subseteq {core.live.oid}

\* At an allotment of one lot, a fill reported by the notice, the poll, a cancel and an amend is
\* booked once, and none is missed once the core tracks no order, even if its notice is late or lost.
BookedOnce ==
  core.contracts = 1 =>
    /\ BookedLots <= FilledLots
    /\ Quiet /\ core.live = NoOrder /\ ~exec.down => BookedLots = FilledLots

\* v32/executor.py: "a fill seen twice is booked once", for every allotment.
SeenTwiceBookedOnce == BookedLots <= FilledLots

=============================================================================
