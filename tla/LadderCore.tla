----------------------------- MODULE LadderCore -----------------------------
(***************************************************************************)
(* The quote half of the pure decision function decide_v33                 *)
(* (pilot/service/v33/core.py): the rolling ladder of resting NO orders.   *)
(* Every operator maps a state record (V33State) to the next one; field    *)
(* out collects the order actions a decision emits.                        *)
(*                                                                         *)
(* Abstractions                                                            *)
(*  - prices are whole cents, lots are natural numbers (a fractional fill  *)
(*    is a lot of a heavier rung);                                         *)
(*  - rung k is the margin slot E_min + k cents, its price n_top - k; the  *)
(*    slots below E_min, which are never opened, are left out;             *)
(*  - time is the input now of each decision: late says that the timer     *)
(*    that applies has run out (stand_down_hold_ms when the wing is stale, *)
(*    deb_ms otherwise), hot that replace_times holds more than            *)
(*    replace_rate_alarm_per_min entries of the last minute; phase is the  *)
(*    position in the quoting window;                                      *)
(*  - the market context (spot bucket, W, cap, n_top) is an input;         *)
(*  - a booked fill is handed to the wings by adding it to hedged[bucket]; *)
(*    the wing batches themselves are in module Wings;                     *)
(*  - print_through is off, as in pilot/policy/v33_params.json.            *)
(***************************************************************************)
EXTENDS Integers, FiniteSets, FiniteSetsExt

CONSTANTS
  Buckets,      \* bucket floors Sd
  K,            \* rungs: the number of rungs of the ladder
  RungLots,     \* rung_lots: lots of rung 0 (the top) .. K-1
  NMin,         \* n_min, cents
  MaxAmends,    \* max_amends_in_flight
  MaxSets,      \* max_sets_per_hour, in fill events
  HoldOn,       \* stand_down_hold_ms > 0
  MaxCoid       \* bound on the client order ids minted

None == 0                       \* Python's None for an id, a price or a bucket
Rungs == 0..(K - 1)
Coids == 1..MaxCoid

ASSUME ConstantsAssumption ==
  /\ K \in Nat /\ K > 0 /\ RungLots \in [Rungs -> Nat]
  /\ NMin \in Nat /\ NMin > 0 /\ MaxAmends \in Nat /\ MaxSets \in Nat
  /\ HoldOn \in BOOLEAN /\ MaxCoid \in Nat
  /\ Buckets \subseteq Nat \ {None}

-----------------------------------------------------------------------------
(* The records of the state *)

Order == [coid : Coids, oid : Coids \cup {None}, price : Int, count : Nat,
          Sd : Buckets, rung : Int]

RollPending == [oid : Coids, old : Coids, new : Coids, target : Int, rung : Int]

\* cancel_ctx and cancel_pending_px, keyed by order id
CancelCtx == [oid : Coids, coid : Coids, price : Int, rung : Int, Sd : Buckets]
HeldPrice == [oid : Coids, price : Int]

\* who asks for a DELETE: the core, the ack of a create cancelled in flight, or
\* the fallback of a failed amend
Via == {"core", "ack", "amend"}

\* what decide_v33 hands to the executor
PlaceRest  == [kind : {"place"}, coid : Coids, price : Int, count : Nat, Sd : Buckets]
AmendRest  == [kind : {"amend"}, oid : Coids, coid : Coids, new : Coids, price : Int,
               count : Nat, Sd : Buckets]
CancelRest == [kind : {"cancel"}, oid : Coids \cup {None}, coid : Coids, via : Via]
Action == PlaceRest \cup AmendRest \cup CancelRest

\* the market context of _recompute_context: n_top and cap are None unless the
\* spot bucket is known and fresh; n_top further needs W and never exceeds cap
Context ==
  { c \in [spot_Sd : Buckets \cup {None}, stale : BOOLEAN, W : BOOLEAN,
           cap : Nat, n_top : Nat] :
      /\ (c.spot_Sd = None \/ c.stale) => ~c.W /\ c.cap = None
      /\ (~c.W \/ c.cap = None) => c.n_top = None
      /\ c.n_top <= c.cap }

Now == [late : BOOLEAN, hot : BOOLEAN]

State ==
  [ ladder : SUBSET Order, margin_state : [Rungs -> 0..2],
    rolls : SUBSET RollPending, converging_dir : {-1, 0, 1},
    awaiting_replace : BOOLEAN, outstanding_cancels : Nat,
    cancel_pending_px : SUBSET HeldPrice, cancel_ctx : SUBSET CancelCtx,
    rest_bucket_Sd : Buckets \cup {None}, now : Now,
    holding : BOOLEAN, phase : {"warmup", "quoting", "ended"},
    coid_seq : Nat, filled : Nat, rungs_filled : Nat,
    booked : [Coids -> Nat], seen : [Coids -> Nat], cross : [Coids -> Nat],
    hedged : [Buckets -> Nat], rest_allotment_done : BOOLEAN,
    stood_down : BOOLEAN, bucket_unknown : BOOLEAN, ctx : Context,
    out : SUBSET Action ]

\* V33State.new: an empty ladder, every weighted rung wanted
NewState ==
  [ ladder |-> {}, margin_state |-> [k \in Rungs |-> IF RungLots[k] > 0 THEN 1 ELSE 0],
    rolls |-> {}, converging_dir |-> 0,
    awaiting_replace |-> FALSE, outstanding_cancels |-> 0,
    cancel_pending_px |-> {}, cancel_ctx |-> {},
    rest_bucket_Sd |-> None, now |-> [late |-> FALSE, hot |-> FALSE],
    holding |-> FALSE, phase |-> "warmup",
    coid_seq |-> 0, filled |-> 0, rungs_filled |-> 0,
    booked |-> [c \in Coids |-> 0], seen |-> [c \in Coids |-> 0],
    cross |-> [c \in Coids |-> 0],
    hedged |-> [b \in Buckets |-> 0], rest_allotment_done |-> FALSE,
    stood_down |-> FALSE, bucket_unknown |-> FALSE,
    ctx |-> [spot_Sd |-> None, stale |-> FALSE, W |-> FALSE, cap |-> None, n_top |-> None],
    out |-> {} ]

-----------------------------------------------------------------------------
(* Small pure helpers *)

Lots(orders) == MapThenSumSet(LAMBDA o : o.count, orders)

_allotment == MapThenSumSet(LAMBDA k : RungLots[k], Rungs)

_resting_contracts(s) == Lots(s.ladder)

_price_of_rung(s, k) == s.ctx.n_top - k

_rung_of(s, price) == s.ctx.n_top - price

_open_slots(s) == { k \in Rungs : s.margin_state[k] = 1 }

\* open slots whose price is quotable; prices never exceed n_top <= cap
_placeable_open_slots(s) ==
  { k \in _open_slots(s) : NMin <= _price_of_rung(s, k) /\ _price_of_rung(s, k) <= s.ctx.cap }

_held_cancel_prices(s) == { h.price : h \in s.cancel_pending_px }

_drop_order(s, coid) == [s EXCEPT !.ladder = { o \in @ : o.coid # coid }]

_drop_roll(s, coid) == [s EXCEPT !.rolls = { r \in @ : r.old # coid }]

CancelOf(o) == [kind |-> "cancel", oid |-> o.oid, coid |-> o.coid, via |-> "core"]

CtxOf(o) == [oid |-> o.oid, coid |-> o.coid, price |-> o.price, rung |-> o.rung, Sd |-> o.Sd]

Acked(orders) == { o \in orders : o.oid # None }

\* a set of records keyed by order id, with the entries of new overriding
Override(old, new) == { x \in old : \A y \in new : y.oid # x.oid } \cup new

\* _cancel_action, _remember_cancel_ctx and _arm_cancel_pending for some orders
Cancelling(s, orders) ==
  [s EXCEPT !.cancel_ctx = Override(@, { CtxOf(o) : o \in Acked(orders) }),
            !.cancel_pending_px = Override(@, { [oid |-> o.oid, price |-> o.price] : o \in Acked(orders) }),
            !.ladder = @ \ orders,
            !.out = @ \cup { CancelOf(o) : o \in orders }]

_clear_cancel_pending(s, oid) ==
  [s EXCEPT !.cancel_pending_px = { h \in @ : h.oid # oid }]

\* mutant: the rolls of the cancelled orders stay in flight
CancelAllKeepsRolls(s) == [Cancelling(s, s.ladder) EXCEPT !.converging_dir = 0]

_cancel_all(s) ==
  [Cancelling(s, s.ladder) EXCEPT !.rolls = {}, !.converging_dir = 0]

_cancel_all_then_replace(s) ==
  [_cancel_all(s) EXCEPT
     !.outstanding_cancels = @ + Cardinality(Acked(s.ladder)),
     !.awaiting_replace = @ \/ s.ladder # {}]

-----------------------------------------------------------------------------
(* Placing *)

Minimum(a, b) == IF a < b THEN a ELSE b

\* _place_one: a pending order on the current spot bucket, and its PLACE_REST
NewRest(s, coid, price, count) ==
  [coid |-> coid, oid |-> None, price |-> price, count |-> count,
   Sd |-> s.ctx.spot_Sd, rung |-> _rung_of(s, price)]

PlaceOf(o) ==
  [kind |-> "place", coid |-> o.coid, price |-> o.price, count |-> o.count, Sd |-> o.Sd]

Placing(s, orders) ==
  [s EXCEPT !.ladder = @ \cup orders,
            !.coid_seq = @ + Cardinality(orders),
            !.out = @ \cup { PlaceOf(o) : o \in orders }]

_place_one(s, price, count) == Placing(s, {NewRest(s, s.coid_seq + 1, price, count)})

\* the slots _place_all takes among the first n rungs, top first: a slot that
\* would overrun the budget, or whose price is still being cancelled, is passed
Taken(s, budget) ==
  LET take[n \in Nat] ==
        IF n = 0 THEN {}
        ELSE LET k == n - 1
                 before == take[k]
                 used == MapThenSumSet(LAMBDA j : RungLots[j], before)
             IN IF /\ k \in _placeable_open_slots(s)
                   /\ RungLots[k] > 0 /\ used + RungLots[k] <= budget
                   /\ _price_of_rung(s, k) \notin _held_cancel_prices(s)
                THEN before \cup {k} ELSE before
  IN take[K]

_place_all(s) ==
  LET budget == _allotment - s.filled - _resting_contracts(s)
      slots == Taken(s, budget)
      \* client ids in the order the slots are placed
      CoidFor(k) == s.coid_seq + 1 + Cardinality({ j \in slots : j < k })
      orders == { NewRest(s, CoidFor(k), _price_of_rung(s, k), RungLots[k]) : k \in slots }
  IN IF budget <= 0 \/ s.rungs_filled >= MaxSets
     THEN [s EXCEPT !.rest_allotment_done = TRUE]
     ELSE IF slots = {} THEN s
     ELSE [Placing(s, orders) EXCEPT
             !.rest_bucket_Sd = s.ctx.spot_Sd, !.converging_dir = 0]

-----------------------------------------------------------------------------
(* _converge *)

StaleWing(s) ==
  /\ ~s.stood_down /\ s.phase = "quoting"
  /\ s.ctx.spot_Sd # None /\ ~s.ctx.stale /\ ~s.ctx.W

NoQuote(s) ==
  \/ s.stood_down \/ s.phase = "ended"
  \/ s.ctx.spot_Sd = None \/ s.ctx.stale \/ ~s.ctx.W
  \/ s.ctx.n_top < NMin

\* mutant: the hold over a stale wing has no time limit, and quote end is held too
StandAsideForever(s) ==
  IF HoldOn /\ s.ladder # {} THEN [s EXCEPT !.holding = TRUE]
  ELSE _cancel_all_then_replace([s EXCEPT !.holding = FALSE])

\* a no-quote reason: hold the rests over a stale wing, else cancel them all
StandAside(s) ==
  IF /\ StaleWing(s) /\ HoldOn /\ (s.ladder # {} \/ s.rolls # {})
     /\ ~s.holding \/ ~s.now.late
  THEN [s EXCEPT !.holding = TRUE]
  ELSE _cancel_all_then_replace([s EXCEPT !.holding = FALSE])

TargetPrices(s) == { _price_of_rung(s, k) : k \in _placeable_open_slots(s) }

\* live orders at a price nobody wants, free to move
OutOfSpan(s) ==
  { o \in s.ladder :
      /\ o.oid # None
      /\ \A r \in s.rolls : r.old # o.coid
      /\ o.price \notin TargetPrices(s)
      /\ s.booked[o.coid] = 0 }

\* mutant: the targets of rolls in flight are not yet occupied
VacantIgnoringRolls(s) ==
  { p \in TargetPrices(s) :
      (\A o \in s.ladder : o.price # p) /\ p \notin _held_cancel_prices(s) }

\* wanted prices with no order resting, rolling there or being cancelled there
Vacant(s) ==
  { p \in TargetPrices(s) :
      /\ \A o \in s.ladder : o.price # p
      /\ \A r \in s.rolls : r.target # p
      /\ p \notin _held_cancel_prices(s) }

OutRank(OUT, o) ==
  Cardinality({ x \in OUT : x.price < o.price \/ (x.price = o.price /\ x.coid < o.coid) })

PriceRank(prices, p) == Cardinality({ q \in prices : q < p })

Direction(s, OUT) ==
  LET lo == IF _open_slots(s) = {} THEN 0 ELSE Min(_open_slots(s))
      hi == IF _open_slots(s) = {} THEN K - 1 ELSE Max(_open_slots(s))
      below == Cardinality({ o \in OUT : _rung_of(s, o.price) < lo })
      above == Cardinality({ o \in OUT : _rung_of(s, o.price) > hi })
  IN IF OUT # {} THEN (IF below >= above THEN -1 ELSE 1)
     ELSE IF s.converging_dir # 0 THEN s.converging_dir ELSE 1

\* _emit_roll for the i-th lowest OUT order and the i-th lowest vacant price
RollsFor(s, OUT, VACANT, budget) ==
  LET pairs == { x \in OUT \X VACANT :
                   OutRank(OUT, x[1]) = PriceRank(VACANT, x[2]) /\ OutRank(OUT, x[1]) < budget }
  IN { [oid |-> x[1].oid, old |-> x[1].coid, new |-> s.coid_seq + 1 + OutRank(OUT, x[1]),
        target |-> x[2], rung |-> _rung_of(s, x[2])] : x \in pairs }

AmendOf(s, r) ==
  [kind |-> "amend", oid |-> r.oid, coid |-> r.old, new |-> r.new, price |-> r.target,
   count |-> (CHOOSE o \in s.ladder : o.coid = r.old).count, Sd |-> s.ctx.spot_Sd]

Rolling(s, rolls) ==
  [s EXCEPT !.rolls = @ \cup rolls, !.coid_seq = @ + Cardinality(rolls),
            !.out = @ \cup { AmendOf(s, r) : r \in rolls }]

\* vacant prices created afresh: lowest price first, while the allotment lasts
CreatesFor(s, VACANT, from, budget) ==
  LET wanted == { p \in VACANT : from <= PriceRank(VACANT, p) /\ PriceRank(VACANT, p) < budget }
      WeightAt(p) == RungLots[_rung_of(s, p)]
      UpTo(p) == MapThenSumSet(WeightAt, { q \in wanted : q <= p })
      prices == { p \in wanted : s.filled + _resting_contracts(s) + UpTo(p) <= _allotment }
  IN { NewRest(s, s.coid_seq + 1 + PriceRank(prices, p), p, WeightAt(p)) : p \in prices }

\* move live orders toward one order per placeable open slot
Rebalance(s) ==
  LET OUT == OutOfSpan(s)
      VACANT == Vacant(s)
      dir == Direction(s, OUT)
      mid == s.converging_dir = dir     \* a direction is never 0
      budget == MaxAmends - Cardinality(s.rolls)
      rolls == RollsFor(s, OUT, VACANT, budget)
      moved == Rolling([s EXCEPT !.converging_dir = dir], rolls)
      pairs == Cardinality(rolls)
      surplus == { o \in OUT : pairs <= OutRank(OUT, o) /\ OutRank(OUT, o) < budget }
      creates == CreatesFor(moved, VACANT, pairs, budget)
      shrunk == [Cancelling(moved, surplus) EXCEPT !.outstanding_cancels = @ + Cardinality(surplus)]
      grown == Placing(moved, creates)
  IN IF OUT = {} /\ VACANT = {}
     THEN [s EXCEPT !.converging_dir = IF s.rolls = {} THEN 0 ELSE @]
     ELSE IF ~mid /\ ~s.now.late THEN s
     ELSE IF budget <= 0 THEN [s EXCEPT !.converging_dir = dir]
     ELSE IF surplus # {} THEN shrunk ELSE grown

Quote(s) ==
  IF /\ s.rest_bucket_Sd # None /\ s.rest_bucket_Sd # s.ctx.spot_Sd
     /\ s.rolls = {} /\ s.ladder # {}
  THEN [_cancel_all_then_replace(s) EXCEPT !.rest_bucket_Sd = None]
  ELSE IF s.awaiting_replace /\ s.outstanding_cancels > 0 THEN s
  ELSE IF s.ladder = {} /\ s.rolls = {}
  THEN IF /\ ~s.awaiting_replace /\ s.rungs_filled > 0
          /\ _placeable_open_slots(s) = {}
       THEN [s EXCEPT !.rest_allotment_done = TRUE]
       ELSE _place_all([s EXCEPT !.awaiting_replace = FALSE])
  ELSE IF \E o \in s.ladder : o.oid = None THEN s
  ELSE Rebalance(s)

_converge(s) ==
  IF s.rest_allotment_done THEN _cancel_all(s)
  ELSE IF s.now.hot /\ ~s.stood_down
       THEN [_cancel_all(s) EXCEPT !.stood_down = TRUE]
  ELSE IF ~s.stood_down /\ s.phase = "warmup" THEN s
  ELSE IF NoQuote(s) THEN StandAside(s)
  ELSE Quote([s EXCEPT !.holding = FALSE])

-----------------------------------------------------------------------------
(* Booking a rung fill *)

\* _book_rung_fill: f names the lots' coid, price, count, fallback rung label,
\* retained bucket, ticker bucket and whether the rung is off the ladder's grid
_book_rung_fill(s, f) ==
  LET mine == { o \in s.ladder : o.coid = f.coid }
      Sd == IF mine # {} THEN (CHOOSE o \in mine : TRUE).Sd
            ELSE IF f.retained # None THEN f.retained ELSE f.ticker
      rest == { [o EXCEPT !.count = @ - f.count] : o \in { x \in mine : x.count > f.count } }
      k == IF s.ctx.n_top # None THEN _rung_of(s, f.price) ELSE f.rung
      b == [s EXCEPT !.booked[f.coid] = @ + f.count,
                     !.ladder = (@ \ mine) \cup rest,
                     !.margin_state = [j \in Rungs |-> IF j = k /\ ~f.orphan THEN 2 ELSE @[j]],
                     !.filled = @ + f.count,
                     !.rungs_filled = @ + 1]
      failed == IF b.ladder # {} THEN _cancel_all(b) ELSE b
      spent == \/ b.rungs_filled >= MaxSets
               \/ b.ladder = {} /\ ~b.awaiting_replace /\ b.rolls = {} /\ b.outstanding_cancels = 0
  IN IF Sd = None
     THEN [failed EXCEPT !.bucket_unknown = TRUE, !.stood_down = TRUE, !.rest_allotment_done = TRUE]
     ELSE [b EXCEPT !.hedged[Sd] = @ + f.count, !.rest_allotment_done = @ \/ spent]

\* _book_orphan_fill: an owned order the core lost; the rung is derived from the
\* price when that is a rung of the current geometry
_book_orphan_fill(s, coid, price, count, ticker, retained) ==
  LET legit == s.ctx.n_top # None /\ _rung_of(s, price) \in Rungs
  IN _book_rung_fill(s, [coid |-> coid, price |-> price, count |-> count, rung |-> 0,
                         retained |-> retained, ticker |-> ticker, orphan |-> ~legit])

-----------------------------------------------------------------------------
(* The order lifecycle events *)

\* OrderAck
_apply_ack(s, e) ==
  [s EXCEPT !.ladder = { IF o.coid = e.coid /\ o.oid = None THEN [o EXCEPT !.oid = e.oid] ELSE o :
                           o \in @ }]

\* mutant: every reported lot of an order off the ladder is booked
OrphanNotDeduped(s, e) ==
  _book_orphan_fill(s, e.coid, e.price, e.count, e.Sd, None)

\* Fill of an order that is not on the ladder
_apply_orphan_fill(s, e) ==
  LET ctx == { c \in s.cancel_ctx : c.coid = e.coid }
      retained == IF ctx = {} THEN None ELSE (CHOOSE c \in ctx : TRUE).Sd
      s1 == IF e.src = "poll" THEN s ELSE [s EXCEPT !.seen[e.coid] = @ + e.count]
      delta == IF e.src = "poll" THEN e.count
               ELSE Minimum(e.count, s1.seen[e.coid] - s.booked[e.coid])
  IN IF delta <= 0 THEN s1
     ELSE _book_orphan_fill(s1, e.coid, e.price, delta, e.Sd, retained)

\* Fill of a rung (wing-leg fills are in module Wings)
_apply_fill(s, e) ==
  LET s0 == _clear_cancel_pending(s, e.oid)
      o == CHOOSE x \in s0.ladder : x.coid = e.coid
      s1 == IF e.src = "poll" THEN s0 ELSE [s0 EXCEPT !.seen[e.coid] = @ + e.count]
      oid == IF o.oid # None THEN o.oid ELSE e.oid
      skip == IF oid = None THEN 0 ELSE Minimum(s1.cross[oid], e.count)
      s2 == IF skip = 0 THEN s1 ELSE [s1 EXCEPT !.cross[oid] = @ - skip]
  IN IF \A x \in s0.ladder : x.coid # e.coid THEN _apply_orphan_fill(s0, e)
     ELSE IF e.count = skip THEN s2
     ELSE _book_rung_fill(s2, [coid |-> o.coid, price |-> o.price, count |-> e.count - skip,
                               rung |-> o.rung, retained |-> o.Sd, ticker |-> e.Sd,
                               orphan |-> FALSE])

\* OrderAmended: the order keeps its id and count, takes the roll's new coid
\* and price; a crossing amend books its lots at once
_apply_amended(s, e) ==
  LET rolls == { r \in s.rolls : r.oid = e.oid \/ r.old = e.coid \/ r.new = e.coid }
      r == CHOOSE x \in rolls : TRUE
      s1 == _drop_roll(s, r.old)
      moving == { o \in s1.ladder : o.coid = r.old }
      label == IF s.ctx.n_top # None THEN _rung_of(s, e.price) ELSE r.rung
      moved == { [o EXCEPT !.coid = r.new, !.price = e.price, !.rung = label] : o \in moving }
      s2 == [s1 EXCEPT
               !.ladder = (@ \ moving) \cup moved,
               !.booked = [s1.booked EXCEPT ![r.new] = @ + s1.booked[r.old], ![r.old] = 0],
               !.now.late = FALSE]
      s3 == _book_rung_fill(s2, [coid |-> r.new, price |-> e.price, count |-> e.fill,
                                 rung |-> label, retained |-> None, ticker |-> None,
                                 orphan |-> FALSE])
      s4 == IF \E o \in s3.ladder : o.coid = r.new
            THEN [s3 EXCEPT !.cross[e.oid] = @ + e.fill] ELSE s3
  IN IF rolls = {} THEN s
     ELSE IF moving = {} THEN _converge(s1)
     ELSE _converge(IF e.fill > 0 THEN s4 ELSE s2)

\* the order an OrderCancelled names: by order id when it has one, else by coid
Named(s, e) ==
  { o \in s.ladder : IF e.oid # None THEN o.oid = e.oid ELSE o.coid = e.coid }

CtxNamed(s, e) ==
  LET byOid == { c \in s.cancel_ctx : e.oid # None /\ c.oid = e.oid }
  IN IF byOid # {} THEN byOid ELSE { c \in s.cancel_ctx : c.coid = e.coid }

\* mutant: the confirm of an order the core knows nothing about books nothing
BookKnownOnly(s, e) ==
  LET known == { CtxOf(o) : o \in Named(s, e) } \cup CtxNamed(s, e)
      c == CHOOSE x \in known : TRUE
  IN IF known = {} \/ e.filled <= s.booked[c.coid] THEN s
     ELSE _book_rung_fill(s, [coid |-> c.coid, price |-> c.price,
                              count |-> e.filled - s.booked[c.coid], rung |-> c.rung,
                              retained |-> c.Sd, ticker |-> None, orphan |-> FALSE])

\* lots the cancel confirm reports beyond what is booked for the order
BookCancelFill(s, e) ==
  LET live == Named(s, e)
      known == IF live # {} THEN { CtxOf(o) : o \in live } ELSE CtxNamed(s, e)
      c == CHOOSE x \in known : TRUE
  IN IF e.filled = 0 THEN s
     ELSE IF known # {}
     THEN IF e.filled <= s.booked[c.coid] THEN s
          ELSE _book_rung_fill(s, [coid |-> c.coid, price |-> c.price,
                                   count |-> e.filled - s.booked[c.coid], rung |-> c.rung,
                                   retained |-> c.Sd, ticker |-> None, orphan |-> FALSE])
     ELSE IF e.price = None \/ e.filled <= s.booked[e.coid] THEN s
     ELSE _book_orphan_fill(s, e.coid, e.price, e.filled - s.booked[e.coid], e.Sd, None)

\* mutant: the re-place of a failed roll does not look at the window
FallbackAnyTime(s, r) ==
  LET mover == { o \in s.ladder : o.coid = r.old }
      s1 == _drop_order(_drop_roll(s, r.old), r.old)
  IN _converge(IF Lots(mover) > 0 /\ s1.ctx.n_top # None
               THEN _place_one(s1, r.target, Lots(mover)) ELSE s1)

\* the executor's amend -> cancel -> create fallback: re-place the mover's
\* remaining lots at the roll's target, no higher than the cap
RollFallback(s, r) ==
  LET mover == { o \in s.ladder : o.coid = r.old }
      count == IF mover = {} THEN 0 ELSE (CHOOSE o \in mover : TRUE).count
      s1 == _drop_order(_drop_roll(s, r.old), r.old)
      target == IF s.ctx.cap # None THEN Minimum(r.target, s.ctx.cap) ELSE r.target
      allowed == /\ ~s1.rest_allotment_done /\ ~s1.stood_down /\ count > 0
                 /\ s1.phase = "quoting" /\ target >= NMin /\ s1.ctx.n_top # None
                 /\ s1.filled + _resting_contracts(s1) + count <= _allotment
  IN _converge(IF allowed THEN _place_one(s1, target, count) ELSE s1)

\* mutant: only an order still on the ladder is counted off
ResolvedLiveOnly(s, e, live) ==
  [s EXCEPT !.ladder = { o \in @ : \A x \in live : o.coid # x.coid },
            !.outstanding_cancels = IF e.oid # None /\ live # {} /\ @ > 0 THEN @ - 1 ELSE @]

\* a plain cancel: the slot is dropped, and a confirm with a venue id of an order
\* the core counted is taken off outstanding_cancels
Resolved(s, e, live) ==
  [s EXCEPT
     !.ladder = { o \in @ : \A x \in live : o.coid # x.coid },
     !.outstanding_cancels =
        IF /\ e.oid # None /\ (live # {} \/ \E c \in s.cancel_ctx : c.oid = e.oid)
           /\ @ > 0
        THEN @ - 1 ELSE @]

\* OrderCancelled
_apply_cancelled(s, e) ==
  LET s0 == _clear_cancel_pending(s, e.oid)
      live == Named(s0, e)
      s1 == BookCancelFill(s0, e)
      rolls == { r \in s1.rolls : IF e.oid # None THEN r.oid = e.oid ELSE r.old = e.coid }
  IN IF rolls # {} THEN RollFallback(s1, CHOOSE r \in rolls : TRUE)
     ELSE _converge(Resolved(s1, e, live))

\* BookUpdate / ClockTick: recompute the context and the rung labels, converge
Tick(s, c) ==
  _converge([s EXCEPT
    !.ctx = c,
    !.ladder = IF c.n_top = None THEN @
               ELSE { [o EXCEPT !.rung = c.n_top - o.price] : o \in @ }])
=============================================================================
