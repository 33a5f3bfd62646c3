---------------------------- MODULE LadderProofs ----------------------------
(***************************************************************************)
(* Machine-checked theorems about module Ladder, for every value of its    *)
(* constants.                                                              *)
(*                                                                         *)
(* The decision function is a composition of operators on the state        *)
(* record.  Keeps(s, t) collects what every one of them guarantees of the  *)
(* state t it makes of a state s: one lemma per operator, and the action   *)
(* lemmas only chain them.                                                 *)
(***************************************************************************)
EXTENDS Ladder, TLAPS

\* s is a record with the fields of V33State
Shaped(s) ==
  DOMAIN s = {"ladder", "margin_state", "rolls", "converging_dir", "awaiting_replace",
              "outstanding_cancels", "cancel_pending_px", "cancel_ctx", "rest_bucket_Sd",
              "now", "holding", "phase", "coid_seq", "filled", "rungs_filled", "booked",
              "seen", "cross", "hedged", "rest_allotment_done", "stood_down",
              "bucket_unknown", "ctx", "out"}

\* AwaitingClear of one state record
Clear(s) == s.awaiting_replace => s.ladder = {} /\ s.rolls = {}

\* the core may not quote any more
Muted(s) == s.phase = "ended" \/ s.stood_down

OnlyCancels(s) == \A a \in s.out : a.kind = "cancel"

Sound(s) == Shaped(s) /\ Clear(s)

\* the state t that a decision makes of s: a sound record in the same phase, still
\* stood down if s was, that asks for cancels only if s was muted
Keeps(s, t) ==
  /\ Sound(t)
  /\ t.phase = s.phase
  /\ s.stood_down => t.stood_down
  /\ Muted(s) /\ OnlyCancels(s) => OnlyCancels(t)

\* Decisions compose.
LEMMA KeepsTrans ==
  ASSUME NEW s, NEW t, NEW u, Keeps(s, t), Keeps(t, u)
  PROVE  Keeps(s, u)
BY DEF Keeps, Muted

\* What is kept is sound.
LEMMA KeepsSound == ASSUME NEW s, NEW t, Keeps(s, t) PROVE Sound(t)
BY DEF Keeps

\* The state a window starts in is sound.
LEMMA NewStateSound == Sound(NewState) /\ NewState.out = {}
BY DEF Sound, Shaped, Clear, NewState

-----------------------------------------------------------------------------
(* Cancelling *)

\* Cancelling orders asks for cancels only and leaves the other fields alone.
LEMMA CancellingFacts ==
  ASSUME NEW s, Shaped(s), NEW orders
  PROVE  LET t == Cancelling(s, orders)
         IN /\ Shaped(t)
            /\ t.ladder = s.ladder \ orders /\ t.rolls = s.rolls
            /\ t.phase = s.phase /\ t.stood_down = s.stood_down
            /\ t.awaiting_replace = s.awaiting_replace
            /\ OnlyCancels(s) => OnlyCancels(t)
<1>1. \A o : CancelOf(o).kind = "cancel"
  BY DEF CancelOf
<1> QED
  BY <1>1 DEF Shaped, Cancelling, OnlyCancels

\* A cancel-all empties the ladder and its rolls.
LEMMA CancelAllKeeps ==
  ASSUME NEW s, Shaped(s)
  PROVE  LET t == _cancel_all(s)
         IN /\ Keeps(s, t)
            /\ t.ladder = {} /\ t.rolls = {} /\ t.stood_down = s.stood_down
            /\ OnlyCancels(s) => OnlyCancels(t)
<1> DEFINE u == Cancelling(s, s.ladder)
           t == _cancel_all(s)
<1>1. /\ Shaped(u) /\ u.ladder = s.ladder \ s.ladder /\ u.phase = s.phase
      /\ u.stood_down = s.stood_down
      /\ OnlyCancels(s) => OnlyCancels(u)
  BY CancellingFacts
<1>2. /\ Shaped(t) /\ t.ladder = u.ladder /\ t.rolls = {} /\ t.phase = u.phase
      /\ t.stood_down = u.stood_down /\ t.out = u.out
  BY <1>1 DEF Shaped, _cancel_all
<1> QED
  BY <1>1, <1>2 DEF Keeps, Sound, Clear, OnlyCancels

\* So does the tracked one, which arms awaiting_replace over the empty ladder.
LEMMA CancelAllThenReplaceKeeps ==
  ASSUME NEW s, Shaped(s)
  PROVE  /\ Keeps(s, _cancel_all_then_replace(s))
         /\ OnlyCancels(s) => OnlyCancels(_cancel_all_then_replace(s))
<1> DEFINE u == _cancel_all(s)
           t == _cancel_all_then_replace(s)
<1>1. /\ Keeps(s, u) /\ u.ladder = {} /\ u.rolls = {} /\ u.stood_down = s.stood_down
      /\ OnlyCancels(s) => OnlyCancels(u)
  BY CancelAllKeeps
<1>2. /\ Shaped(t) /\ t.ladder = u.ladder /\ t.rolls = u.rolls /\ t.phase = u.phase
      /\ t.stood_down = u.stood_down /\ t.out = u.out
  BY <1>1 DEF Keeps, Sound, Shaped, _cancel_all_then_replace
<1> QED
  BY <1>1, <1>2 DEF Keeps, Sound, Clear, OnlyCancels

-----------------------------------------------------------------------------
(* Quoting *)

\* Placing orders touches the ladder, the id counter and the actions only.
LEMMA PlacingFacts ==
  ASSUME NEW s, Shaped(s), NEW orders
  PROVE  LET t == Placing(s, orders)
         IN /\ Shaped(t) /\ t.rolls = s.rolls /\ t.phase = s.phase
            /\ t.stood_down = s.stood_down /\ t.awaiting_replace = s.awaiting_replace
BY DEF Shaped, Placing

\* So does starting rolls, with rolls_in_flight for the ladder.
LEMMA RollingFacts ==
  ASSUME NEW s, Shaped(s), NEW rolls
  PROVE  LET t == Rolling(s, rolls)
         IN /\ Shaped(t) /\ t.ladder = s.ladder /\ t.phase = s.phase
            /\ t.stood_down = s.stood_down /\ t.awaiting_replace = s.awaiting_replace
BY DEF Shaped, Rolling

\* _place_all never re-arms awaiting_replace.
LEMMA PlaceAllFacts ==
  ASSUME NEW s, Shaped(s)
  PROVE  LET t == _place_all(s)
         IN /\ Shaped(t) /\ t.phase = s.phase /\ t.awaiting_replace = s.awaiting_replace
<1> DEFINE budget == _allotment - s.filled - _resting_contracts(s)
           slots == Taken(s, budget)
           CoidFor(k) == s.coid_seq + 1 + Cardinality({ j \in slots : j < k })
           orders == { NewRest(s, CoidFor(k), _price_of_rung(s, k), RungLots[k]) : k \in slots }
           placed == Placing(s, orders)
<1>1. /\ Shaped(placed) /\ placed.phase = s.phase
      /\ placed.awaiting_replace = s.awaiting_replace
  BY PlacingFacts
<1>2. \/ _place_all(s) = [s EXCEPT !.rest_allotment_done = TRUE]
      \/ _place_all(s) = s
      \/ _place_all(s) = [placed EXCEPT !.rest_bucket_Sd = s.ctx.spot_Sd, !.converging_dir = 0]
  BY DEF _place_all
<1> HIDE DEF placed
<1> QED
  BY <1>1, <1>2 DEF Shaped

\* A rebalancing step moves, cancels or creates orders; awaiting_replace stays.
LEMMA RebalanceFacts ==
  ASSUME NEW s, Shaped(s)
  PROVE  LET t == Rebalance(s)
         IN /\ Shaped(t) /\ t.phase = s.phase /\ t.awaiting_replace = s.awaiting_replace
<1> DEFINE OUT == OutOfSpan(s)
           VACANT == Vacant(s)
           dir == Direction(s, OUT)
           budget == MaxAmends - Cardinality(s.rolls)
           rolls == RollsFor(s, OUT, VACANT, budget)
           turned == [s EXCEPT !.converging_dir = dir]
           moved == Rolling(turned, rolls)
           pairs == Cardinality(rolls)
           surplus == { o \in OUT : pairs <= OutRank(OUT, o) /\ OutRank(OUT, o) < budget }
           creates == CreatesFor(moved, VACANT, pairs, budget)
           cancelled == Cancelling(moved, surplus)
           shrunk == [cancelled EXCEPT !.outstanding_cancels = @ + Cardinality(surplus)]
           grown == Placing(moved, creates)
<1>1. \/ Rebalance(s) = [s EXCEPT !.converging_dir = IF s.rolls = {} THEN 0 ELSE @]
      \/ Rebalance(s) = s
      \/ Rebalance(s) = turned
      \/ Rebalance(s) = shrunk
      \/ Rebalance(s) = grown
  BY DEF Rebalance
<1>2. /\ Shaped(turned) /\ turned.phase = s.phase
      /\ turned.awaiting_replace = s.awaiting_replace
  BY DEF Shaped
<1> HIDE DEF turned
<1>3. /\ Shaped(moved) /\ moved.phase = s.phase
      /\ moved.awaiting_replace = s.awaiting_replace
  BY <1>2, RollingFacts
<1> HIDE DEF moved
<1>4. /\ Shaped(cancelled) /\ cancelled.phase = s.phase
      /\ cancelled.awaiting_replace = s.awaiting_replace
  BY <1>3, CancellingFacts
<1>5. /\ Shaped(grown) /\ grown.phase = s.phase
      /\ grown.awaiting_replace = s.awaiting_replace
  BY <1>3, PlacingFacts
<1> HIDE DEF cancelled, grown
<1>6. /\ Shaped(shrunk) /\ shrunk.phase = s.phase
      /\ shrunk.awaiting_replace = s.awaiting_replace
  BY <1>4 DEF Shaped
<1> HIDE DEF shrunk
<1>7. LET t == [s EXCEPT !.converging_dir = IF s.rolls = {} THEN 0 ELSE @]
      IN /\ Shaped(t) /\ t.phase = s.phase /\ t.awaiting_replace = s.awaiting_replace
  BY DEF Shaped
<1> QED
  BY <1>1, <1>2, <1>5, <1>6, <1>7

\* A core that may quote keeps its ladder and its pending re-place apart.
LEMMA QuoteKeeps ==
  ASSUME NEW s, Sound(s), ~Muted(s)
  PROVE  Keeps(s, Quote(s))
<1> SUFFICES Sound(Quote(s)) /\ Quote(s).phase = s.phase
  BY DEF Keeps, Muted
<1>0. Shaped(s) /\ Clear(s)
  BY DEF Sound
<1>1. CASE /\ s.rest_bucket_Sd # None /\ s.rest_bucket_Sd # s.ctx.spot_Sd
           /\ s.rolls = {} /\ s.ladder # {}
  <2> DEFINE u == _cancel_all_then_replace(s)
  <2>1. Keeps(s, u)
    BY <1>0, CancelAllThenReplaceKeeps
  <2>2. Quote(s) = [u EXCEPT !.rest_bucket_Sd = None]
    BY <1>1 DEF Quote
  <2> HIDE DEF u
  <2> QED
    BY <2>1, <2>2 DEF Keeps, Sound, Shaped, Clear
<1>2. CASE Quote(s) = s
  BY <1>2
<1>3. CASE Quote(s) = [s EXCEPT !.rest_allotment_done = TRUE]
  BY <1>0, <1>3 DEF Sound, Shaped, Clear
<1>4. CASE Quote(s) = _place_all([s EXCEPT !.awaiting_replace = FALSE])
  <2> DEFINE u == [s EXCEPT !.awaiting_replace = FALSE]
  <2>1. Shaped(u) /\ u.phase = s.phase /\ u.awaiting_replace = FALSE
    BY <1>0 DEF Shaped
  <2> HIDE DEF u
  <2>2. LET t == _place_all(u)
        IN Shaped(t) /\ t.phase = s.phase /\ t.awaiting_replace = FALSE
    BY <2>1, PlaceAllFacts
  <2>3. Quote(s) = _place_all(u)
    BY <1>4 DEF u
  <2> QED
    BY <2>2, <2>3 DEF Sound, Clear
<1>5. CASE Quote(s) = Rebalance(s) /\ ~(s.ladder = {} /\ s.rolls = {})
  <2>1. ~s.awaiting_replace
    BY <1>0, <1>5 DEF Clear
  <2> QED
    BY <1>0, <1>5, <2>1, RebalanceFacts DEF Sound, Clear
<1> QED
  BY <1>1, <1>2, <1>3, <1>4, <1>5 DEF Quote

\* _converge keeps a sound state sound and never quotes from a muted one.
LEMMA ConvergeKeeps ==
  ASSUME NEW s, Sound(s)
  PROVE  Keeps(s, _converge(s))
<1>0. Shaped(s) /\ Clear(s)
  BY DEF Sound
<1>1. CASE _converge(s) = s
  BY <1>1 DEF Keeps
<1>2. CASE _converge(s) = _cancel_all(s)
  BY <1>0, <1>2, CancelAllKeeps
<1>3. CASE _converge(s) = [_cancel_all(s) EXCEPT !.stood_down = TRUE]
  <2> DEFINE u == _cancel_all(s)
  <2>1. Keeps(s, u)
    BY <1>0, CancelAllKeeps
  <2> HIDE DEF u
  <2>2. LET t == [u EXCEPT !.stood_down = TRUE]
        IN /\ Shaped(t) /\ t.ladder = u.ladder /\ t.rolls = u.rolls /\ t.phase = u.phase
           /\ t.awaiting_replace = u.awaiting_replace /\ t.out = u.out /\ t.stood_down
    BY <2>1 DEF Keeps, Sound, Shaped
  <2>3. _converge(s) = [u EXCEPT !.stood_down = TRUE]
    BY <1>3 DEF u
  <2> QED
    BY <2>1, <2>2, <2>3 DEF Keeps, Sound, Clear, OnlyCancels
<1>4. CASE _converge(s) = StandAside(s)
  <2>1. CASE StandAside(s) = [s EXCEPT !.holding = TRUE]
    BY <1>0, <1>4, <2>1 DEF Keeps, Sound, Shaped, Clear, OnlyCancels
  <2>2. CASE StandAside(s) = _cancel_all_then_replace([s EXCEPT !.holding = FALSE])
    <3> DEFINE u == [s EXCEPT !.holding = FALSE]
    <3>1. Keeps(s, u) /\ Shaped(u)
      BY <1>0 DEF Keeps, Sound, Shaped, Clear, OnlyCancels
    <3> HIDE DEF u
    <3>2. Keeps(u, _cancel_all_then_replace(u))
      BY <3>1, CancelAllThenReplaceKeeps
    <3>3. StandAside(s) = _cancel_all_then_replace(u)
      BY <2>2 DEF u
    <3> QED
      BY <1>4, <3>1, <3>2, <3>3, KeepsTrans
  <2> QED
    BY <2>1, <2>2 DEF StandAside
<1>5. CASE _converge(s) = Quote([s EXCEPT !.holding = FALSE]) /\ ~NoQuote(s)
  <2> DEFINE u == [s EXCEPT !.holding = FALSE]
  <2>1. ~Muted(s)
    BY <1>5 DEF NoQuote, Muted
  <2>2. Keeps(s, u) /\ Sound(u) /\ u.phase = s.phase /\ u.stood_down = s.stood_down
    BY <1>0 DEF Keeps, Sound, Shaped, Clear, OnlyCancels
  <2> HIDE DEF u
  <2>3. Keeps(u, Quote(u))
    BY <2>1, <2>2, QuoteKeeps DEF Muted
  <2>4. _converge(s) = Quote(u)
    BY <1>5 DEF u
  <2> QED
    BY <2>2, <2>3, <2>4, KeepsTrans
<1> QED
  BY <1>1, <1>2, <1>3, <1>4, <1>5 DEF _converge

-----------------------------------------------------------------------------
(* Booking fills *)

\* An empty ladder stays empty when a fill is booked; the order actions change
\* only by cancels, when the fill's bucket cannot be named.
LEMMA BookRungFillKeeps ==
  ASSUME NEW s, Sound(s), NEW f
  PROVE  /\ Keeps(s, _book_rung_fill(s, f))
         /\ _book_rung_fill(s, f).awaiting_replace = s.awaiting_replace
<1> DEFINE mine == { o \in s.ladder : o.coid = f.coid }
           Sd == IF mine # {} THEN (CHOOSE o \in mine : TRUE).Sd
                 ELSE IF f.retained # None THEN f.retained ELSE f.ticker
           rest == { [o EXCEPT !.count = @ - f.count] : o \in { x \in mine : x.count > f.count } }
           k == IF s.ctx.n_top # None THEN _rung_of(s, f.price) ELSE f.rung
           b == [s EXCEPT !.booked[f.coid] = @ + f.count,
                          !.ladder = (@ \ mine) \cup rest,
                          !.margin_state = [j \in Rungs |-> IF j = k /\ ~f.orphan THEN 2 ELSE @[j]],
                          !.filled = @ + f.count,
                          !.rungs_filled = @ + 1]
           failed == IF b.ladder # {} THEN _cancel_all(b) ELSE b
           spent == \/ b.rungs_filled >= MaxSets
                    \/ b.ladder = {} /\ ~b.awaiting_replace /\ b.rolls = {} /\ b.outstanding_cancels = 0
           t == _book_rung_fill(s, f)
<1>1. \/ t = [failed EXCEPT !.bucket_unknown = TRUE, !.stood_down = TRUE,
                           !.rest_allotment_done = TRUE]
      \/ t = [b EXCEPT !.hedged[Sd] = @ + f.count, !.rest_allotment_done = @ \/ spent]
  <2>1. t = IF Sd = None
            THEN [failed EXCEPT !.bucket_unknown = TRUE, !.stood_down = TRUE,
                                !.rest_allotment_done = TRUE]
            ELSE [b EXCEPT !.hedged[Sd] = @ + f.count, !.rest_allotment_done = @ \/ spent]
    BY DEF _book_rung_fill
  <2> HIDE DEF t, b, failed, spent, Sd
  <2> QED
    BY <2>1, Zenon
<1>2. /\ Shaped(b) /\ b.ladder = (s.ladder \ mine) \cup rest /\ b.rolls = s.rolls
      /\ b.phase = s.phase /\ b.stood_down = s.stood_down /\ b.out = s.out
      /\ b.awaiting_replace = s.awaiting_replace
  BY DEF Sound, Shaped
<1>3. s.ladder = {} => b.ladder = {}
  BY <1>2
<1> HIDE DEF b
<1>4. Keeps(s, b)
  BY <1>2, <1>3 DEF Keeps, Sound, Clear, OnlyCancels
<1>5. Keeps(b, failed) /\ failed.awaiting_replace = s.awaiting_replace
  <2>1. CASE failed = b
    BY <1>2, <1>4, <2>1 DEF Keeps
  <2>2. CASE failed = _cancel_all(b)
    <3>1. _cancel_all(b).awaiting_replace = b.awaiting_replace
      BY <1>2 DEF _cancel_all, Cancelling, Shaped
    <3> QED
      BY <1>2, <2>2, <3>1, CancelAllKeeps
  <2> QED
    BY <2>1, <2>2
<1>6. Keeps(s, failed)
  BY <1>4, <1>5, KeepsTrans
<1> HIDE DEF failed
<1>7. CASE t = [failed EXCEPT !.bucket_unknown = TRUE, !.stood_down = TRUE,
                            !.rest_allotment_done = TRUE]
  <2>1. /\ Shaped(t) /\ t.ladder = failed.ladder /\ t.rolls = failed.rolls
        /\ t.phase = failed.phase /\ t.stood_down /\ t.out = failed.out
        /\ t.awaiting_replace = failed.awaiting_replace
    BY <1>6, <1>7 DEF Keeps, Sound, Shaped
  <2> QED
    BY <1>5, <1>6, <2>1 DEF Keeps, Sound, Clear, OnlyCancels
<1>8. CASE t = [b EXCEPT !.hedged[Sd] = @ + f.count, !.rest_allotment_done = @ \/ spent]
  <2>1. /\ Shaped(t) /\ t.ladder = b.ladder /\ t.rolls = b.rolls
        /\ t.phase = b.phase /\ t.stood_down = b.stood_down /\ t.out = b.out
        /\ t.awaiting_replace = b.awaiting_replace
    BY <1>2, <1>8 DEF Shaped
  <2> QED
    BY <1>2, <1>4, <2>1 DEF Keeps, Sound, Clear, OnlyCancels
<1> QED
  BY <1>1, <1>7, <1>8

\* Booking an orphan is booking a fill.
LEMMA BookOrphanFillKeeps ==
  ASSUME NEW s, Sound(s), NEW coid, NEW price, NEW count, NEW ticker, NEW retained
  PROVE  /\ Keeps(s, _book_orphan_fill(s, coid, price, count, ticker, retained))
         /\ _book_orphan_fill(s, coid, price, count, ticker, retained).awaiting_replace
              = s.awaiting_replace
BY BookRungFillKeeps DEF _book_orphan_fill

\* A state is one of the states it keeps.
LEMMA KeepsRefl == ASSUME NEW s, Sound(s) PROVE Keeps(s, s)
BY DEF Keeps

\* Bookkeeping fields may change freely.
LEMMA SeenKeeps ==
  ASSUME NEW s, Sound(s), NEW v
  PROVE  /\ Keeps(s, [s EXCEPT !.seen = v]) /\ Keeps(s, [s EXCEPT !.cross = v])
         /\ Keeps(s, [s EXCEPT !.cancel_pending_px = v])
BY DEF Keeps, Sound, Shaped, Clear, OnlyCancels

\* OrderAck fills in order ids, of none on an empty ladder.
LEMMA AckKeeps ==
  ASSUME NEW s, Sound(s), NEW e
  PROVE  Keeps(s, _apply_ack(s, e))
<1> DEFINE t == _apply_ack(s, e)
<1>1. /\ Shaped(t) /\ t.rolls = s.rolls /\ t.phase = s.phase /\ t.stood_down = s.stood_down
      /\ t.out = s.out /\ t.awaiting_replace = s.awaiting_replace
      /\ s.ladder = {} => t.ladder = {}
  BY DEF _apply_ack, Sound, Shaped
<1> QED
  BY <1>1 DEF Keeps, Sound, Clear, OnlyCancels

\* A fill of an order off the ladder books what is new in it.
LEMMA OrphanFillKeeps ==
  ASSUME NEW s, Sound(s), NEW e
  PROVE  Keeps(s, _apply_orphan_fill(s, e))
<1> DEFINE s1 == IF e.src = "poll" THEN s ELSE [s EXCEPT !.seen[e.coid] = @ + e.count]
<1>1. Keeps(s, s1)
  <2>1. CASE s1 = s
    BY <2>1, KeepsRefl
  <2>2. CASE s1 = [s EXCEPT !.seen[e.coid] = @ + e.count]
    BY <2>2 DEF Keeps, Sound, Shaped, Clear, OnlyCancels
  <2> QED
    BY <2>1, <2>2
<1> HIDE DEF s1
<1>2. Sound(s1)
  BY <1>1 DEF Keeps
<1>3. \A n, p, c, r : Keeps(s1, _book_orphan_fill(s1, e.coid, p, n, c, r))
  BY <1>2, BookOrphanFillKeeps
<1>4. \A n, p, c, r : Keeps(s, _book_orphan_fill(s1, e.coid, p, n, c, r))
  BY <1>1, <1>3, KeepsTrans
<1>5. \/ _apply_orphan_fill(s, e) = s1
      \/ \E n, p, c, r : _apply_orphan_fill(s, e) = _book_orphan_fill(s1, e.coid, p, n, c, r)
  BY DEF _apply_orphan_fill, s1
<1> QED
  BY <1>1, <1>4, <1>5

\* A private or polled fill books lots of a rung or of an orphan.
LEMMA FillKeeps ==
  ASSUME NEW s, Sound(s), NEW e
  PROVE  Keeps(s, _apply_fill(s, e))
<1> DEFINE s0 == _clear_cancel_pending(s, e.oid)
           o == CHOOSE x \in s0.ladder : x.coid = e.coid
           s1 == IF e.src = "poll" THEN s0 ELSE [s0 EXCEPT !.seen[e.coid] = @ + e.count]
           oid == IF o.oid # None THEN o.oid ELSE e.oid
           skip == IF oid = None THEN 0 ELSE Minimum(s1.cross[oid], e.count)
           s2 == IF skip = 0 THEN s1 ELSE [s1 EXCEPT !.cross[oid] = @ - skip]
<1>1. Keeps(s, s0) /\ Sound(s0)
  BY SeenKeeps DEF _clear_cancel_pending, Keeps
<1>2. \/ _apply_fill(s, e) = _apply_orphan_fill(s0, e)
      \/ _apply_fill(s, e) = s2
      \/ \E f : _apply_fill(s, e) = _book_rung_fill(s2, f)
  BY DEF _apply_fill
<1> HIDE DEF s0
<1>3. Keeps(s0, s1)
  <2>1. CASE s1 = s0
    BY <1>1, <2>1, KeepsRefl
  <2>2. CASE s1 = [s0 EXCEPT !.seen[e.coid] = @ + e.count]
    BY <1>1, <2>2 DEF Keeps, Sound, Shaped, Clear, OnlyCancels
  <2> QED
    BY <2>1, <2>2
<1>4. Keeps(s, s1) /\ Sound(s1)
  BY <1>1, <1>3, KeepsTrans, KeepsSound
<1> HIDE DEF s1, oid, skip
<1>5. Keeps(s1, s2)
  <2>1. CASE s2 = s1
    BY <1>4, <2>1, KeepsRefl
  <2>2. CASE s2 = [s1 EXCEPT !.cross[oid] = @ - skip]
    BY <1>4, <2>2 DEF Keeps, Sound, Shaped, Clear, OnlyCancels
  <2> QED
    BY <2>1, <2>2
<1>6. Keeps(s, s2) /\ Sound(s2)
  BY <1>4, <1>5, KeepsTrans, KeepsSound
<1> HIDE DEF s2
<1>7. Keeps(s0, _apply_orphan_fill(s0, e))
  BY <1>1, OrphanFillKeeps
<1>8. \A f : Keeps(s2, _book_rung_fill(s2, f))
  BY <1>6, BookRungFillKeeps
<1> QED
  BY <1>1, <1>2, <1>6, <1>7, <1>8, KeepsTrans

\* Dropping orders and rolls, and resetting a timer, keeps a state.
LEMMA DropKeeps ==
  ASSUME NEW s, Sound(s), NEW coid
  PROVE  Keeps(s, _drop_roll(s, coid)) /\ Keeps(s, _drop_order(s, coid))
<1> DEFINE t == _drop_roll(s, coid)
           u == _drop_order(s, coid)
<1>1. /\ Shaped(t) /\ t.ladder = s.ladder /\ t.phase = s.phase /\ t.stood_down = s.stood_down
      /\ t.out = s.out /\ t.awaiting_replace = s.awaiting_replace
      /\ s.rolls = {} => t.rolls = {}
  BY DEF _drop_roll, Sound, Shaped
<1>2. /\ Shaped(u) /\ u.rolls = s.rolls /\ u.phase = s.phase /\ u.stood_down = s.stood_down
      /\ u.out = s.out /\ u.awaiting_replace = s.awaiting_replace
      /\ s.ladder = {} => u.ladder = {}
  BY DEF _drop_order, Sound, Shaped
<1> HIDE DEF t, u
<1>3. Keeps(s, t)
  BY <1>1 DEF Keeps, Sound, Clear, OnlyCancels
<1>4. Keeps(s, u)
  BY <1>2 DEF Keeps, Sound, Clear, OnlyCancels
<1> QED
  BY <1>3, <1>4 DEF t, u

\* The re-place of a failed roll: an order moves from the ladder to the ladder, so
\* no re-place was awaited, and a muted core places nothing.
LEMMA RollFallbackKeeps ==
  ASSUME NEW s, Sound(s), NEW r
  PROVE  Keeps(s, RollFallback(s, r))
<1> DEFINE mover == { o \in s.ladder : o.coid = r.old }
           count == IF mover = {} THEN 0 ELSE (CHOOSE o \in mover : TRUE).count
           s0 == _drop_roll(s, r.old)
           s1 == _drop_order(s0, r.old)
           target == IF s.ctx.cap # None THEN Minimum(r.target, s.ctx.cap) ELSE r.target
           placed == _place_one(s1, target, count)
<1>1. Keeps(s, s0) /\ Sound(s0)
  BY DropKeeps, KeepsSound
<1>2. s1.awaiting_replace = s.awaiting_replace
  BY <1>1 DEF _drop_roll, _drop_order, Sound, Shaped
<1> HIDE DEF s0
<1>3. Keeps(s0, s1)
  BY <1>1, DropKeeps
<1> HIDE DEF s1
<1>4. Keeps(s, s1) /\ Sound(s1)
  BY <1>1, <1>3, KeepsTrans, KeepsSound
<1>5. \/ RollFallback(s, r) = _converge(s1)
      \/ /\ RollFallback(s, r) = _converge(placed)
         /\ ~s1.stood_down /\ count > 0 /\ s1.phase = "quoting"
  BY DEF RollFallback, s1, s0
<1>6. CASE RollFallback(s, r) = _converge(s1)
  BY <1>4, <1>6, ConvergeKeeps, KeepsTrans
<1>7. CASE /\ RollFallback(s, r) = _converge(placed)
           /\ ~s1.stood_down /\ count > 0 /\ s1.phase = "quoting"
  <2>1. s.ladder # {}
    BY <1>7
  <2>2. ~s1.awaiting_replace
    BY <1>2, <2>1 DEF Sound, Clear
  <2>3. /\ Shaped(placed) /\ placed.phase = s1.phase
        /\ placed.awaiting_replace = s1.awaiting_replace
    BY <1>4, PlacingFacts DEF _place_one, Sound
  <2> HIDE DEF placed
  <2>4. Sound(placed)
    BY <2>2, <2>3 DEF Sound, Clear
  <2>5. Keeps(s1, placed)
    BY <1>7, <2>3, <2>4 DEF Keeps, Muted
  <2> QED
    BY <1>4, <1>7, <2>4, <2>5, ConvergeKeeps, KeepsTrans
<1> QED
  BY <1>5, <1>6, <1>7

\* A cancel confirm books nothing or one fill.
LEMMA BookCancelFillKeeps ==
  ASSUME NEW s, Sound(s), NEW e
  PROVE  Keeps(s, BookCancelFill(s, e))
<1>1. \A f : Keeps(s, _book_rung_fill(s, f))
  BY BookRungFillKeeps
<1>2. \A c, p, n, b, r : Keeps(s, _book_orphan_fill(s, c, p, n, b, r))
  BY BookOrphanFillKeeps
<1>3. Keeps(s, s)
  BY KeepsRefl
<1> QED
  BY <1>1, <1>2, <1>3 DEF BookCancelFill

\* A plain cancel drops its slot and counts itself off.
LEMMA ResolvedKeeps ==
  ASSUME NEW s, Sound(s), NEW e, NEW live
  PROVE  Keeps(s, Resolved(s, e, live))
<1> DEFINE t == Resolved(s, e, live)
<1>1. /\ Shaped(t) /\ t.rolls = s.rolls /\ t.phase = s.phase /\ t.stood_down = s.stood_down
      /\ t.out = s.out /\ t.awaiting_replace = s.awaiting_replace
      /\ s.ladder = {} => t.ladder = {}
  BY DEF Resolved, Sound, Shaped
<1> QED
  BY <1>1 DEF Keeps, Sound, Clear, OnlyCancels

\* OrderCancelled
LEMMA CancelledKeeps ==
  ASSUME NEW s, Sound(s), NEW e
  PROVE  Keeps(s, _apply_cancelled(s, e))
<1> DEFINE s0 == _clear_cancel_pending(s, e.oid)
           live == Named(s0, e)
           s1 == BookCancelFill(s0, e)
           rolls == { r \in s1.rolls : IF e.oid # None THEN r.oid = e.oid ELSE r.old = e.coid }
<1>1. Keeps(s, s0) /\ Sound(s0)
  BY SeenKeeps DEF _clear_cancel_pending, Keeps
<1>2. \/ _apply_cancelled(s, e) = RollFallback(s1, CHOOSE r \in rolls : TRUE)
      \/ _apply_cancelled(s, e) = _converge(Resolved(s1, e, live))
  BY DEF _apply_cancelled
<1> HIDE DEF s0
<1>3. Keeps(s0, s1)
  BY <1>1, BookCancelFillKeeps
<1> HIDE DEF s1, live
<1>4. Keeps(s, s1) /\ Sound(s1)
  BY <1>1, <1>3, KeepsTrans, KeepsSound
<1>5. Keeps(s1, RollFallback(s1, CHOOSE r \in rolls : TRUE))
  BY <1>4, RollFallbackKeeps
<1>6. Keeps(s1, Resolved(s1, e, live)) /\ Sound(Resolved(s1, e, live))
  BY <1>4, ResolvedKeeps, KeepsSound
<1>7. Keeps(s1, _converge(Resolved(s1, e, live)))
  BY <1>6, ConvergeKeeps, KeepsTrans
<1> HIDE DEF rolls
<1> QED
  BY <1>2, <1>4, <1>5, <1>7, KeepsTrans

\* OrderAmended
LEMMA AmendedKeeps ==
  ASSUME NEW s, Sound(s), NEW e
  PROVE  Keeps(s, _apply_amended(s, e))
<1> DEFINE rolls == { r \in s.rolls : r.oid = e.oid \/ r.old = e.coid \/ r.new = e.coid }
           r == CHOOSE x \in rolls : TRUE
           s1 == _drop_roll(s, r.old)
           moving == { o \in s1.ladder : o.coid = r.old }
           label == IF s.ctx.n_top # None THEN _rung_of(s, e.price) ELSE r.rung
           moved == { [o EXCEPT !.coid = r.new, !.price = e.price, !.rung = label] : o \in moving }
           s2 == [s1 EXCEPT
                    !.ladder = (@ \ moving) \cup moved,
                    !.booked = [s1.booked EXCEPT ![r.new] = @ + s1.booked[r.old], ![r.old] = 0],
                    !.now.late = FALSE]
           f == [coid |-> r.new, price |-> e.price, count |-> e.fill,
                 rung |-> label, retained |-> None, ticker |-> None, orphan |-> FALSE]
           s3 == _book_rung_fill(s2, f)
           s4 == IF \E o \in s3.ladder : o.coid = r.new
                 THEN [s3 EXCEPT !.cross[e.oid] = @ + e.fill] ELSE s3
<1>1. \/ _apply_amended(s, e) = s
      \/ _apply_amended(s, e) = _converge(s1)
      \/ _apply_amended(s, e) = _converge(s4)
      \/ _apply_amended(s, e) = _converge(s2)
  BY DEF _apply_amended
<1>2. Keeps(s, s1) /\ Sound(s1)
  BY DropKeeps, KeepsSound
<1> HIDE DEF s1
<1>3. /\ Shaped(s2) /\ s2.ladder = (s1.ladder \ moving) \cup moved
      /\ s2.rolls = s1.rolls /\ s2.phase = s1.phase /\ s2.stood_down = s1.stood_down
      /\ s2.out = s1.out /\ s2.awaiting_replace = s1.awaiting_replace
  BY <1>2 DEF Sound, Shaped
<1>4. s1.ladder = {} => s2.ladder = {}
  BY <1>3
<1> HIDE DEF s2
<1>5. Keeps(s1, s2) /\ Sound(s2)
  BY <1>2, <1>3, <1>4 DEF Keeps, Sound, Clear, OnlyCancels
<1> HIDE DEF f
<1>6. Keeps(s2, s3) /\ Sound(s3)
  BY <1>5, BookRungFillKeeps, KeepsSound
<1> HIDE DEF s3
<1>7. Keeps(s3, s4)
  <2>1. CASE s4 = s3
    BY <1>6, <2>1, KeepsRefl
  <2>2. CASE s4 = [s3 EXCEPT !.cross[e.oid] = @ + e.fill]
    BY <1>6, <2>2 DEF Keeps, Sound, Shaped, Clear, OnlyCancels
  <2> QED
    BY <2>1, <2>2
<1> HIDE DEF s4
<1>8. Keeps(s, s2)
  BY <1>2, <1>5, KeepsTrans
<1>9. Keeps(s, s4) /\ Sound(s4)
  BY <1>6, <1>7, <1>8, KeepsTrans, KeepsSound
<1>10. Keeps(s, s)
  BY KeepsRefl
<1> QED
  BY <1>1, <1>2, <1>5, <1>8, <1>9, <1>10, ConvergeKeeps, KeepsTrans

\* BookUpdate and ClockTick relabel the ladder and converge.
LEMMA TickKeeps ==
  ASSUME NEW s, Sound(s), NEW c
  PROVE  Keeps(s, Tick(s, c))
<1> DEFINE t == [s EXCEPT
                   !.ctx = c,
                   !.ladder = IF c.n_top = None THEN @
                              ELSE { [o EXCEPT !.rung = c.n_top - o.price] : o \in @ }]
<1>1. /\ Shaped(t) /\ t.rolls = s.rolls /\ t.phase = s.phase /\ t.stood_down = s.stood_down
      /\ t.out = s.out /\ t.awaiting_replace = s.awaiting_replace
      /\ s.ladder = {} => t.ladder = {}
  BY DEF Sound, Shaped
<1>2. Tick(s, c) = _converge(t)
  BY DEF Tick
<1> HIDE DEF t
<1>3. Keeps(s, t) /\ Sound(t)
  BY <1>1 DEF Keeps, Sound, Clear, OnlyCancels
<1> QED
  BY <1>2, <1>3, ConvergeKeeps, KeepsTrans

-----------------------------------------------------------------------------
(* The specification *)

\* The inductive invariant: the state is sound and its actions are dispatched.
Inv == Sound(st) /\ st.out = {}

\* What one step guarantees: the invariant again, and cancels only from a muted core.
Good == Inv' /\ (Muted(st) => \A r \in net' \ net : r.kind = "cancel")

\* A window starts in the invariant.
LEMMA InitInv == Init => Inv
BY NewStateSound DEF Init, Inv

\* Pumping a decision that keeps the state is good.
LEMMA PumpGood ==
  ASSUME Inv, NEW s, Keeps(st, s), _pump(s)
  PROVE  Good
<1> DEFINE t == [s EXCEPT !.out = {}, !.now = NewState.now]
<1>1. Shaped(s) /\ Clear(s)
  BY DEF Keeps, Sound
<1>2. /\ Shaped(t) /\ t.ladder = s.ladder /\ t.rolls = s.rolls /\ t.out = {}
      /\ t.awaiting_replace = s.awaiting_replace
  BY <1>1 DEF Shaped
<1>3. st' = t /\ net' = net \cup s.out
  BY DEF _pump
<1> HIDE DEF t
<1>4. Inv'
  BY <1>1, <1>2, <1>3 DEF Inv, Sound, Shaped, Clear
<1>5. Muted(st) => OnlyCancels(s)
  BY DEF Keeps, Inv, OnlyCancels
<1> QED
  BY <1>3, <1>4, <1>5 DEF Good, OnlyCancels

\* A decision reads the clock first.
LEMMA NowKeeps ==
  ASSUME NEW s, Sound(s), NEW now
  PROVE  Keeps(s, [s EXCEPT !.now = now]) /\ Sound([s EXCEPT !.now = now])
BY DEF Keeps, Sound, Shaped, Clear, OnlyCancels

\* A step that leaves the core alone and dispatches nothing but cancels is good.
LEMMA ExecutorGood ==
  ASSUME Inv, st' = st, \A r \in net' \ net : r.kind = "cancel"
  PROVE  Good
BY DEF Good, Inv

\* A market or clock tick is good.
LEMMA TickingGood == ASSUME Inv, Ticking PROVE Good
<1>1. PICK c \in Contexts, now \in Clocks : _pump(Tick([st EXCEPT !.now = now], c))
  BY DEF Ticking, on_tick
<1> DEFINE s == [st EXCEPT !.now = now]
<1>2. Keeps(st, s) /\ Sound(s)
  BY NowKeeps DEF Inv
<1>3. _pump(Tick(s, c))
  BY <1>1
<1> HIDE DEF s
<1>4. Keeps(st, Tick(s, c))
  BY <1>2, TickKeeps, KeepsTrans
<1> QED
  BY <1>3, <1>4, PumpGood

\* So is the ingestion of an ack, an amend or a cancel confirm,
LEMMA IngestingGood == ASSUME Inv, Ingesting PROVE Good
<1>1. PICK e \in inbox, now \in Clocks : _ingest(e, now)
  BY DEF Ingesting
<1> DEFINE s == [st EXCEPT !.now = now]
<1>2. Keeps(st, s) /\ Sound(s)
  BY NowKeeps DEF Inv
<1>3. _pump(_apply_ack(s, e)) \/ _pump(_apply_amended(s, e)) \/ _pump(_apply_cancelled(s, e))
  BY <1>1 DEF _ingest
<1> HIDE DEF s
<1>4. /\ Keeps(st, _apply_ack(s, e)) /\ Keeps(st, _apply_amended(s, e))
      /\ Keeps(st, _apply_cancelled(s, e))
  BY <1>2, AckKeeps, AmendedKeeps, CancelledKeeps, KeepsTrans
<1> QED
  BY <1>3, <1>4, PumpGood

\* of a fill from the private feed or the order poll,
LEMMA FillsGood ==
  ASSUME Inv, (\E m \in ws : on_fill(m)) \/ (\E oid \in polled : on_poll_fill(oid))
  PROVE  Good
<1>1. (st' = st /\ net' = net) \/ \E e : _pump(_apply_fill(st, e))
  BY DEF on_fill, on_poll_fill
<1>2. \A e : Keeps(st, _apply_fill(st, e))
  BY FillKeeps DEF Inv
<1>3. CASE st' = st /\ net' = net
  BY <1>3, ExecutorGood
<1>4. CASE \E e : _pump(_apply_fill(st, e))
  BY <1>2, <1>4, PumpGood
<1> QED
  BY <1>1, <1>3, <1>4

\* and the opening or closing of the quoting window.
LEMMA ClockGood == ASSUME Inv, Clock PROVE Good
<1>1. PICK p : st' = [st EXCEPT !.phase = p] /\ net' = net
  BY DEF Clock, QuoteStarts, QuoteEnds
<1>2. Inv'
  BY <1>1 DEF Inv, Sound, Shaped, Clear
<1> QED
  BY <1>1, <1>2 DEF Good

\* The executor's own dispatches are cancels: a deferred one, the one a failed
\* amend falls back to, or one re-addressed by its order id.
LEMMA ExecutorSteps == ASSUME Inv, Executor PROVE Good
<1> SUFFICES st' = st /\ \A r \in net' \ net : r.kind = "cancel"
  BY ExecutorGood
<1>1. CASE \E r \in net : SkipBeforePost(r) \/ PostCreate(r) \/ RejectCreate(r) \/ DuplicateDelete(r)
  BY <1>1 DEF SkipBeforePost, PostCreate, RejectCreate, DuplicateDelete
<1>2. CASE \E r \in net : CancelUnacked(r)
  BY <1>2 DEF CancelUnacked
<1>3. CASE \E r \in net : AmendFails(r)
  BY <1>3 DEF AmendFails
<1>4. CASE \E r \in net : \E readable \in BOOLEAN : Delete(r, readable)
  BY <1>4 DEF Delete
<1>5. CASE \E r \in net : \E n \in 0..MaxLot : PostAmend(r, n)
  BY <1>5 DEF PostAmend
<1>6. CASE \E a \in resp : CreateAcked(a)
  BY <1>6 DEF CreateAcked
<1>7. CASE \E a \in resp : AmendConfirmed(a)
  BY <1>7 DEF AmendConfirmed
<1> QED
  BY <1>1, <1>2, <1>3, <1>4, <1>5, <1>6, <1>7 DEF Executor

\* Every step is good.
LEMMA NextGood == ASSUME Inv, [Next]_vars PROVE Good
<1>1. CASE UNCHANGED vars
  <2>1. st' = st /\ net' = net
    BY <1>1 DEF vars
  <2> QED
    BY <2>1, ExecutorGood
<1>2. CASE PollStarts
  BY <1>2, ExecutorGood DEF PollStarts
<1>3. CASE \E oid \in Coids, n \in 1..MaxLot : VenueFill(oid, n)
  <2>1. st' = st /\ net' = net
    BY <1>3 DEF VenueFill
  <2> QED
    BY <2>1, ExecutorGood
<1> QED
  BY <1>1, <1>2, <1>3, TickingGood, IngestingGood, FillsGood, ClockGood, ExecutorSteps DEF Next

\* For every ladder, market and schedule of the executor: a pending re-place and a
\* quoted or rolling order never coexist (check_invariants of core.py).
THEOREM AwaitingClearTheorem == Spec => []AwaitingClear
<1>1. Init => Inv
  BY InitInv
<1>2. Inv /\ [Next]_vars => Inv'
  BY NextGood DEF Good
<1>3. Inv => AwaitingClear
  BY DEF Inv, Sound, Clear, AwaitingClear
<1> QED
  BY <1>1, <1>2, <1>3, PTL DEF Spec

\* Whatever is in flight when quoting ends or the core stands down, no decision
\* asks for a create or an amend again (GATE C(iii) of _apply_cancelled).
THEOREM NoQuoteAfterEndTheorem == Spec => NoQuoteAfterEnd
<1>1. Init => Inv
  BY InitInv
<1>2. Inv /\ [Next]_vars => Inv'
  BY NextGood DEF Good
<1>3. Inv /\ [Next]_vars =>
        [st.phase = "ended" \/ st.stood_down => \A r \in net' \ net : r.kind = "cancel"]_vars
  BY NextGood DEF Good, Muted
<1> QED
  BY <1>1, <1>2, <1>3, PTL DEF Spec, NoQuoteAfterEnd
=============================================================================
