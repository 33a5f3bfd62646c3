------------------------------- MODULE Wings --------------------------------
(***************************************************************************)
(* The wing half of decide_v33 (pilot/service/v33/core.py) and the takes   *)
(* of the asynchronous executor (_take_wings_async): rung fills are        *)
(* coalesced into batches, each batch buys YES on its lower and NO on its  *)
(* upper strike as immediate-or-cancel orders, and a leg that did not fill *)
(* is retried.  A take runs as a coroutine over the snapshot of the state  *)
(* at its dispatch, so several takes, their results and the decisions      *)
(* interleave.                                                             *)
(*                                                                         *)
(* Abstractions                                                            *)
(*  - buckets are consecutive numbers: bucket b has the strikes b and      *)
(*    b + 1, so the NO wing of b and the YES wing of b + 1 are one market; *)
(*  - prices are whether a strike's ask passes the wing law (asks) and     *)
(*    whether the projected lock is at the floor or above (lock);          *)
(*  - time is the input now: open says that the coalescing window of the   *)
(*    open group still runs, cool that the retry floor of every leg has    *)
(*    passed;                                                              *)
(*  - a chunk is one lot (wing_cap = 1); the sub-batches of a take are one *)
(*    step at the exchange, in which any of them may be rate-limited;      *)
(*  - a count is a number of whole lots;                                   *)
(*  - print_through is off.                                                *)
(***************************************************************************)
EXTENDS Integers, Sequences, FiniteSets, FiniteSetsExt, Functions

CONSTANTS
  Buckets,       \* bucket floors Sd
  MaxBatches,    \* bound on the batches of a window
  MaxLots,       \* bound on the lots of a rung fill, and on the fills of a window
  MaxTakes,      \* bound on the takes dispatched
  Nows,          \* what a decision may read of the clock and of the books (see Now)
  RateLimited,   \* the exchange may answer 429
  Lossy,         \* a response may be lost
  ConfirmFails   \* the fills query after a lost response may fail as well

Sides == {"yes", "no"}

\* a member of Nows: the coalescing window of the open group runs, the retry floor has
\* passed, the projected lock is at the floor or above, and the asks that pass the wing law
Now == [open : BOOLEAN, cool : BOOLEAN, lock : BOOLEAN, asks : SUBSET (Nat \X Sides)]

ASSUME WingsAssumption ==
  /\ Buckets \subseteq Nat \ {0} /\ IsFiniteSet(Buckets)
  /\ MaxBatches \in Nat /\ MaxLots \in Nat /\ MaxTakes \in Nat
  /\ Nows \subseteq Now
  /\ RateLimited \in BOOLEAN /\ Lossy \in BOOLEAN /\ ConfirmFails \in BOOLEAN

Keys == (1..MaxBatches) \X Sides
None == 0

Batch == [Sd : Buckets, lots : [Buckets -> Nat], taken : BOOLEAN, completed : BOOLEAN,
          one_legged : BOOLEAN]

WingLeg == [batch : 1..MaxBatches, side : Sides, count : Nat, coid : Nat,
            status : {"pending", "filled", "unfilled"}, retried : BOOLEAN, netted : Nat]

VARIABLES
  group,       \* coalesce_open: [Sd, lots], or NoGroup
  batches,     \* wing_batches, by index
  legs,        \* wing_legs
  coid_seq,    \* the last client order id minted
  sets_done,   \* completed sets
  unknown,     \* bucket_unknown: a fill could not be attributed to a bucket
  cutoff,      \* past no_orders_after_s_to_settle
  booked,      \* lots booked per bucket (the rung fills handed to the wings)
  takes,       \* take coroutines, by dispatch
  inflight,    \* _wing_inflight_legs: (batch, side) with an order in flight
  wing_filled, \* _wing_filled: lots the executor has read as bought
  known,       \* _wing_order_ids: the orders whose fills have been read
  orders,      \* orders with lots bought at the exchange
  missed,      \* lots bought that a failed fills query did not report
  backoff      \* inside the window after a 429

core == <<group, batches, legs, coid_seq, sets_done, unknown>>
executor == <<inflight, wing_filled, known, backoff>>
exchange == <<orders, missed>>
vars == <<core, cutoff, booked, takes, executor, exchange>>

NoGroup == [Sd |-> None, lots |-> [b \in Buckets |-> 0]]

Init ==
  /\ group = NoGroup /\ batches = <<>> /\ legs = <<>> /\ coid_seq = 0
  /\ sets_done = 0 /\ unknown = FALSE /\ cutoff = FALSE
  /\ booked = [b \in Buckets |-> 0]
  /\ takes = <<>>
  /\ inflight = {} /\ wing_filled = [k \in Keys |-> 0] /\ backoff = FALSE
  /\ known = {} /\ orders = {} /\ missed = 0

-----------------------------------------------------------------------------
(* The pure core: operators on s = [group, batches, legs, coid_seq, out] *)

State == [group |-> group, batches |-> batches, legs |-> legs, coid_seq |-> coid_seq,
          out |-> FALSE]

\* the sum of the values of a function
Total(lots) == FoldFunction(+, 0, lots)

\* the market a leg trades on: YES on the lower strike, NO on the upper one
Strike(Sd, side) == IF side = "yes" THEN Sd ELSE Sd + 1

\* an expired group becomes a batch, on the bucket of its first fill
_coalesce_flush(s, now) ==
  IF s.group = NoGroup \/ now.open THEN s
  ELSE [s EXCEPT !.batches = Append(@, [Sd |-> s.group.Sd, lots |-> s.group.lots, taken |-> FALSE,
                                       completed |-> FALSE, one_legged |-> FALSE]),
                 !.group = NoGroup]

_coalesce_add(s, Sd, n, now) ==
  LET t == _coalesce_flush(s, now)
      g == IF t.group = NoGroup THEN [NoGroup EXCEPT !.Sd = Sd] ELSE t.group
  IN [t EXCEPT !.group = [g EXCEPT !.lots[Sd] = @ + n]]

\* the initial take: one pending leg per wing that has an ask; a wing without one
\* is recorded as an unfilled leg that was never sent
TakeLeg(s, i, side, sent, coid) ==
  [batch |-> i, side |-> side, count |-> Total(s.batches[i].lots),
   coid |-> IF sent THEN coid ELSE None, status |-> IF sent THEN "pending" ELSE "unfilled",
   retried |-> FALSE, netted |-> 0]

Taking(s, i, new, minted) ==
  [s EXCEPT !.legs = @ \o new, !.batches[i].taken = TRUE, !.coid_seq = @ + minted, !.out = TRUE]

_take_batch(s, i) ==
  Taking(s, i, <<TakeLeg(s, i, "yes", TRUE, s.coid_seq + 1),
                 TakeLeg(s, i, "no", TRUE, s.coid_seq + 2)>>, 2)

_take_batch_partial(s, i, side) ==
  LET other == IF side = "yes" THEN "no" ELSE "yes"
  IN Taking(s, i, <<TakeLeg(s, i, side, TRUE, s.coid_seq + 1), TakeLeg(s, i, other, FALSE, None)>>, 1)

\* the unfilled legs of a batch are sent again, each under a new client id
_retry_batch(s, i, now) ==
  LET again == { k \in DOMAIN s.legs :
                   /\ s.legs[k].batch = i /\ s.legs[k].status = "unfilled"
                   /\ ~s.legs[k].retried \/ now.cool }
      CoidFor(k) == s.coid_seq + Cardinality({ j \in again : j <= k })
  IN IF ~now.lock \/ again = {} THEN s
     ELSE [s EXCEPT
             !.legs = [k \in DOMAIN @ |->
                         IF k \in again
                         THEN [@[k] EXCEPT !.status = "pending", !.coid = CoidFor(k), !.retried = TRUE]
                         ELSE @[k]],
             !.coid_seq = @ + Cardinality(again), !.out = TRUE]

\* what _wing_step does for batch i: both asks take or retry it, one ask takes it in part
StepBatch(s, i, now) ==
  LET b == s.batches[i]
      priced == { side \in Sides : <<Strike(b.Sd, side), side>> \in now.asks }
  IN IF b.completed \/ priced = {} THEN s
     ELSE IF priced = Sides THEN (IF b.taken THEN _retry_batch(s, i, now) ELSE _take_batch(s, i))
     ELSE IF b.taken THEN s
     ELSE _take_batch_partial(s, i, IF "yes" \in priced THEN "yes" ELSE "no")

BatchLegs(s, i) == { k \in DOMAIN s.legs : s.legs[k].batch = i }

\* both legs of the batch are filled
WingsHeld(s, i) ==
  BatchLegs(s, i) # {} /\ \A k \in BatchLegs(s, i) : s.legs[k].status = "filled"

StepBatches(s, now) ==
  LET step[i \in 0..Len(s.batches)] == IF i = 0 THEN s ELSE StepBatch(step[i - 1], i, now)
  IN step[Len(s.batches)]

_wing_step(s, now, late) ==
  LET t == _coalesce_flush(s, now)
  IN IF late
     THEN [t EXCEPT !.batches = [i \in DOMAIN @ |->
             IF @[i].completed \/ WingsHeld(t, i) THEN @[i] ELSE [@[i] EXCEPT !.one_legged = TRUE]]]
     ELSE StepBatches(t, now)

\* D5: the leg just filled nets against opposite filled legs on its market, in order
_net_wings(s, k) ==
  LET L == s.legs[k]
      Market(j) == Strike(s.batches[s.legs[j].batch].Sd, s.legs[j].side)
      Free(j) == s.legs[j].count - s.legs[j].netted
      opposite == { j \in DOMAIN s.legs :
                      /\ Market(j) = Market(k) /\ s.legs[j].side # L.side
                      /\ s.legs[j].status = "filled" /\ Free(j) > 0 }
      Before(j) == Total([i \in { i \in opposite : i < j } |-> Free(i)])
      Part(j) == LET left == Free(k) - Before(j)
                 IN IF left <= 0 THEN 0 ELSE IF left < Free(j) THEN left ELSE Free(j)
      all == Total([j \in opposite |-> Part(j)])
      more == [j \in DOMAIN s.legs |->
                 IF j = k THEN [L EXCEPT !.netted = @ + all]
                 ELSE IF j \in opposite THEN [s.legs[j] EXCEPT !.netted = @ + Part(j)]
                 ELSE s.legs[j]]
  IN [s EXCEPT !.legs = more]

\* a Fill of a wing leg: count 0 reports a leg that is not complete
ApplyWingFill(s, k, count) ==
  IF count = 0 THEN [s EXCEPT !.legs[k].status = "unfilled"]
  ELSE _net_wings([s EXCEPT !.legs[k].status = "filled"], k)

\* _maybe_close_set
Closes(s, i) == ~s.batches[i].completed /\ WingsHeld(s, i)

_maybe_close_set(s, i) ==
  IF Closes(s, i)
  THEN [s EXCEPT !.batches[i] = [@ EXCEPT !.completed = TRUE, !.one_legged = FALSE]] ELSE s

-----------------------------------------------------------------------------
(* The driver: a decision, and the dispatch of its takes *)

Stage(n, stage) == takes[n].stage = stage

Done == [stage |-> "done", legs |-> <<>>, mine |-> {}, got |-> <<>>, lost |-> {}]

\* by their place in wing_legs, which never changes
PendingLegs(s) == Restrict(s.legs, { k \in DOMAIN s.legs : s.legs[k].status = "pending" })

\* the coroutine is handed the pending legs of the state it was dispatched with; mine
\* are the ones it answers for, got what it counts for each, lost those to look up
Dispatched(s) ==
  [stage |-> "dispatched", legs |-> PendingLegs(s), mine |-> {},
   got |-> [k \in DOMAIN PendingLegs(s) |-> 0], lost |-> {}]

_pump_async(s) ==
  /\ Len(s.batches) <= MaxBatches
  /\ Len(takes) < MaxTakes \/ ~s.out
  /\ group' = s.group /\ batches' = s.batches /\ legs' = s.legs /\ coid_seq' = s.coid_seq
  /\ takes' = IF s.out THEN Append(takes, Dispatched(s)) ELSE takes

\* a rung fill is booked (the ladder's part of it is in LadderCore)
_book_rung_fill(Sd, n, now) ==
  /\ Total(booked) + n <= MaxLots
  /\ booked' = [booked EXCEPT ![Sd] = @ + n]
  /\ _pump_async(_wing_step(_coalesce_add(State, Sd, n, now), [now EXCEPT !.open = TRUE], cutoff))
  /\ UNCHANGED <<sets_done, unknown, cutoff, executor, exchange>>

\* a book update, a trade or a clock tick
on_tick(now) ==
  /\ _pump_async(_wing_step(State, now, cutoff))
  /\ UNCHANGED <<sets_done, unknown, cutoff, booked, executor, exchange>>

Cutoff == /\ ~cutoff /\ cutoff' = TRUE
          /\ UNCHANGED <<core, booked, takes, executor, exchange>>

\* the legs a Fill for leg k of take t finds by its client id
Match(s, t, k) == { j \in DOMAIN s.legs : s.legs[j].coid = t.legs[k].coid }

\* the Fills of a take re-enter decide_v33 one after the other; a Fill whose client id
\* no leg has any more goes the way of an orphan rung fill, whose bucket nothing names
ApplyReport(s, t, k) ==
  IF k \notin t.mine \/ Match(s, t, k) = {} THEN s
  ELSE LET j == Min(Match(s, t, k))
       IN _maybe_close_set(ApplyWingFill(s, j, t.got[k]), s.legs[j].batch)

Reported(t) ==
  LET after[k \in 0..Len(legs)] == IF k = 0 THEN State ELSE ApplyReport(after[k - 1], t, k) IN after

_ingest_async(n) ==
  /\ Stage(n, "returned")
  /\ takes' = [takes EXCEPT ![n] = Done]
  /\ LET t == takes[n]
         after == Reported(t)
         s == after[Len(legs)]
         closed == { i \in DOMAIN batches : s.batches[i].completed /\ ~batches[i].completed }
     IN /\ batches' = s.batches /\ legs' = s.legs
        /\ sets_done' = sets_done + Total([i \in closed |-> Total(batches[i].lots)])
        /\ unknown' = (unknown \/ \E k \in t.mine : t.got[k] > 0 /\ Match(after[k - 1], t, k) = {})
  /\ UNCHANGED <<group, coid_seq, cutoff, booked, executor, exchange>>

-----------------------------------------------------------------------------
(* The executor: _take_wings_async *)

Key(l) == <<l.batch, l.side>>

Remaining(l) == l.count - wing_filled[Key(l)]

Market(l) == <<Strike(batches[l.batch].Sd, l.side), l.side>>

\* tasks start in the order in which they were created
Starts(n) == Stage(n, "dispatched") /\ \A m \in 1..(n - 1) : ~Stage(m, "dispatched")

\* mutant: the backoff window drops the take without a word
BackoffSilent(n) ==
  /\ Starts(n) /\ backoff
  /\ takes' = [takes EXCEPT ![n] = Done]
  /\ UNCHANGED <<core, cutoff, booked, executor, exchange>>

\* inside the backoff window nothing is sent and every leg is reported unfilled
BackoffSkip(n) ==
  /\ Starts(n) /\ backoff
  /\ takes' = [takes EXCEPT ![n].stage = "returned", ![n].mine = DOMAIN takes[n].legs]
  /\ UNCHANGED <<core, cutoff, booked, executor, exchange>>

\* the legs of a take that no other take has in flight
Unclaimed(n) == { k \in DOMAIN takes[n].legs : Key(takes[n].legs[k]) \notin inflight }

ClaimLegs(n, ks) ==
  /\ Starts(n) /\ ~backoff
  /\ IF \E k \in ks : Remaining(takes[n].legs[k]) > 0
     THEN /\ takes' = [takes EXCEPT ![n].stage = "sending", ![n].mine = ks]
          /\ inflight' = inflight \cup { Key(takes[n].legs[k]) : k \in ks }
     ELSE takes' = [takes EXCEPT ![n] = Done] /\ UNCHANGED inflight
  /\ UNCHANGED <<core, cutoff, booked, wing_filled, known, backoff, exchange>>

\* mutant: a leg with an order in flight is sent again
ClaimAll(n) == ClaimLegs(n, DOMAIN takes[n].legs)

\* one order in flight per leg: the legs another take has claimed are dropped, and a
\* take that has no lots left to send ends without a result
Claim(n) == ClaimLegs(n, Unclaimed(n))

\* the exchange buys lots that are still missing, but none of a rate-limited request
Execute(n, buys, limited) ==
  /\ Stage(n, "sending")
  /\ LET t == takes[n]
     IN /\ \A k \in DOMAIN t.legs :
             buys[k] > 0 => k \in t.mine \ limited /\ buys[k] <= Remaining(t.legs[k])
        /\ orders' = orders \cup
             UNION { { [take |-> n, leg |-> Key(t.legs[k]), market |-> Market(t.legs[k]), chunk |-> c] :
                         c \in 1..buys[k] } : k \in t.mine }
  /\ takes' = [takes EXCEPT ![n].stage = "sent", ![n].got = buys]
  /\ backoff' = (backoff \/ limited # {})
  /\ UNCHANGED <<core, cutoff, booked, inflight, wing_filled, known, missed>>

\* the responses are read: of leg k the first read[k] chunks bought; a leg of which a
\* chunk has no readable response is lost and will be looked up
_take_wings_send(n, read, lost) ==
  /\ Stage(n, "sent")
  /\ LET t == takes[n]
     IN /\ \A k \in DOMAIN t.legs : /\ read[k] <= t.got[k]
                                    /\ read[k] < t.got[k] => k \in lost
                                    /\ k \in lost => k \in t.mine /\ read[k] < Remaining(t.legs[k])
        /\ known' = known \cup { o \in orders :
             o.take = n /\ \E k \in t.mine : Key(t.legs[k]) = o.leg /\ o.chunk <= read[k] }
  /\ takes' = [takes EXCEPT ![n].stage = "confirming", ![n].lost = lost, ![n].got = read]
  /\ UNCHANGED <<core, cutoff, booked, inflight, wing_filled, backoff, exchange>>

\* what the fills query answers: the orders on the leg's market that are not known yet,
\* this take's own and those of other takes that fall into the clock-skew allowance
Unseen(n, k) == { o \in orders \ known : o.market = Market(takes[n].legs[k]) }

Answers(n, k) ==
  { a \in SUBSET Unseen(n, k) : \A o \in Unseen(n, k) : o.take = n => o \in a }

Confirm(n, k, answer, room) ==
  /\ Stage(n, "confirming") /\ k \in takes[n].lost
  /\ takes' = [takes EXCEPT ![n].lost = @ \ {k},
                           ![n].got[k] = @ + Min({Cardinality(answer), room})]
  /\ known' = known \cup answer
  /\ UNCHANGED <<core, cutoff, booked, inflight, wing_filled, backoff, orders>>

\* mutant: only the excess over the chunks already read is booked
ConfirmDifference(n, k) ==
  /\ \E answer \in Answers(n, k) :
       Confirm(n, k, answer, Max({0, Cardinality(answer) - takes[n].got[k]}))
  /\ UNCHANGED missed

\* venue confirm of a lost leg: lots are booked up to what the leg still misses
_venue_wing_fills_async(n, k) ==
  /\ \E answer \in Answers(n, k) :
       Confirm(n, k, answer, Remaining(takes[n].legs[k]) - takes[n].got[k])
  /\ UNCHANGED missed

\* a query that fails answers nothing
ConfirmGetFailed(n, k) ==
  /\ ConfirmFails
  /\ Confirm(n, k, {}, 0)
  /\ missed' = missed + Cardinality({ o \in Unseen(n, k) : o.take = n })

\* the take returns: lots are added up per leg, a leg is reported with all of them or
\* as unfilled, and the claims are released
Returns(n, filled) ==
  /\ Stage(n, "confirming") /\ takes[n].lost = {}
  /\ LET t == takes[n]
         Sum(x) == wing_filled[x] +
                     Total(Restrict(t.got, { k \in t.mine : Key(t.legs[k]) = x }))
     IN /\ wing_filled' = [x \in Keys |-> Sum(x)]
        /\ takes' = [takes EXCEPT ![n].stage = "returned",
             ![n].got = [k \in DOMAIN t.legs |->
                           IF k \in filled THEN Sum(Key(t.legs[k])) ELSE 0]]
        /\ inflight' = inflight \ { Key(t.legs[k]) : k \in t.mine }
  /\ UNCHANGED <<core, cutoff, booked, known, backoff, exchange>>

\* mutant: a leg is reported filled with any lot
ReturnsAnyFilled(n) == Returns(n, { k \in DOMAIN takes[n].legs : takes[n].got[k] > 0 })

\* a leg is reported filled when its lots are complete with this take
TakeReturns(n) ==
  Returns(n, { k \in DOMAIN takes[n].legs :
                 takes[n].got[k] > 0 /\ takes[n].got[k] >= Remaining(takes[n].legs[k]) })

BackoffEnds == /\ backoff /\ backoff' = FALSE
               /\ UNCHANGED <<core, cutoff, booked, takes, inflight, wing_filled, known, exchange>>

-----------------------------------------------------------------------------

\* what the executor is answered about a take: a count per leg, and the legs it may fail for
Counts(n) == [DOMAIN takes[n].legs -> 0..MaxLots]
SomeLegs(n, may_fail) == IF may_fail THEN SUBSET DOMAIN takes[n].legs ELSE {{}}

Next ==
  \/ \E Sd \in Buckets, n \in 1..MaxLots, now \in Nows : _book_rung_fill(Sd, n, now)
  \/ \E now \in Nows : on_tick(now)
  \/ Cutoff
  \/ BackoffEnds
  \/ \E n \in DOMAIN takes :
       \/ BackoffSkip(n) \/ Claim(n) \/ TakeReturns(n) \/ _ingest_async(n)
       \/ Stage(n, "sending") /\ \E buys \in Counts(n), limited \in SomeLegs(n, RateLimited) :
                                   Execute(n, buys, limited)
       \/ Stage(n, "sent") /\ \E read \in Counts(n), lost \in SomeLegs(n, Lossy) :
                                _take_wings_send(n, read, lost)
       \/ \E k \in takes[n].lost : _venue_wing_fills_async(n, k) \/ ConfirmGetFailed(n, k)

Spec == Init /\ [][Next]_vars

-----------------------------------------------------------------------------

\* Types; in particular no leg carries an order id that was not minted, and nothing is
\* known of an order that was not executed.
TypeOK ==
  /\ group.Sd \in Buckets \cup {None} /\ group.lots \in [Buckets -> Nat]
  /\ batches \in Seq(Batch) /\ legs \in Seq(WingLeg)
  /\ coid_seq \in Nat /\ \A k \in DOMAIN legs : legs[k].coid <= coid_seq
  /\ sets_done \in Nat /\ missed \in Nat /\ booked \in [Buckets -> Nat]
  /\ {unknown, cutoff, backoff} \subseteq BOOLEAN
  /\ inflight \subseteq Keys /\ wing_filled \in [Keys -> Nat] /\ known \subseteq orders
  /\ \A n \in DOMAIN takes :
       /\ takes[n].stage \in {"dispatched", "sending", "sent", "confirming", "returned", "done"}
       /\ DOMAIN takes[n].legs \subseteq DOMAIN legs
       /\ \A k \in DOMAIN takes[n].legs : takes[n].legs[k] \in WingLeg
       /\ takes[n].got \in [DOMAIN takes[n].legs -> Nat]
       /\ takes[n].lost \subseteq takes[n].mine /\ takes[n].mine \subseteq DOMAIN takes[n].legs

Active(n) == takes[n].stage \in {"sending", "sent", "confirming"}

KeysOf(n) == { Key(takes[n].legs[k]) : k \in takes[n].mine }

\* The belt against retry storms: however many takes overlap, no two of them have an
\* order for the same leg in flight (_wing_inflight_legs).
OneOrderPerLeg ==
  \A n, m \in DOMAIN takes :
    n # m /\ Active(n) /\ Active(m) => KeysOf(n) \cap KeysOf(m) = {}

Bought(l) == Cardinality({ o \in orders : o.leg = Key(l) })

OnMarket(mkt) == { k \in DOMAIN legs : Market(legs[k]) = mkt }

\* However takes overlap, are rate-limited, lose responses and are retried, no market is
\* bought beyond the lots its legs hedge, except for lots that a failed fills query did
\* not report (_take_wings_async, _take_wings_send).
NeverOverHedged ==
  \A k \in DOMAIN legs :
    Cardinality({ o \in orders : o.market = Market(legs[k]) })
      <= Total([j \in OnMarket(Market(legs[k])) |-> legs[j].count]) + missed

CompletedHeld ==
  /\ \A k \in DOMAIN legs : batches[legs[k].batch].completed => Bought(legs[k]) >= legs[k].count
  /\ sets_done = Total([i \in { i \in DOMAIN batches : batches[i].completed }
                          |-> Total(batches[i].lots)])

NettedHeld ==
  /\ \A k \in DOMAIN legs : legs[k].netted <= Bought(legs[k])
  /\ \A x \in Buckets \cup { b + 1 : b \in Buckets } :
       LET Net(side) == Total([k \in OnMarket(<<x, side>>) |-> legs[k].netted])
       IN Net("yes") = Net("no")

\* What the core counts as held was bought at the exchange, however takes overlap and
\* fills are reported again: a completed batch holds both its wings in full and
\* sets_done is the number of its lots (_maybe_close_set); the lots booked as netted
\* were bought, as many YES as NO on their market (D5, _net_wings).
HeldIsBought == CompletedHeld /\ NettedHeld

\* A leg is retried only while it is unfilled, so a leg that is pending with no take
\* under way would never be bought: every take answers for the legs it was given.
PendingUnderWay ==
  (\A n \in DOMAIN takes : Stage(n, "done")) => \A k \in DOMAIN legs : legs[k].status # "pending"

\* core.py:1548: all coalesced rungs share one bucket.
BatchSharesBucket ==
  \A i \in DOMAIN batches : \A b \in Buckets : batches[i].lots[b] > 0 => b = batches[i].Sd
=============================================================================
