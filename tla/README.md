# Verification of the degeneracy_v3 trading service

The service trades hourly markets of a prediction exchange (Kalshi). Once an hour a supervisor starts
a window process. Three generations of strategy exist side by side:

- **V3.3** quotes a *ladder* of resting NO orders on the "bucket" market the spot price is in; when a
  rung is filled, the *wings* (YES on the lower strike, NO on the upper strike of that bucket) are
  bought at once, and bucket plus both wings is a set that pays more than it cost whatever the price
  does;
- **V3.2** does the same with a single resting order and synchronous requests;
- **V1** buys pairs (flip, strangle, wide box) that its signal finds cheap.

The money is lost in between: an order that rests without anybody knowing, a fill that is hedged
twice, late or not at all, a stop that is forgotten by the next process, a window that never ran or
never ends.

This directory holds TLA+ models of that machinery, the TLC configurations that check them on small
instances, and TLAPS proofs for every value of the constants. Paths below are relative to
`pilot/service/` unless they name a directory; `core.py` alone is `v33/core.py`. `PROJECT.json` lists
the components, the runs with the properties each checks, a mutant of the code for every property (a
plausible bug that makes TLC report exactly that property), the source lines of every definition, and
the hazards with the properties that guard against them.

- [1. Inventory](#1-inventory)
- [2. How the project is built, and what is left](#2-how-the-project-is-built-and-what-is-left)
- [3. The modules and the code](#3-the-modules-and-the-code)
- [4. The runs](#4-the-runs)
- [5. What is proved](#5-what-is-proved)
- [6. Where code and comments disagree](#6-where-code-and-comments-disagree)
- [7. What is not modelled](#7-what-is-not-modelled)

## 1. Inventory

| component | state it keeps | operations | talks to | modules |
|---|---|---|---|---|
| **Decision core, ladder half** `v33/core.py` | ladder, margin slots, rolls in flight, counted cancels, what is booked for each client order id, bucket of the rests | pure `decide_v33`: ticks, acks, amends, cancels, fills -> new state and order actions | called by the driver only | `LadderCore`, `Ladder` |
| **Decision core, wing half** `v33/core.py` | open coalescing group, wing batches, wing legs, completed sets | coalesce, take, partial take, retry, net, close a set, give up at the cut-off | same function | `Wings` |
| **Driver** `run_v33.py` | the current `V33State`, the WAL | pumps every event through the core and dispatches the actions; private fills; the order-status poll | core, executor, feeds | `Ladder`, `Wings`, `Writes` |
| **Asynchronous executor** `v33/async_executor.py` | rest book, deferred cancels, slot locks, wing legs in flight, wing fills read, back-off, stand-down | one coroutine for each action: create with pre-place check, cancel by status truth, amend with fallback, take wings, confirm a lost response, stand-down sweep | writer, exchange; results return through the driver | `Ladder`, `Wings`, `Writes` |
| **Asynchronous writer** `v33/async_writer.py`, token bucket in `v33/executor.py` | lanes of worker threads, slot locks, tokens | paces writes, reserves tokens for cancels and hedges | executor, proxy | `Writer` |
| **Exchange, private fill feed** (external) | resting orders, fills | rests, fills, refuses, rate-limits; notices and responses travel separately | executor, driver | all |
| **Supervisor** `supervisor.py` | closes already run, children, stop flag | boot sweep, sleep to :40, rotate, spawn, poll, watchdog, forward signals | window processes | `Supervisor` |
| **Window processes: gates, ledgers, stops** `run_v33.py main`, `run_v32.py main`, `v33/stops.py`, `v32/stops.py`, `stops.py`, `v33/ledger.py`, `v32/ledger.py`, `v33/reconcile.py` | ledger rows, day guard, arming decision | backfill settlements, reconcile positions, arm or degrade, balance stop, reconcile a window, append its row | files, the shared account, the next window | `Account` |
| **V1 window process** `run_window.py`, `pilot_ledger.py`, `journal*.py` | plan, guard, ledger, journal files | policy, gate, reconcile-first, backfill, balance check, rotation, window, flush, row | the same | `Service` |
| **V1 strategies in a window** `executor.py`, `reconciler.py`, `stops.py`, `ledger.py`, `box*.py` | in-process ledger, stop state, pending flatten; two threads | entry, rebalance, stops with flattens, positions poll | exchange | `Pair` |
| **V3.2 strategy** `v32/core.py`, `v32/executor.py`, `run_v32.py` | one rest, its pending request, wing batches | decide, create, cancel, amend, take, poll | exchange | `Rest`, `RestSlot` |
| **Wake sweep and pairing** `wake.py`, `quintile.py`, `sigma_feed.py` | none (pure) | co-settling legs, ladder map, nearest strike, subscription | window | `Wake` |
| **Feed, book mirror, recorders** `ws_client.py`, `book.py`, `record_window.py`, `run_window._dial_loop` | connection, sequence number, books, tops, failures | dial, mint, fold, gap, suspect, watchdog, back-off, hard stop | window | `Feed` |
| **Statistics, reports, simulators, tools** | none at run time | off-line | | |

What makes it hard:

- *concurrency*: every V3.3 order action runs as its own coroutine over a snapshot of the state; the
  core decides again before the response of the previous action is there. V1 has a second thread that
  polls positions over a ledger both threads replace without a lock. Two rosters share one account and
  one exchange book.
- *ordering*: the same lots are reported by the private feed, by the order-status poll, by the cancel
  and by the amend, in any order and under the client order id of before or after an amend.
- *failure*: responses are lost, creates and amends refused, calls rate-limited, an order's status
  can be unreadable, frames are missed.
- *crashes*: every hour is a new process that starts from the files the last one left: a torn ledger
  line, a half-compressed journal, a damaged guard, orders still resting.
- *time*: quote end, cutoff, coalescing window, retry floors, launch band, watchdog and signal graces,
  staleness of books.

Correct means: nothing rests that its core does not own or is not cancelling; lots are handed to the
wings once and in their own bucket; no market is bought beyond what it hedges; what the core is told
of an order is so; after quote end everything goes flat; a stop halts the day whatever is killed; the
ledger never counts money that was not made; nothing is decided for long on a book that misses a
change; a window ends; no close is missed or run twice. The hazards of `PROJECT.json` list where in the
code each of these could go wrong.

## 2. How the project is built, and what is left

The modules come in the order of the damage: first the ladder and its wings (the naked and double
fills that the incidents in the comments are about), then the supervisor, then the processes around
them.

| group | composition |
|---|---|
| `LadderCore` <- `Ladder` | pure core, then driver + executor + exchange |
| `Wings` | core, driver, executor and exchange of the wings |
| `Writer` <- `Writes` | lanes and pacer, then the executor's protocol above them |
| `Rest` => `RestSlot` | the V3.2 strategy implements the abstract slot (refinement) |
| `Account` <- `Service` | ledgers, guard and gates of V3.2/V3.3; the V1 process on the same files |
| `Wake` <- `Feed` | the selection as operators; the connection that lives on it |
| `Pair` | one armed V1 window with its two threads |
| `Supervisor` | the wake loop |

Left, in this order:

| next | aimed at |
|---|---|
| `LadderPriceUnique` and `NoUnownedRest` as theorems | need the invariant that ties ladder, rolls and exchange together, and a fallback that looks at occupied prices (see 6) |
| the bucket debounce of `_recompute_context` | the ladder sits on one bucket; no switch is lost |
| an abstract `HedgeSpec` (filled -> hedged -> held) over `Ladder` and `Wings` together | each lot once through both halves |

## 3. The modules and the code

All models keep the control flow of the functions they name and abstract data: a price is a whole
cent or a predicate, a lot a natural number, an order id equals the client id the order was created
with where nothing depends on the difference, a clock reading is what the code derives from it. A
request and its response are two actions wherever the code awaits; what runs between two awaits is one
action.

**`LadderCore`** (no variables): the quote half of `decide_v33` as operators from a state record
(`V33State`) to the next one, with field `out` for the emitted actions. `_converge` and its parts
(`Quote`, `Rebalance`, `StandAside`), `_place_all`, `_cancel_all`, `_cancel_all_then_replace`, and
the event handlers `_apply_ack`, `_apply_amended`, `_apply_cancelled` (with the fallback of a failed
roll and `BookCancelFill`), `_apply_fill`, `_apply_orphan_fill`, `_book_rung_fill`. `ctx` is what
`_recompute_context` computes from the books; `now` says which timers have run out; `hedged[b]` is
what has been handed to the wings of bucket b.

**`Ladder`** composes the core with the driver (`on_tick`, `_ingest`, `on_fill`, `PollStarts` and
`on_poll_fill`), the executor (`PostCreate` ... `AmendFails`; `CancelUnacked` is the deferred cancel
of GATE C, `Delete` the cancel by status truth, `DuplicateDelete` the cancel already in flight) and
the exchange (`VenueFill`, crossing amends). Requests `net`, responses `resp`, results `inbox` and
notices `ws` are unordered sets. The exchange never refuses a DELETE here, the executor does not stand
down and the pre-place check is left out (so what holds here holds without that belt): `Writes` has
these. Notices may be late but are not lost (one that overtakes its ack is dropped as foreign, as in
the code).

**`Wings`**: `_book_rung_fill` (coalescing), `on_tick` (`_coalesce_flush`, then `_wing_step` with
`_take_batch`, `_take_batch_partial` and `_retry_batch`), `Cutoff`, and the take coroutine of the
executor in stages: `BackoffSkip` or `Claim` (`_wing_inflight_legs`), `Execute` at the exchange
(with 429s), `_take_wings_send` (responses read or lost), `_venue_wing_fills_async` or
`ConfirmGetFailed`, `TakeReturns`, and `_ingest_async`, which applies the results to the core
(`ApplyWingFill`, with `_net_wings` and `_maybe_close_set`). Bucket b has the strikes b and b + 1, so
neighbouring buckets share a market, which is what netting is about. A take keeps the legs of the
state it was dispatched from.

**`Writer`**: the token bucket (`acquire_async`: the reservation under the lock, `PaceWait`, `Leave`
after the sleep outside it), the lanes with their workers and slot locks, and one round trip of the
proxy writer. A tick of time is one token of refill. `sent` is a history variable: the level of a
bucket that only the writes that may wait draw from.

**`Writes`** extends it with the executor's coroutines as jobs with a step: `_place_rest_async` ->
`_pre_place_invariant_async` (listing, verdict, recheck, `_cancel_stray_async`) ->
`_place_rest_inflight_async` (refused, throttled, unknown, accepted, cancelled meanwhile);
`_cancel_rest_async` (`CancelDeferred`, or DELETE and `_delete_and_resolve_async`, retries, then
`cancel_failed`); wing takes in sub-batches; `standdown_sweep_async`; the boot sweep
`cancel_stale_open_orders`, which may pull any part of the strays an earlier process left. The core
only places, cancels and believes what it is told (`told`).

**`Rest`** is V3.2: one thread, a queue of events and a list of actions. `_pump` decides one event
(`decide_v32`, with `_requote`, the order events, `book_late_rest_fill`, wing step), the executor's
actions follow one at a time (`PlaceAccepted`, `PlaceUnknown`, `PlaceStray`, `_cancel_rest`,
`_amend_rest`, `_amend_fallback`, `_take_wings`; `FrozenExecutor` in dry mode) and the exchange moves
between any two. A rest that a crashed process left may be there when the window starts; the startup
sweep (`cancel_stale_open_orders`) cancels it, or fails to, in which case the pre-place check meets it.
**`RestSlot`** is what the strategy promises of the orders this process has created: at most one rest
at a time, none after the quoting is over; `RefinesSlot` maps the exchange's open orders and the core's
phase to it.

**`Account`**: the window processes of `v33`, its ETH sibling and `v32`, hour after hour, as a program
counter with the files they share: settlement backfill, positions, balance, arming, trade, end,
occurrence of legging, row. A kill may come between any two steps and inside an append (a torn line;
the next append glues itself to it). Markets finalize one leg at a time. **`Service`** extends it
with V1's process from `prepare` to its row: gate, `_reconcile_first`, the S4 check with
what is still pending, journal rotation in its three file steps, stops that are written to the
guard, flush.

**`Pair`**: threads `main` (book frames, entry and what follows) and `poll` (S3). The ledger is a value
that a thread reads and later replaces, so the other may write in between; the executor's lock is held
over a dispatch. `Order` ... `Send`, `Execute`, `Write`, `EntryChecks`, `Rebalance`
(`propose_rebalance`: `retry_buy`, `sell_down`, S2), `Freeze`/`Flatten`/`Stopped`
(`StopController.trip`), `BoxPost` with its pending flatten.

**`Wake`** (no variables): `discover_legs`, `live_hourly_ladders`, `ladder_check`,
`nearest_hourly_strike`, `_chosen_ladder_check`, `_subscription_tickers`. **`Feed`** runs them in a
window and then models one connection at a time for the three kinds of host (recorder, flip, box): `Dial`,
`Mint`, `connect`, `Supervise` (`watchdog_action`), `on_message` with `_check_seq`, `mark_all_suspect`,
`DialEnds`, back-off, `HardStop`. Ghosts `hole` and `missed` say which book and which remembered top
misses a change, and for how long.

**`Supervisor`**: `MultiRosterSupervisor.run` and the single-roster class as one loop over phases
(boot, loop, sleep, due, launch, poll, reap, watchdog, exited, and crashed, which the exception of a
spawn leads to at any place of a launch: `SpawnRaises`). Time is a variable, a pair of hour
and tick; it passes (`Tick`) only where the code waits or works for long: sleeps, waits, the sweeps at
boot (`SweepTicks` for each roster; up to four probes of the proxy, two seconds apart), rotations.
Children exit whenever they like or never; a signal comes at any moment; sleeps may overshoot. History
variables: `runs`, `booted`, `slipped` (closes that went by in an overshot sleep or in a rotation),
`stopAt`.

`MC*` define the instances, `*Proofs` hold the proofs. Each module has a type invariant `TypeOK` (or
`ServiceTypeOK`) as the documentation of its state; `Supervisor`'s is checked and proved, because there
the type carries the loop's control (a roster list under way exactly in the phases that walk it).
A few definitions state what a comment promises and the code does not keep; section 6 names them. No
run checks those.

## 4. The runs

| run | checks | distinct states |
|---|---|---|
| `LadderStandAside` | `NoUnownedRest`, `EventuallyFlat`, `OutstandingDrains` | 50 301 |
| `LadderRolls` | `LadderPriceUnique`, `AwaitingClear`, `NoQuoteAfterEnd` | 368 803 |
| `LadderFills` | `NoNakedFill` | 50 831 |
| `LadderReports` | `HedgedAtMostOnce` | 359 189 |
| `WingsTakes` | `HeldIsBought`, `OneOrderPerLeg` | 410 748 |
| `WingsLost` | `PendingUnderWay`, `NeverOverHedged` | 1 127 618 |
| `WritesHour` | `CancelledMeansGone`, `NothingLeftResting`, `NoFalseViolation`, `HeadroomKept` | 3 935 709 |
| `RestHour` | `HoldReleased`, `NoForgottenRest`, `BookedOnce`, `RefinesSlot` | 3 499 564 |
| `AccountDay` | `TrippedDayStops`, `BooksNoHope`, `JournalKept`, `BackfilledOnce`, `LedgerTruthOrFlag`, `ArmedOnlyFlat`, `LeggedDayStops`, `LatchMeansLost` | 1 618 470 |
| `PairWindow` | `NoSpuriousS3`, `NeverOverbought`, `LedgerTruth`, `UnpairedIsStopped` | 769 511 |
| `FeedWindow` | `HoleShortLived`, `PairIsVetted`, `EndsInTime` | 1 012 889 |
| `SupervisorHours` | `TypeOK`, `NoMissedClose`, `LiveChildrenWatched`, `StopBounded`, `OneRunPerClose` | 976 074 |

**LadderStandAside**: a rung over a market that is priced, loses its wing (the hold) or its spot, and
comes back, with three client ids: two generations of the ladder with creates cancelled in flight, the
deferred cancel and the re-place after it. Safety and liveness are checked together, under `FairSpec`.
The bound on ids does not weaken liveness: creating nothing more is what the system does after quote
end, and runs in which the ids last are included. **LadderRolls**: two rungs and a top that jumps by
two cents, two amends in flight, refused creates and amends, the replace-rate alarm, quote end at any
moment; five ids allow a roll of both orders and the fallback of a failed one. The cap does not fall
in this run (see 6). **LadderFills**: one rung of a rolling order, two lots filled at any moment, also
by a crossing amend and before the ack; feed, poll and confirms report them. `NoNakedFill` is about
quiet states with the ladder down: nothing else will report the lots then. **LadderReports**: a rung
of two lots filled in parts while the spot moves between two buckets and confirms may be unreadable;
without the poll (see 6).

**WingsTakes**: two batches in the same or in neighbouring buckets, one strike that may lose its
ask, up to three overlapping takes with partial executions. `HeldIsBought` ties the core's counts
(sets completed, lots netted) to what the exchange executed. **WingsLost**: one batch of up to two
lots, three takes, 429s and back-off, lost responses, and look-ups that fail. `NeverOverHedged`
allows for the lots such a failed look-up did not report (`missed`), and for no others.

**WritesHour**: two creates (one rung re-placed at another price, or two rungs at one price), a wing
take of two orders sent one by one, one stray; a bucket of two tokens with a reserve of one, one worker a lane (the smallest pool,
where every call can keep another waiting), one round trip that is refused, throttled, lost or
unreadable, at most one retry. `NoFalseViolation` exempts orders the core dropped before their create
was answered (see 6).

**RestHour**: two buckets (in the first the core quotes one price, in the second a price that moves
with every tick, so that amends happen; also contexts without a spot, without quotable wings, and the
replace-rate alarm), allotments of one and two lots, armed and dry, four ticks in any phases, two
orders of which one may be the stray of a crashed process, three client ids (an amend mints one), two
refused creates (which stand the hour down) and two faults. `HoldReleased` and `RefinesSlot` hold for
both allotments. `BookedOnce` and `NoForgottenRest` speak of an allotment of one lot: at two, which
`policy/v32_params.json` has now, the code does not keep them (see 6).

**AccountDay**: four sets of rosters: the ladder alone for four hours over two days with three trades
and a fault (kill, torn row, damaged guard or failed read); with its ETH sibling, or with V3.2, for two
hours; V1 for three. Cap and prices are chosen so that one lost set passes the balance stop and a
pending one may still save it. `LedgerTruthOrFlag` is about windows that reconcile (V3.3);
`ArmedOnlyFlat` about the strategies that read positions at the gate; `LatchMeansLost` about windows
whose rows could be swept.

**PairWindow**: flip (two pairs), strangle and box, two possible costs, one bid or none, one lost
response, one poll, one retry a side, three flatten attempts.

**FeedWindow**: eleven listings (one or two generations, special hour, dead, missing or unreadable
markets), four anchors and two subscription limits; a window of three ticks that opens one tick after
the wake; a top is fresh for one tick, a frame may lag one tick; two redials. The times keep the
order of the real ones (cutoff before close, close before deadline, deadline before hard stop).

**SupervisorHours**: all command lines (one roster or two, both classes, `--once`, `--now`), a boot
at any tick of the first hour, three closes, an hour of 12 ticks with :40 at tick 8, a watchdog
grace of 1, a signal grace of 2, rotations and boot sweeps of at most 1 tick a roster. The proportions
keep the order of the real times (watchdog and graces of both rosters end before the next :40); the
absolute lengths do not matter to the loop, which only compares times.

*Bounds* (`MaxCoid`, `MaxLots`, `MaxTakes`, `MaxFaults`, `MaxHour`, `MaxTicks`, ...) cut behaviours
off, never into a wrong state: an action that would exceed one is not taken.

*Deadlock* is checked in the Ladder, Wings and Pair runs. It is not in the others, where the system
really stops: the supervisor exits, a window ends, the last hour is over, ticks and orders run out.

*Fairness.* `LadderStandAside`: weak fairness of the window's clock, of the driver's ticks (the clock
pump is a loop in the window's event loop), of the ingestion of results (each coroutine hands its
result to the driver itself) and of the executor as a whole (every HTTP call has a timeout; a create
that the exchange has or has not accepted is answered). No fairness of the exchange's fills, of the
market or of the poll. `FeedWindow`: the loop's own steps, answers
to the requests of the start-up, a dial that is answered or times out, a close handshake that ends, and
time; neither the mint (which may hang), nor
frames, nor the exchange dropping the socket are assumed.

## 5. What is proved

| theorem | module | assumptions used |
|---|---|---|
| `AwaitingClearTheorem`, `NoQuoteAfterEndTheorem` | `LadderProofs` | none |
| `OneOrderPerLegTheorem` | `WingsProofs` | none |
| `HeldIsBoughtTheorem`, `NeverOverHedgedTheorem` | `WingsProofs` | `WingsAssumption`; `OneBatchIfLossy` |
| `PendingUnderWayTheorem` | `WingsProofs` | `WingsAssumption`; `OneWholeBatch` |
| `CancelledMeansGoneTheorem`, `NothingLeftRestingTheorem`, `NoFalseViolationTheorem`, `HeadroomKeptTheorem` | `WritesProofs` | `WritesAssumption`, `WriterAssumption` |
| `RestInvTheorem`, `LotInvTheorem` (the invariants), `HoldReleasedTheorem`, `RefinesSlotTheorem`, `NoForgottenRestTheorem`, `BookedOnceTheorem` | `RestProofs` | `RestAssumption` |
| `SupervisorTypeCorrect`, `LiveChildrenWatchedTheorem`, `OneRunPerCloseTheorem`, `NoMissedCloseTheorem`, `StopBoundedTheorem` | `SupervisorProofs` | `TimesAssumption`, `HostsAssumption` |
| `JournalKeptTheorem`, `BackfilledOnceTheorem`, `ArmedOnlyFlatTheorem`, `TrippedDayStopsTheorem`, `LeggedDayStopsTheorem`, `BooksNoHopeTheorem`, `LedgerTruthOrFlagTheorem`, `LatchMeansLostTheorem` | `ServiceProofs` | `AccountAssumption`, `ServiceAssumption` |
| `NoSpuriousS3Theorem`, `NeverOverboughtTheorem`, `LedgerTruthTheorem`, `UnpairedIsStoppedTheorem` | `PairProofs` | `PairAssumption` |
| `HoleShortLivedTheorem`, `PairIsVettedTheorem` | `FeedProofs` | `FeedAssumption`, `ListingsAssumption` |

Each theorem named for a property says of it what section 4's runs check on an instance: it holds in every
behaviour of the module's specification, for every value of the constants the assumptions allow.

*The assumptions* are what the code's own constants satisfy. Sizes, costs, times and bounds are natural
numbers and sets of identifiers are finite. Beyond that:

- `WriterAssumption`: one create fits above the reserve (`Reserve + CostCreate <= Size`), which
  `params.py:330` enforces when the parameters are read;
- `ServiceAssumption`: V1 halts on its first stop (`Threshold["v1"] = 1`, `stops.py`); V3.3's threshold
  of one-legged windows is arbitrary;
- `HostsAssumption`: the watchdog's delay, and one rotation and one grace for each roster, fit between a
  close and the next :40 (120 s, and 240 s for each grace, against 2400 s: with three rosters a rotation
  may take up to 500 s); a command line names a roster once;
- `ListingsAssumption`: tickers are unique in a listing;
- `OneBatchIfLossy`, a hypothesis of two theorems rather than an assumption on the module: responses are
  not lost, or there is one batch. It is not a property of the code but the scope in which the code
  keeps what they say: with two batches a lost response is looked up by market, and a leg may be
  credited with the fills of the other batch's leg (see 6). Without lost responses the number of
  batches is arbitrary;
- `OneWholeBatch`, a hypothesis of one theorem: at most one batch, whose two strikes lose and find their
  asks together, so that `_take_batch_partial` never takes it in halves. It too is a scope, that of the
  `WingsLost` run: in it the lots, takes, clocks, 429s, lost responses and failed queries are arbitrary;
  outside it the statement is false (see 6);
- `AccountAssumption`: days do not go back, and a traded window holds its bucket leg.

**Ladder.** The invariant is `Sound(st) /\ st.out = {}`: the state has its fields, and an armed
`awaiting_replace` means an empty ladder and no rolls. It is inductive on the level of *decisions*,
not of steps, so the proof goes along the relation `Keeps(s, t)`: t is sound, has the same phase, is
stood down if s was, and if s may not quote then t has asked for cancels only. `Keeps` is reflexive
and transitive; there is one lemma for each handler of `decide_v33` (`TickKeeps`, `AckKeeps`,
`AmendedKeeps`, `CancelledKeeps`, `FillKeeps`, ...) resting on the lemmas of their parts
(`CancelAllKeeps`, `QuoteKeeps`, `RollFallbackKeeps`, ...). `PumpGood` lifts a decision to a step; the
executor's own dispatches are shown to be cancels (`ExecutorSteps`). Ladder shape, markets, clocks and
bounds are arbitrary. The case that needs the argument is the fallback of a failed amend, which places
an order outside `_converge`: the roll it belongs to is in flight, so no re-place is awaited, and it
re-checks that the core may quote.

**Wings.** `OneOrderPerLeg` alone is not inductive: a claim looks at `inflight`, not at the other
takes. The invariant adds that the legs of a take under way are all marked (`ClaimsMarked`) and that
a take is a record of its fields (`TakesShape`). A claim takes only unmarked legs; an ending take
releases its own and, by the property itself, nobody else's.

`HeldIsBought` and `NeverOverHedged` rest on `Sound`, which has a half for each side of the dispatch.
For the core: a leg is of a batch that was taken, has its lots, nets no more than those, and shares its
wing and its client id with no other leg (`CoreSound`, `Alone`); a leg that is filled, netted or of a
completed batch has its whole count in the executor's table (`Covered`); as many YES as NO lots are
netted on a market (`Balanced`). For the executor: a take
still fits the legs that it was handed, whatever the core has retried since (`Known`, `TakeSound`), and
for each leg the table, the orders that were read and the orders that were executed agree with what
the takes under way are about to count (`Counted`: `Bounded`, `Settled`, `Worked`). The proof takes a
decision of the core as one step: it only grows the state (`Grows`), a report only books it (`Books`),
and a whole list of reports is lifted from the single one by the smallest index at which it would fail
(`IsReports`), since the induction theorems are out of reach. Sums over legs are handled in the same
way: a smallest set on which two sums differ cannot exist (`SmallestSubset`, `SumUnique`), which gives
`TotalStep`, and from it that netting adds to both sides of a market alike. The hypothesis is used
where a take looks up what a lost response did (`MarketIsLeg`): with one batch a market is a leg.

`PendingUnderWay` needs more than one step's view: a leg that is pending must be in the hands of a take
that will answer for it under the leg's present client id. `Whole` says why there always is one. Takes
do not overlap (`OneTake`): a decision that dispatches one had no leg pending (`Sends`), because the legs
that are not filled are all in the same state (`Alike`) and are retried together. The take was handed
all that is pending and claims all of it, since no earlier claim is left (`Unmarked`); and it has an
order to send for each leg, because a leg that is not filled misses lots (`Missing`).

**Writes.** `Owned` is the ownership discipline of the executor's coroutines, which no line of the code
states: at most one coroutine works on an order (`OneOwner`); a create under way is registered in
`inflight` and its order is not at the exchange before its POST is answered (`CreateState`); a cancel
under way is registered in `oids`, and only of an order in the book (`DeleteState`); each register has
its coroutine (`Registered`); and what the book and the core remember of an order bounds what it can be
at the exchange (`OrderState`). `CancelledMeansGone` is a part of it. `NothingLeftResting` needs in
addition what the sweep leaves (`Swept`): every create in flight is marked to be cancelled or already
has its DELETE, and what is in the book has one. `NoFalseViolation` needs what a list that was read
before an await may still say when it is judged (`SeenFits`): apart from strays, and from orders dropped
before their create was answered, the listed orders that are not being cancelled are of the ladder, at
other prices, and leave room for the one to be created. `LadderKept` and `LiveKnown` tie the executor's
book to the core's view for that.

**Rest.** One thread and a pump that empties its queue make V3.2 look sequential, and the invariant says
why it is. *Requests*: a decision asks for wings first and for an order last, and of the order requests
and their answers at most one is under way (`OneRequest`); each still finds what it was decided on
(`RequestFits`, `ReportFits`: the create its pending order, the cancel a core that has let go, the amend
its live order), a core that is done tracks nothing, and the executor's latch has reached the core
(`Latched`). With no request and no answer under way nothing holds the quoting back, which is
`HoldReleased`. *Orders*: an order of ours that rests, or that the rest book has not confirmed gone
(`Loose`), is one the core tracks, is cancelling or is about to hear of, unless it is done or the hour is
down (`Tracked`); a create is decided only when no order is loose. So at most one rests, and each step
either takes orders off or, with nothing resting and the quoting not over, adds one: the steps of
`RestSlot` (`SlotSteps`, `OverKept`; the fallback of an amend is an exit, an accepted amend a stutter).
A by-product: the branch of the pre-place check that books a filled phantom of our own
(`PlaceFilledStray`) is not reached, because an unconfirmed order of ours is loose, and no create is
decided then (`FilledStray`). *Lots*, at an allotment of one: of our orders at most one ever rests or was
filled at a time (`Hot`, `OneLot`); the core has booked the lot once, and it was filled, or not at all
(`CoreBooked`); every report counts what was filled (`ReportLot`); and a filled lot that is not booked is
on an order the core still asks about (`Asked`). `NoForgottenRest` and `BookedOnce` follow. The last
one is where the four ways a fill is reported meet: notice, poll, cancel and amend each find either an
order that is not booked, or a core that is done and drops them. Buckets, contexts, allotments, numbers
of orders, ticks, faults and refusals are arbitrary.

**Pacer.** Creates sleep outside the lock, several at a time. `PacerInv` orders the sleepers: the reserve
is there when each wakes (`Covered`), each was granted what those before it have left (`Granted`),
any two wake far enough apart to pay for those between them (`Spaced`), and no place of the queue is
vacant (`Ranked`). The sums are cardinalities, so no induction is needed.

**Supervisor.** `IInv` adds to types and `LiveChildrenWatched` that a wait under way has a child to
wait for, that reaping and watchdog handle every pending child, that a launch has no child yet for the
rosters it has still to handle, and that outside a wait nothing is pending (`PendingHandled`), but after
the exception of a spawn. That is the one way in which the theorem leaves a child running, and it names
the roster whose close is marked and who has no child; a process with one roster leaves none. For `OneRunPerClose`, `RInv` further records that a roster that has run for
the coming close has it as its last one (`RunsRecorded`) and that a launch under way is for the coming
close and for rosters that have not had it, unless the hour ended meanwhile (`LaunchFresh`). For
`NoMissedClose`, `MInv` puts the clock on a line of ticks and bounds, in every phase, how late the loop
can be (`Launching`, `Polling`, `Reaping`, `Killing`, each by the rosters left to handle and the waits
they may cost) and what has been run by then (`Sleeping`: a sleep never ends past a close that has not
been run). For `StopBounded`, `QInv` adds the time since the signal in the same way (`Stopping`), and
that a loop that notices it without a launch at hand leaves (`Leaving`).

**Account and Service.** All proofs go over one classification of the steps of both modules (`Step`):
whatever a process does closes a window, settles one, kills it, arms or degrades it, reads the account,
damages a guard or takes V1 a step on; `StepCases` shows that every step is one of these, `Shape` that
the parts of the state stay what they are. Then `JournalKept` and `BackfilledOnce` are inductive as they
stand, the latter because a torn line never becomes a settlement and a glued one is none. `ArmedOnlyFlat` needs
`CleanIsFlat`: a process that has *found* its series flat is right until its hour ends, since what its
siblings buy meanwhile is of this hour. `TrippedDayStops` needs `StopsHold`: the guard of a
day with a stop is halted or damaged, and damaged counts as halted. `LeggedDayStops` counts
occurrences (`Counted`): the one-legged windows of a day that have ended are at most those the guard
holds and those it has lost, and an armed process has seen fewer than the threshold. Lost are two kinds,
and the theorem exempts no other: occurrences whose record raised (`unrecorded_occurrence`), and those
that a damaged guard held when it was rebuilt.

The theorems about money rest on `AllSound`: an hour has at most one row and one settlement
(`ClosedOnce`, `BackfilledOnce`), a row is of the hour that ends or of an earlier one (`RowsPast`), and it
says what its window held and its legs have paid (`RowsTell`, `HeldSound`). What the ledger books for an
hour is then the sum of at most two rows (`BookedTwo`, `BookedClosed`); with what a pair pays at
least (`PairPays`) that is `BooksNoHope` and `LedgerTruthOrFlag`. The module's sums are folds; the proof
uses that a fold satisfies the sum's recurrence (`SumExists`, `SumUnique`) and shows what follows for a
finite set at a smallest counterexample, which exists because inclusion is well-founded on the subsets of
a finite set (`SmallestSubset`). `LatchMeansLost` compares what the balance check hopes for with
what the open legs can pay at most: while the check is prepared nothing of the hour or a later one is held
(`NotYet`), and whatever a row waits for that has not settled is among the legs it counts
(`PendingKept`), so each open leg is counted (`OpenIsPending`) and the sum of the best outcomes is no
more than what the check allows for (`BestCaseBound`, by `SumBound` and `MostPaid`).

**Pair.** Two threads replace the ledger by a read and a later write. `IInv` says of each thread
where it may be (`Placed`), what its order under way means (`Ordering`: only flattens go out unarmed,
an intent is in flight until its answer is recorded, the poll's thread orders only after its own S3, and
until then what the event loop has read is still the ledger when it writes), and that a snapshot
that finds itself in place was compared with what the exchange held at it (`Caught`, along the version
of the ledger). The ledger with the answer that has arrived but is not written yet is
what the exchange holds and the account has paid (`Truth`), and bounds what is held by what was ordered
(`Bound`: nothing known or ordered exceeds the pairs while armed, nothing is bought afterwards). A
corridor passes to its polls only with complete pairs, or stopped (`Paired`). Pairs, prices,
retries, polls and lost responses are arbitrary; fills are any part of an order.

**Feed.** `HoleShortLived` needs the chain from a missed change to a decision: until the first frame of
a dial all books are suspect (`Distrusted`); on an open connection a book misses a change only until the
next frame reveals the gap, and what is known to be missed is in a suspect book (`Noted`); what the
decision remembers is at least as old as the change it misses (`Aged`). `PairIsVetted` is carried from
the pairing through the phases (`Planned`); its lemmas are about `Wake`'s operators for any listing: the
nearest strike exists and is alone (`LeastNatural`, by well-foundedness of the naturals,
`NearestIsAlone`), the selected generation is a live one (`SelectsAGeneration`), and the chosen ladder
contains the partner (`ChosenHoldsPartner`).

**Only model-checked**:

- liveness (`EventuallyFlat`, `OutstandingDrains`, `EndsInTime`): fairness and ENABLED are outside the
  prover;
- `NoUnownedRest`, `LadderPriceUnique`, `NoNakedFill`, `HedgedAtMostOnce`: they hold on the
  constants of their runs, which leave out what section 6 lists, and not for all of them: the fallback of
  a failed roll is clamped to a fallen cap without a look at occupied prices, and polls, amends and
  partial fills together book lots twice. Stated for every constant they would be false.

## 6. Where code and comments disagree

Met while modelling. The passing runs are bounded so as to leave these cases out, or a property is
stated as weakly as the code requires; each is reachable in the model unless marked otherwise.

*Ladder.*

- `_cancel_all_then_replace` counts only orders that have an order id in `outstanding_cancels`. If a
  create is still in flight the count is zero, and the next tick places at the same price while the old
  order is born and rests until its deferred cancel. `core.py:2537` says "a cancel-all is never raced by
  a re-place of the same slots" (`CancelAllNotRaced`).
- A cancel-all drops a roll whose amend is in flight. The order then has two client ids; the confirm
  books its lots under the old one, the notice under the new one, and the lots are hedged twice;
  `LadderReports` has no amends.
- The poll books a partial fill of an order that keeps resting, and the late notice of the same lots
  is booked again, because only off-ladder increments are compared with what is booked; so
  `HedgedAtMostOnce` is checked without the poll. The notice of a crossing amend, delivered before
  the amend's own result, double-books a partial in the same way.
- The fallback of a failed roll is clamped to a cap that fell meanwhile without a look at occupied
  prices; so `LadderPriceUnique` is checked with a cap that stays.
- Fills of cancelled orders after a re-place exceed the allotment: the assertion at `core.py:573` is
  not an invariant.
- A second `OrderCancelled` for one order decrements `outstanding_cancels` again; a change of bucket
  is skipped while rolls are in flight, which leaves a ladder over two buckets; a partial fill
  releases the price its order still holds.

*Wings.*

- With two batches on one market the fills query of one leg reads the fills of the other batch's leg
  too. That leg's own query finds nothing new, it is reported unfilled and bought again; so
  `WingsLost` has one batch.
- Coalescing joins fills by time only: fills of two buckets become one batch, hedged on the strikes of
  the first (`BatchSharesBucket`, `core.py:1548`).
- `PendingUnderWay` holds for one batch taken whole. With two batches, or one taken in halves, takes
  carry each other's legs, and a leg can stay pending for ever in two ways:
  - a take drops a leg that another take has claimed, and does not answer for it; when the claiming take
    was dispatched under an older client id its fill does not match the leg. That fill is then booked as
    a rung fill of an unknown bucket and stands the hour down (`core.py:1335`);
  - `_take_wings_async` releases its claims before its fills are ingested: `asyncio.as_completed` hands
    them over an iteration or two of the event loop later. A take that starts in between was given legs
    that are bought but still pending. If it sends other legs it reports these with a count of zero
    (`async_executor.py:1036`), and `_apply_fill` turns a leg already filled into an unfilled one; its
    retry finds nothing left to send and answers nothing (`async_executor.py:926`). The leg is not bought
    again (`NeverOverHedged`), but its set is never completed.
- After a lost response with two batches a set can be counted completed on the fills of the other
  batch, so `HeldIsBought` is checked without lost responses.
- A retry needs both asks, also when only one leg is missing.

*Executor and writer.*

- `_arm_cancel_pending` (`core.py:2491`) calls a pending-order cancel "a no-op here -- nothing rests at
  the venue". The create may be executing; the next create of that price then finds the order resting
  and stands the hour down with `rest_invariant_violation`.
- The pre-place check of one create takes a sibling's order that rests, but whose create is not yet
  answered, for a stray and cancels it; the answer then makes the core believe that it rests.
- A slot lock is keyed by the client id for a create and by the venue id for its DELETE, so the two
  never share one.
- With reservation debt a `fit` priority write waits behind the reservations of creates, although
  `v33/executor.py:193` promises priority writes the reserve.
- The pacer runs before the pre-place check, so paced POSTs can bunch up behind their checks.
- After exhausted cancels the core is told `OrderCancelled` with nothing filled while the order may
  rest; an order whose POST had an unknown outcome may rest until it expires. `CancelledMeansGone` and
  `NothingLeftResting` exempt both (`cancel_failed`, `unknown`).

*V3.2*, all at an allotment of two lots (`SeenTwiceBookedOnce` is the sentence "a fill seen
twice is booked once" of `v32/executor.py`, for every allotment):

- the poll books a partial fill, and the late notice books it again;
- a late notice of a partial fill from before an amend clears `rest_live` and cancels nothing;
- two retries in one tick each send all pending legs; any `fill_count > 0` counts a leg as filled; a
  lost wing response is retried without a look at the fills;
- a cancel whose status cannot be read after an amend undercounts.

*Windows, ledger, guard.*

- An unreadable balance or ledger makes the S4 decision None, and `v33`/`v32` arm without it, although
  the documentation calls the gate fail-closed (V1 does fail closed). S4 of `v33`/`v32` is never
  written to a guard.
- A settlement of which one result could not be fetched counts its credit twice in what is still owed.
- A wing fill that arrives after the loop's end enters neither the ledger's money nor the flag.
- A torn row and an append lose a row; one more append makes the ledger unreadable
  (`load_v33_rows` tolerates damage only on the last line).
- A `record_legged_occurrence` that raises is only logged (`run_v33.py:1373`, `run_v32.py:2071`): the
  occurrence is lost, the row is written and the next window may arm. `EndWindow` has this outcome and
  `LeggedDayStops` exempts these windows.
- `v33/stops.py:11,53,57` say that S1 is counted per contract ("6 contracts = two 3-lot rung events").
  `record_latched_stop` counts occurrences, and `run_v33.py:1366` records one for a window, however
  many contracts lack a wing: the threshold of 6 is six windows. The model counts as the code does.
- `record_latched_stop` rebuilds a damaged guard around the new stop and forgets the earlier ones;
  a killed window that holds legs has no row at all.
- V1: the failure to persist a trip loses the latch for the next process; a guard damaged between gate and S4 check
  raises and ends in a startup-failed row; `_ledger_day_totals` reads zero from an unreadable ledger;
  what is pending excludes the matched pairs of a flip, and is empty when the positions
  read of a dry wake fails, which can latch S4 too early (`SeesPending`).
- V1 arms over open positions where the policy says so: `ArmedOnlyFlat` is not about it. The A4
  counter of guard trips is never incremented by the running service (not in the model).

*Pair.*

- An S3 raised while another stop is flattening can be spurious (`run_window.py:620`; `S3IsReal`).
- Retries of a rebalance go out past the cutoff although `reconciler.py:164` says "NO order at all"
  (`NoOrderPastCutoff`); a flatten that a stop authorised skips the cutoff, too.
- `RideToSettlement` is unreachable from `_maybe_rebalance`; "S2 at close if unresolved"
  (`reconciler.py:126`) is never tripped; S1 trips on a 2:1 partial of two pairs; the box has no
  reconciler, and the cost of its pair is bounded only after the fact by S1_box.

*Feed.*

- The frame that reveals a gap drives a decision itself, and what the decision remembers as tops is
  not marked by `mark_all_suspect` (`record_window.py:231` says "every book is suspect";
  `NoDecisionOverGap`). `HoleShortLived` states the bound that remains: the freshness limit.
- V1's `_dial_loop` supervisor returns after one `force_close`, and V1 has no hard stop: a mint that
  hangs keeps the window past its deadline (`GivesUpAtDeadline`). `EndsInTime` is about
  `run_recording`, which has both.
- `run_recording`'s latched `forcing` closes a fresh connection and redials without back-off; the loop
  gives up after eight redials although its note says "until window end".
- The nearest strike may pair a dead market inside a live generation; a window stands down when the
  selected generation is dead although another is live. Frames without a time stamp fold but do not
  drive.

*Supervisor.*

- The close is computed before the rotation. If the hour ends during the rotation, the child is
  watched against the previous close, killed shortly into its window, and its close is run again.
  `NoMissedClose` and `OneRunPerClose` exempt these closes (`slipped`).
- A signal during the watchdog is noticed only after one grace for each roster; with two rosters that
  is more than the comment at `supervisor.py:791` allows for. A signal during the boot is noticed after
  all sweeps (their retries use `time.sleep`). `StopBounded` states the bounds the code has. A stop
  during a rotation still spawns the window, and then stops it.
- An exception of a spawn is not caught (`supervisor.py:898`): it ends the supervisor, and the children
  that the launch has spawned before run on with nobody to watch or signal them, although the wait is
  built so that no child is left running. `SpawnRaises` has this; `LiveChildrenWatched` exempts exactly
  these children.
- At exactly :40:00, with the close already run, `next_forty` returns the present moment and the loop
  spins until the second is over.

## 7. What is not modelled

- *Dormant code*: `print_through`, batch creates, the unwinding and bucket-NO takes of the executor:
  off in the shipped parameters.
- *Bucket debounce* of `_recompute_context` and the quoting arithmetic: contexts are given by the MC
  module.
- *Levels of the book*: `Feed` has suspicion, holes and ages, not prices and sizes; a frame without
  `market_ticker` (which consumes its sequence number) and a duplicated delta are left out.
- *Concurrent operators*: `pilot_ledger backfill` run by hand next to the sweep can book twice;
  outside the models, which have the service's own writers only.
- *A kill of the supervisor* from outside. It starts again as in an initial state, at a later clock; the
  children that an earlier process left (section 6) are not there, and what its boot sweep, which
  cancels their orders, does to them is left out. Closes at which no supervisor runs are not counted by
  `NoMissedClose`.
- *Details of reads and results*: the V3.x read of positions (`Account.ReadAccount`) fails or shows every
  unsettled leg, and `ArmedOnlyFlat` rests on that, whereas the read of V1 (`Service._read_positions`)
  may omit some. In `Pair` the positions read agree with the exchange at once, and the account holds
  nothing else: a holding from elsewhere, or a leg that settles before the last poll of the grace, is a
  difference to the ledger too and trips S3 (`PositionsReconciler.tick`, `reconciler.py:308`), and an S3
  of that kind is left out. So is a `resp.json()` that raises out of `execute` (`executor.py:261`).
  In `Rest` the order without a context that `_apply_cancelled` books at the desired price
  (`v32/core.py:744`) does not occur: a cancel is of an order the core has placed. In `LadderCore` every
  fill is of a bucket of the window, so the alarm `orphan_fill_not_bucket` of `_apply_orphan_fill`
  (`v33/core.py:1360`) does not arise.
- *Left out because they keep no concurrent state*: request bodies and HTTP of the proxy, configuration
  of further series, plain data types, statistics (real arithmetic), reports, simulators, Monte-Carlo
  studies, one-shot tools, formatting and logging.
