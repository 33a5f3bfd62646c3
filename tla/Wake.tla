-------------------------------- MODULE Wake --------------------------------
(***************************************************************************)
(* The wake sweep (pilot/service/wake.py) and the pairing of the legs      *)
(* (quintile.py, sigma_feed.py, run_window.py): pure functions from the    *)
(* exchange's listing to the two legs of a window, what is subscribed, and *)
(* whether the strangle may be traded.                                     *)
(*                                                                         *)
(* A market is a record of its series, its generation (event and open      *)
(* time), its strike, whether it co-settles at the close of the window and *)
(* whether its status is a dead one.  Tickers are integers in the order of *)
(* their names; window[g] is the length of generation g, None when its     *)
(* open time cannot be read.                                               *)
(***************************************************************************)
EXTENDS Integers, FiniteSets, FiniteSetsExt

CONSTANT None

\* the markets of one generation that co-settle at the close
_group_ladders(markets) ==
  LET settling == { m \in markets : m.settles }
  IN { { m \in settling : m.gen = g } : g \in { m.gen : m \in settling } }

GenOf(ladder) == (CHOOSE m \in ladder : TRUE).gen

Smaller(window, x, y) ==
  \/ window[GenOf(x)] < window[GenOf(y)]
  \/ window[GenOf(x)] = window[GenOf(y)] /\ Cardinality(x) > Cardinality(y)
  \/ /\ window[GenOf(x)] = window[GenOf(y)]
     /\ Cardinality(x) = Cardinality(y)
     /\ GenOf(x) <= GenOf(y)

\* smallest window, then most strikes, then lowest event; {} if no window can be read
_select_smallest_window(ladders, window) ==
  LET readable == { l \in ladders : window[GenOf(l)] # None }
  IN IF readable = {} THEN {}
     ELSE CHOOSE l \in readable : \A k \in readable : Smaller(window, l, k)

_leg_is_live(ladder) == \E m \in ladder : ~m.dead

Fifteen(listing) == { m \in listing.markets : m.series = "m15" }
Hourly(listing) == { m \in listing.markets : m.series = "hourly" }

\* the two selected ladders, or a stand-down: no leg, no readable window, a dead leg
StandDown == [fifteen |-> {}, hourly |-> {}]
discover_legs(listing) ==
  LET Pick(markets) == _select_smallest_window(_group_ladders(markets), listing.window)
      fifteen == Pick(Fifteen(listing))
      hourly == Pick(Hourly(listing))
  IN IF ~_leg_is_live(fifteen) \/ ~_leg_is_live(hourly) THEN StandDown
     ELSE [fifteen |-> fifteen, hourly |-> hourly]

\* every live hourly generation with a readable window
live_hourly_ladders(listing) ==
  { l \in _group_ladders(Hourly(listing)) : listing.window[GenOf(l)] # None /\ _leg_is_live(l) }

\* every bucket of every live generation (the range recorder and the V3 windows)
discover_range_markets(listing) ==
  UNION { l \in _group_ladders(Hourly(listing)) : _leg_is_live(l) }

Strikes(ladder) == { m.strike : m \in ladder } \ {None}

expected_step(hour) == CASE hour = "plain" -> 100 [] hour = "special" -> 250 [] hour = "friday" -> 500

\* the steps from each strike to the next above it
Gaps(strikes) ==
  LET Above(x) == { y \in strikes : x < y }
  IN { Min(Above(x)) - x : x \in { z \in strikes : Above(z) # {} } }

\* fewer than two strikes, uneven gaps or another step than the map's: no strangle
ladder_check(ladder, hour) == Gaps(Strikes(ladder)) = { expected_step(hour) }

Away(m, A) == IF m.strike < A THEN A - m.strike ELSE m.strike - A

\* the nearest strike of the pool, {} when there is none or two are equally near
nearest_hourly_strike(A, pool) ==
  LET listed == { m \in pool : m.strike # None /\ m.settles }
      near == { m \in listed : \A k \in listed : Away(m, A) <= Away(k, A) }
  IN IF Cardinality(near) = 1 THEN near ELSE {}

\* anchor and nearest strike, higher strike first; no pair on a tie or on A = K.
\* Without an anchor tape there is no quintile, and the strangle stands down.
NoPair == [high |-> None, low |-> None, quintile |-> FALSE]
fallback_pair(A, anchor, pool) ==
  LET near == nearest_hourly_strike(A, pool) IN
  IF near = {} THEN NoPair
  ELSE LET K == CHOOSE m \in near : TRUE IN
       IF K.strike = A THEN NoPair
       ELSE [high |-> IF A > K.strike THEN anchor ELSE K.ticker,
             low |-> IF A > K.strike THEN K.ticker ELSE anchor, quintile |-> FALSE]

compute_window_stats(A, anchor, pool, tape) ==
  [fallback_pair(A, anchor, pool) EXCEPT !.quintile = tape]

Tickers(ladder) == { m.ticker : m \in ladder }

\* the generation of the market that was paired
_chosen_hourly_leg(ladders, selected, pair) ==
  LET Holding(t) == { l \in ladders : t \in Tickers(l) } IN
  IF Holding(pair.high) # {} THEN CHOOSE l \in Holding(pair.high) : TRUE
  ELSE IF Holding(pair.low) # {} THEN CHOOSE l \in Holding(pair.low) : TRUE
  ELSE selected

\* mutant: the step of the selected ladder is checked, whichever was paired (before F1)
SelectedLadderCheck(ladders, selected, pair, hour) == ladder_check(selected, hour)

_chosen_ladder_check(ladders, selected, pair, hour) ==
  ladder_check(_chosen_hourly_leg(ladders, selected, pair), hour)

\* the first n tickers of a ladder
FirstTickers(ladder, n) ==
  { t \in Tickers(ladder) : Cardinality({ u \in Tickers(ladder) : u < t }) < n }

\* the pair always, the fifteen-minute market, the chosen ladder up to the cap
_subscription_tickers(fifteen, chosen, pair, max_hourly) ==
  {pair.high, pair.low} \cup Tickers(fifteen)
    \cup (IF max_hourly = None THEN Tickers(chosen) ELSE FirstTickers(chosen, max_hourly))
=============================================================================
