------------------------------ MODULE MCLadder ------------------------------
(* Instances of Ladder for TLC: ladder shapes, markets and clocks *)
EXTENDS Ladder

Priced(b, top, ceiling) ==
  [spot_Sd |-> b, stale |-> FALSE, W |-> TRUE, cap |-> ceiling, n_top |-> top]
NoWing(b, ceiling) ==
  [spot_Sd |-> b, stale |-> FALSE, W |-> FALSE, cap |-> ceiling, n_top |-> None]
StaleBucket(b) ==
  [spot_Sd |-> b, stale |-> TRUE, W |-> FALSE, cap |-> None, n_top |-> None]
NoSpot == [spot_Sd |-> None, stale |-> FALSE, W |-> FALSE, cap |-> None, n_top |-> None]

\* one rung of one lot, two rungs of one lot, one rung of two lots
OneRung == [k \in 0..0 |-> 1]
TwoRungs == [k \in 0..1 |-> 1]
HeavyRung == [k \in 0..0 |-> 2]

\* the timers may have run out or not; the replace-rate alarm may also ring
Calm == { [late |-> l, hot |-> FALSE] : l \in BOOLEAN }
Ringing == { [late |-> TRUE, hot |-> h] : h \in BOOLEAN }

\* one price that goes away and comes back
OnOff == { Priced(1, 2, 3), StaleBucket(1) }
\* the same, over a stale wing as well (the hold) and without a spot
Flicker == { Priced(1, 2, 3), NoWing(1, 3), NoSpot }
\* the top of the ladder moves by one cent (with and without gaps), by two
Drift == { Priced(1, 2, 3), Priced(1, 3, 3), StaleBucket(1) }
Climb == { Priced(1, 2, 3), Priced(1, 3, 3) }
Jump == { Priced(1, 2, 4), Priced(1, 4, 4) }
\* the spot moves between two buckets
TwoBuckets == { Priced(1, 2, 3), Priced(2, 2, 3) }
=============================================================================
