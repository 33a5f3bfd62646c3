------------------------------- MODULE MCRest -------------------------------
(* Rest for TLC: the contexts a tick may read *)
EXTENDS Rest

Quote == [spot |-> 1, wings |-> TRUE, quote |-> TRUE, moved |-> FALSE, lock |-> TRUE,
          phase |-> "window", alarm |-> FALSE]
NoSpot == [Quote EXCEPT !.spot = None, !.wings = FALSE, !.quote = FALSE]

\* a quote to hold on bucket 1, one on bucket 2 that moves at every tick, no spot bucket, the
\* replace-rate alarm, and the later phases of the window
MCContexts ==
  {[Quote EXCEPT !.phase = "warmup"], Quote,
   [Quote EXCEPT !.spot = 2, !.moved = TRUE, !.lock = FALSE], NoSpot, [Quote EXCEPT !.alarm = TRUE],
   [Quote EXCEPT !.phase = "past"], [NoSpot EXCEPT !.phase = "cutoff"]}
=============================================================================
