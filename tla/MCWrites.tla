------------------------------ MODULE MCWrites ------------------------------
(* Instances of Writes for TLC *)
EXTENDS Writes

CONSTANTS c1, c2

\* one rung, re-placed at another price; or two rungs, the second order perhaps at
\* the price of the first
LadderChoices ==
  {[k_rungs |-> 1, price |-> [c \in Coids |-> IF c = c1 THEN 1 ELSE 2]],
   [k_rungs |-> 2, price |-> [c \in Coids |-> 1]]}

\* one worker to a lane: the smallest pool, where every call can keep another waiting
OneWorker == [l \in Lanes |-> 1]
=============================================================================
