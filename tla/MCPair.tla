------------------------------- MODULE MCPair -------------------------------
(* Instances of Pair for TLC *)
EXTENDS Pair

\* two pairs of the flip, one of the others
PairsBySource == [s \in {"sub$1-flip", "Q1-strangle", "wide-box"} |-> IF s = "sub$1-flip" THEN 2 ELSE 1]
=============================================================================
