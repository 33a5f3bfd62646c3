------------------------------ MODULE MCAccount ------------------------------
(* Account for TLC: the ladder's two rosters, the ladder beside the single-rest strategy, or the first strategy *)
EXTENDS Service

MCRosterSets == {{"v33"}, {"v33", "v33_eth"}, {"v32", "v33"}, {"v1"}}

\* the ladder alone for four hours, three trades and a fault; with its sibling, or the single-rest
\* strategy, for two hours; the first strategy for three
MCMaxHour == [rs \in MCRosterSets |-> IF rs = {"v33"} THEN 4 ELSE IF rs = {"v1"} THEN 3 ELSE 2]
MCMaxTrades == [rs \in MCRosterSets |-> IF rs = {"v33"} THEN 3 ELSE IF "v32" \in rs THEN 1 ELSE 2]
MCMaxFaults == [rs \in MCRosterSets |-> IF rs = {"v33", "v33_eth"} THEN 0 ELSE 1]

\* the last hour belongs to the next day
MCDayOf == [h \in 1..Hours |-> IF h < 4 THEN 1 ELSE 2]

\* a full set, all of it booked or its wings reported too late; a set that lacks a wing, booked or
\* missed by the core
MCWindows == {[legs |-> Legs, core |-> Legs], [legs |-> Legs, core |-> {"bucket"}],
              [legs |-> {"bucket", "yes"}, core |-> {"bucket", "yes"}],
              [legs |-> {"bucket", "yes"}, core |-> {}]}

\* one leg, or a pair, of each source
MCPositions == [src : {"flip", "box", "strangle"}, legs : {{"no"}, {"yes", "no"}}]

MCThreshold == [r \in Rosters |-> IF r = "v33" THEN 2 ELSE 1]
=============================================================================
