---------------------------- MODULE MCSupervisor ----------------------------
(***************************************************************************)
(* Instances of Supervisor for TLC: the command lines with one roster and  *)
(* with two, started at any tick of the first hour.                        *)
(***************************************************************************)
EXTENDS Supervisor

CONSTANTS v33, v33_eth

CommandLines ==
    [rosters : {<<v33>>, <<v33, v33_eth>>}, multi : BOOLEAN, once : BOOLEAN, run_now : BOOLEAN]

\* --roster takes one roster; --rosters any number.
HostChoices == {c \in CommandLines : c.multi \/ Len(c.rosters) = 1}

AnyTick == [h : {0}, s : 0..(Hour - 1)]

=============================================================================
