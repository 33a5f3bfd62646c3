------------------------------ MODULE Service ------------------------------
(***************************************************************************)
(* The window process of the first strategy (pilot/service/run_window.py)  *)
(* from its wake to its row: policy, arming gate, reconcile-first,         *)
(* settlement backfill, the balance check, discovery, rotation of old      *)
(* journals, the window, the flush of its journal and its row, on the      *)
(* ledger and the day guard of Account (stops.py, pilot_ledger.py,         *)
(* ledger.py, journal.py, journal_io.py).                                  *)
(*                                                                         *)
(* What happens inside the window is Pair's and Feed's; here a window is   *)
(* what it ends with, and the stops it trips.  Its legs are the YES of the *)
(* lower strike and the NO of the upper one (the flip and the box), or the *)
(* other two sides (the strangle).                                         *)
(***************************************************************************)
EXTENDS Account

CONSTANTS
  Positions   \* what a window of this strategy may end with: the source and the legs

\* any stop of the day refuses the first strategy
ASSUME ServiceAssumption ==
  /\ Positions \subseteq [src : {"flip", "box", "strangle"}, legs : SUBSET {"yes", "no"} \ {{}}]
  /\ Threshold["v1"] = 1

VARIABLES
  files,    \* the journal files of each hour
  tripped   \* history: the hours in which a stop was written to the guard

serviceVars == <<vars, files, tripped>>

V == "v1"
Runs == V \in rosters
At(pc) == Runs /\ proc[V].pc = pc
plan == proc[V].plan

\* flushed: the journal was written; raw, gz and tmp: its file, the compressed one and the one that a
\* compression is writing
NoFile == [flushed |-> FALSE, raw |-> FALSE, gz |-> "none", tmp |-> FALSE]

ServiceInit == Init /\ files = [h \in 1..Hours |-> NoFile] /\ tripped = {}

\* go on at pc with this plan and this arming
Proceed(pc, p, armed) == proc' = [proc EXCEPT ![V] = [Idle EXCEPT !.pc = pc, !.plan = p, !.armed = armed]]

\* the plan is not to trade: the journals are rotated, and the window ends
StandDown == Proceed("rotate", [NoPlan EXCEPT !.stand_down = TRUE], FALSE)

-----------------------------------------------------------------------------
(* prepare: the policy, the gate, reconcile-first *)

\* falsifier, policy, strategy and health of the proxy: any answer
arming_check == BOOLEAN

\* the caps of the proxy against the size of the orders
_caps_agree == BOOLEAN

\* any stop of the day refuses, and so does a file that cannot be read
DayHalted(g) == g.corrupt \/ v33_latched_stop_kind(V, g)

\* the policy is the pinned one; armed mode arms if nothing speaks against it
prepare ==
  /\ At("prepare")
  /\ \E mode \in {"armed", "dry", "shakedown"} :
       LET p == [NoPlan EXCEPT !.mode = mode,
                               !.corrupt = mode # "shakedown" /\ guard[V][Today].corrupt]
       IN \/ StandDown   \* the policy has changed or cannot be read
          \/ \E s5 \in arming_check, caps \in _caps_agree :
               Proceed("positions", p,
                       mode = "armed" /\ s5 /\ caps /\ ~DayHalted(guard[V][Today]))
  /\ UNCHANGED <<rosters, hour, held, ledger, guard, faults, files, tripped>>

Inherited == \E h \in 1..Hours : held[V][h].settled # held[V][h].legs

\* the positions read fails: fatal for an armed window, while another goes on without the sweep; it may
\* omit a leg that has closed and not settled
_read_positions ==
  /\ At("positions")
  /\ \/ /\ Fails({TRUE})
        /\ IF proc[V].armed THEN StandDown ELSE Proceed("s4", plan, FALSE)
     \/ \E inherited \in {Inherited, FALSE} :
          /\ Fails({inherited # Inherited})
          /\ Proceed("backfill", [plan EXCEPT !.stand_down = inherited, !.swept = TRUE],
                     proc[V].armed)
  /\ UNCHANGED <<rosters, hour, held, ledger, guard, files, tripped>>

\* one row of the sweep
_settlement_backfill_sweep ==
  /\ At("backfill")
  /\ Settle(V)
  /\ UNCHANGED <<rosters, hour, proc, held, guard, faults, files, tripped>>

\* mutant: the legs that wait for their settlement are worth nothing
PendingNothing(pending) == 0

\* a dollar for each leg of today whose result is not known
s4_pending_value(pending) == Dollar * Cardinality({w \in pending : DayOf[w[1]] = Today})

\* the legs of the rows that still wait, with the hour; each of them is asked for
AskedFor ==
  UNION {{ledger[V][i].of} \X ledger[V][i].legs :
           i \in IF Loads(ledger[V]) THEN Unsettled(ledger[V]) ELSE {}}

_fetch_market_result(w) == w[2] \in held[V][w[1]].settled

\* the sweep is over: what could not be read, or has no result, is pending; a position in our series is
\* not traded over
_reconcile_first ==
  /\ At("backfill")
  /\ \E unread \in SUBSET {w \in AskedFor : _fetch_market_result(w)} :
       /\ \A i \in Due(V) : \E w \in unread : w[1] = ledger[V][i].of
       /\ Fails({unread # {}})
       /\ IF plan.stand_down THEN StandDown
          ELSE Proceed("s4", [plan EXCEPT !.pending = unread \cup {w \in AskedFor :
                                                                    ~_fetch_market_result(w)}],
                       proc[V].armed)
  /\ UNCHANGED <<rosters, hour, held, ledger, guard, files, tripped>>

-----------------------------------------------------------------------------
(* prepare: the balance check and the discovery *)

\* shakedown has no balance check, and a guard that was corrupt at the gate is not touched
SkipsS4 ==
  /\ At("s4") /\ (plan.mode = "shakedown" \/ plan.corrupt)
  /\ Proceed("discover", NoPlan, proc[V].armed)
  /\ UNCHANGED <<rosters, hour, held, ledger, guard, faults, files, tripped>>

ChecksS4 == At("s4") /\ plan.mode # "shakedown" /\ ~plan.corrupt

\* no balance, or one whose dollars and cents disagree
parse_balance_unusable ==
  /\ ChecksS4 /\ Fails({TRUE})
  /\ Proceed("discover", NoPlan, FALSE)
  /\ UNCHANGED <<rosters, hour, held, ledger, guard, files, tripped>>

\* the first balance of the day is its baseline; a loss that no pending settlement can undo is latched,
\* one that may be undone keeps this window out
S4BalanceCheck ==
  /\ ChecksS4 /\ ~guard[V][Today].corrupt
  /\ LET g == ensure_balance_start(guard[V][Today], Balance)
         kind == s4_balance_decision(g.start, Balance, s4_pending_value(plan.pending))
     IN /\ guard' = [guard EXCEPT ![V][Today] = [g EXCEPT !.s4 = @ \/ kind = "latch"]]
        /\ tripped' = IF kind = "latch" THEN tripped \cup {hour} ELSE tripped
        /\ Proceed("discover", NoPlan, proc[V].armed /\ kind = "clear")
  /\ UNCHANGED <<rosters, hour, held, ledger, faults, files>>

\* the guard was damaged after the gate had read it: there is no baseline to compare with, prepare
\* raises, and a row without a plan is all that is left of the window
_finalize_startup_failure ==
  /\ ChecksS4 /\ guard[V][Today].corrupt
  /\ Proceed("flush", NoPlan, FALSE)
  /\ UNCHANGED <<rosters, hour, held, ledger, guard, faults, files, tripped>>

\* the wake sweep finds the market and its ladder, or not
Discovery ==
  /\ At("discover")
  /\ StandDown \/ Proceed("rotate", NoPlan, proc[V].armed)
  /\ UNCHANGED <<rosters, hour, held, ledger, guard, faults, files, tripped>>

-----------------------------------------------------------------------------
(* Rotation of the journals of earlier hours *)

Work(h, f) == files' = [files EXCEPT ![h] = f] /\ Proceed("rotate", [plan EXCEPT !.file = 0], proc[V].armed)

Rotates == At("rotate") /\ UNCHANGED <<rosters, hour, held, ledger, guard, tripped>>

\* mutant: the compression writes to the file's own name
Overwrite(f) == [f EXCEPT !.gz = "half"]

\* the compressed copy grows beside the raw file
Writing(f) == [f EXCEPT !.tmp = TRUE]

\* a raw file without a compressed one is taken up
_gzip_one_crash_safe(h) ==
  /\ Rotates /\ plan.file = 0 /\ h < hour /\ files[h].raw /\ files[h].gz = "none"
  /\ files' = [files EXCEPT ![h] = Writing(@)]
  /\ Proceed("rotate", [plan EXCEPT !.file = h], proc[V].armed)
  /\ UNCHANGED faults

\* the copy is complete and takes its name, then the raw file goes, unless somebody holds it open; or
\* the disk is full, and the copy is removed
GzipDone(h) ==
  /\ Rotates /\ plan.file = h
  /\ \/ \E locked \in BOOLEAN :
          /\ Fails({locked})
          /\ Work(h, [files[h] EXCEPT !.tmp = FALSE, !.gz = "full", !.raw = locked])
     \/ Fails({TRUE}) /\ Work(h, [files[h] EXCEPT !.tmp = FALSE])

\* a raw file left beside its compressed one goes now, if it can
_best_effort_remove(h) ==
  /\ Rotates /\ plan.file = 0 /\ h < hour /\ files[h].raw /\ files[h].gz # "none"
  /\ Work(h, [files[h] EXCEPT !.raw = FALSE]) /\ UNCHANGED faults

\* files and seconds are limited, names may be kept: the rest waits for another wake
rotate_closed_journals ==
  /\ Rotates /\ plan.file = 0
  /\ Proceed(IF plan.stand_down THEN "flush" ELSE "trading", NoPlan, proc[V].armed)
  /\ UNCHANGED <<faults, files>>

-----------------------------------------------------------------------------
(* execute: the window, its journal and its row *)

execute ==
  /\ At("trading") /\ proc[V].armed /\ held[V][hour].legs = {}
  /\ Cardinality(Traded) < MaxTrades[rosters]
  /\ \E w \in Positions, price \in Prices :
       held' = [held EXCEPT ![V][hour] = [Flat EXCEPT !.src = w.src, !.legs = w.legs, !.price = price]]
  /\ UNCHANGED <<rosters, hour, proc, ledger, guard, faults, files, tripped>>

\* mutant: a trip freezes the process and nothing else
TripUnsaved(g) == g

\* appended to the latches of the day
_persist_latch(g) == record_legged_occurrence(g)

\* S1, S2 or S3: the executor is frozen and the day latched, if the file can be written
trip ==
  /\ At("trading") /\ proc[V].armed
  /\ proc' = [proc EXCEPT ![V].armed = FALSE]
  /\ \/ /\ guard' = [guard EXCEPT ![V][Today] = _persist_latch(@)]
        /\ tripped' = tripped \cup {hour} /\ Fails({FALSE})
     \/ Fails({TRUE}) /\ UNCHANGED <<guard, tripped>>
  /\ UNCHANGED <<rosters, hour, held, ledger, files>>

\* the window is over, by its deadline or an exception
WindowOver ==
  /\ At("trading") /\ Proceed("flush", NoPlan, FALSE)
  /\ UNCHANGED <<rosters, hour, held, ledger, guard, faults, files, tripped>>

\* to a file of its own that takes the name when it is complete
flush ==
  /\ At("flush") /\ Proceed("row", NoPlan, FALSE)
  /\ \/ /\ files' = [files EXCEPT ![hour] = [NoFile EXCEPT !.flushed = TRUE, !.raw = TRUE]]
        /\ UNCHANGED faults
     \/ Fails({TRUE}) /\ UNCHANGED files
  /\ UNCHANGED <<rosters, hour, held, ledger, guard, tripped>>

matched_pairs(p) == IF p.legs = {"yes", "no"} THEN 1 ELSE 0

\* a flip and a box pay a dollar for each pair at least
realized_at_close(p) ==
  (IF p.src = "strangle" THEN 0 ELSE Dollar * matched_pairs(p)) - p.price * Cardinality(p.legs)

\* mutant: the pair of a flip waits for its settlement as well
AllLegs(p) == p.legs

\* the matched pair of a flip counts as settled
unsettled_legs(p) == IF p.src = "flip" /\ matched_pairs(p) > 0 THEN {} ELSE p.legs

_build_ledger_entry(h, p) == Row("window", h, realized_at_close(p), 0, unsettled_legs(p))

\* both legs of a box wait, and the row says what it has counted of them
_build_box_ledger_entry(h, p) ==
  Row("window", h, realized_at_close(p), Dollar * matched_pairs(p), unsettled_legs(p))

_finalize_v1 ==
  /\ At("row")
  /\ LET p == held[V][hour]
     IN AppendRow(V, IF p.src = "box" THEN _build_box_ledger_entry(hour, p)
                     ELSE _build_ledger_entry(hour, p))
  /\ Stop(V)
  /\ UNCHANGED <<rosters, hour, held, guard, faults, files, tripped>>

ServiceStep ==
  \/ prepare \/ _read_positions \/ _settlement_backfill_sweep \/ _reconcile_first
  \/ SkipsS4 \/ parse_balance_unusable \/ S4BalanceCheck \/ _finalize_startup_failure \/ Discovery
  \/ rotate_closed_journals
  \/ \E h \in 1..Hours : _gzip_one_crash_safe(h) \/ GzipDone(h) \/ _best_effort_remove(h)
  \/ execute \/ trip \/ WindowOver \/ flush \/ _finalize_v1

ServiceNext == ServiceStep \/ (Next /\ UNCHANGED <<files, tripped>>)

ServiceSpec == ServiceInit /\ [][ServiceNext]_serviceVars

-----------------------------------------------------------------------------
(* Properties *)

ServiceTypeOK ==
  /\ Runs => plan \in [mode : {"none", "armed", "dry", "shakedown"}, corrupt : BOOLEAN,
                       swept : BOOLEAN, pending : SUBSET ((1..Hours) \X Legs),
                       stand_down : BOOLEAN, file : 0..Hours]
  /\ files \in [1..Hours -> [flushed : BOOLEAN, raw : BOOLEAN, gz : {"none", "half", "full"},
                             tmp : BOOLEAN]]
  /\ tripped \subseteq 1..Hours

\* stops.py, the day guard: "a stop halts the DAY".  Each window is a new process, and the file that
\* carries the stop from one to the next may be damaged at any time, killed processes leave it as it is,
\* and two writers rebuild it: after a trip that was written, or an S4, no window of the day is armed
TrippedDayStops ==
  Runs /\ proc[V].armed => \A h \in tripped : DayOf[h] # Today

\* the outcomes that a window can still have
Possible(p) == IF p.out = "open" THEN Outcomes ELSE {p.out}

\* what the open legs of the day can bring at best
BestCase ==
  MapThenSumSet(LAMBDA h : LET p == held[V][h]
                           IN Max({settlement_payoff(p.src, p.legs \ p.settled, o) : o \in Possible(p)}),
                {h \in 1..Hours : DayOf[h] = Today})

\* every open leg of the day is in a row that the sweep has read
SeesPending ==
  /\ plan.swept /\ Loads(ledger[V])
  /\ \A h \in 1..(hour - 1) :
       DayOf[h] = Today /\ held[V][h].settled # held[V][h].legs
         => \E i \in Unsettled(ledger[V]) : ledger[V][i].of = h

\* S4 (run_window.py prepare, the 16:40Z incident): a latch, which costs the rest of the day, is only
\* written for a loss that the legs still to settle cannot undo, even when some of them are missing in
\* the positions read -- as long as their rows could be swept
LatchMeansLost ==
  [][Runs /\ guard'[V][Today].s4 /\ ~guard[V][Today].s4 /\ SeesPending
       => guard'[V][Today].start - (Balance + BestCase) >= Cap]_serviceVars

\* run_window.py _build_ledger_entry ("always in the SAFE direction"): the ledger never counts more for a
\* window than any outcome pays, through all the rows that are torn, glued or written after a kill, and a
\* window that has been backfilled counts what it made
BooksNoHope ==
  Runs => \A h \in 1..Hours :
    LET p == held[V][h]
    IN Closed(V, h) =>
         /\ \A o \in Possible(p) : Booked(V, h) <= Truth([p EXCEPT !.out = o])
         /\ h \in Done(ledger[V]) => Booked(V, h) = Truth(p)

\* journal_io.py (_gzip_one_crash_safe): whatever is killed during a rotation, and whatever files the
\* next ones find, a journal that was flushed can be read: readers take the raw file if there is one
JournalKept ==
  \A h \in 1..Hours : files[h].flushed => files[h].raw \/ files[h].gz = "full"
=============================================================================
