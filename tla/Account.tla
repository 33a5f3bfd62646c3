------------------------------ MODULE Account ------------------------------
(***************************************************************************)
(* The window processes of two rosters on one shared account, hour after   *)
(* hour: settlement backfill, the arm-or-degrade gate, the day guard, the  *)
(* reconciliation of a window and the append-only ledgers                  *)
(* (pilot/service/run_v33.py main, run_v32.py main, v33/stops.py,          *)
(* v32/stops.py, stops.py, v33/ledger.py, v32/ledger.py, v33/reconcile.py, *)
(* v33/series.py).                                                         *)
(*                                                                         *)
(* Each roster runs one process per hour.  A process may be killed between *)
(* any two steps, and in the middle of appending a row; the next hour      *)
(* starts from the files it left.  Markets finalize one leg at a time, at  *)
(* any time after the window that holds the leg has ended.                 *)
(*                                                                         *)
(* Abstractions                                                            *)
(*  - a window's orders are its outcome: the legs held when it ends, at    *)
(*    one price for each, one lot of each;                                 *)
(*  - money is counted in units of which a contract pays Dollar;           *)
(*  - the outcome of an hour is where the settlement price lies: below,    *)
(*    inside or above the bucket;                                          *)
(*  - /health, the falsifier and the sha are one answer: S5 passes or not. *)
(***************************************************************************)
EXTENDS Integers, Sequences, FiniteSets, FiniteSetsExt

CONSTANTS
  RosterSets,   \* the sets of rosters that may run together
  Hours,        \* the hours modelled are 1..Hours
  MaxHour,      \* the last of them, by set of rosters
  DayOf,        \* the UTC day of each hour's close
  Outcomes,     \* where the settlement price may lie
  Prices,       \* the prices a leg may cost
  Windows,      \* what a window may end with: the legs held, the legs its core has booked
  Dollar,       \* what a contract pays
  Cap,          \* the day-loss cap (V33_S4_DAY_LOSS_CAP_DOLLARS)
  Threshold,    \* one-legged windows that latch the day, by roster
  MaxTrades,    \* bound on the windows that trade, by set of rosters
  MaxFaults     \* bound on kills, torn rows, corrupted guards, failed reads and writes, likewise

Rosters == {"v1", "v32", "v33", "v33_eth"}
Legs == {"bucket", "yes", "no"}
Days == {DayOf[h] : h \in 1..Hours}
None == -1000

ASSUME AccountAssumption ==
  /\ RosterSets \subseteq SUBSET Rosters /\ Hours \in Nat \ {0}
  /\ DayOf \in [1..Hours -> Nat] /\ \A h \in 1..Hours - 1 : DayOf[h] <= DayOf[h + 1]
  /\ Outcomes \subseteq {"below", "inside", "above"} /\ Outcomes # {}
  /\ Prices \subseteq Nat \ {0} /\ IsFiniteSet(Prices)
  /\ Windows \subseteq [legs : SUBSET Legs, core : SUBSET Legs]
  /\ \A w \in Windows : "bucket" \in w.legs /\ w.core \subseteq w.legs
  /\ Dollar \in Nat \ {0} /\ Cap \in Nat \ {0} /\ Threshold \in [Rosters -> Nat \ {0}]
  /\ MaxHour \in [RosterSets -> 1..Hours]
  /\ MaxTrades \in [RosterSets -> Nat] /\ MaxFaults \in [RosterSets -> Nat]

VARIABLES
  rosters,  \* the rosters that run
  hour,     \* the hour under way
  proc,     \* the window process of each roster (see Idle)
  held,     \* what each roster holds of each hour (see Flat)
  ledger,   \* the rows of each roster's ledger, in append order
  guard,    \* the day-guard file of each roster and day
  faults    \* faults so far

vars == <<rosters, hour, proc, held, ledger, guard, faults>>

\* the position prefix, the roster whose ledger and guard are read too, and whether the window is
\* reconciled against executor truth; "v1" is the first strategy (see Service)
Prefix(r) == IF r = "v33_eth" THEN "KXETH" ELSE "KXBTC"
Siblings(r) == CASE r = "v33" -> {"v33_eth"} [] r = "v33_eth" -> {"v33"} [] r \in {"v1", "v32"} -> {}
Reconciles(r) == r \notin {"v1", "v32"}

\* one process of each roster for each hour
NoPlan == [mode |-> "none", corrupt |-> FALSE, swept |-> FALSE, pending |-> {}, stand_down |-> FALSE,
           file |-> 0]

Idle == [pc |-> "off", clean |-> FALSE, balance |-> None, s4 |-> "none", armed |-> FALSE,
         plan |-> NoPlan]

\* the supervisor has started it, and the sweep comes first
Spawned(r) == [Idle EXCEPT !.pc = IF r = "v1" THEN "prepare" ELSE "sweep"]

\* src: how the legs pay; core: the legs the core has booked (the executor has seen every fill of a rest)
Flat == [src |-> "pin", legs |-> {}, price |-> 0, out |-> "open", settled |-> {}, core |-> {}]

\* lost: history, the occurrences of the day that the file does not carry
NewGuard == [start |-> None, legged |-> 0, s4 |-> FALSE, corrupt |-> FALSE, lost |-> 0]

Init ==
  /\ rosters \in RosterSets
  /\ hour = 1
  /\ proc = [r \in rosters |-> Spawned(r)]
  /\ held = [r \in rosters |-> [h \in 1..Hours |-> Flat]]
  /\ ledger = [r \in rosters |-> <<>>]
  /\ guard = [r \in rosters |-> [d \in Days |-> NewGuard]]
  /\ faults = 0

-----------------------------------------------------------------------------
(* Money *)

\* each leg of the pin (bucket NO, YES of the lower strike, NO of the upper) loses in one outcome
LosesIn(leg) == CASE leg = "bucket" -> "inside" [] leg = "yes" -> "below" [] leg = "no" -> "above"

\* a strangle holds the other sides
Pays(src, leg, out) == (LosesIn(leg) = out) = (src = "strangle")

settlement_payoff(src, legs, out) == Dollar * Cardinality({g \in legs : Pays(src, g, out)})

\* what n legs of one pin pay at every settlement
v32_set_floor_dollars(n) == IF n > 1 THEN (n - 1) * Dollar ELSE 0

Traded == {w \in rosters \X (1..Hours) : held[w[1]][w[2]].legs # {}}

\* the balance of the shared account, from a start of 0
Balance ==
  MapThenSumSet(LAMBDA w : LET p == held[w[1]][w[2]]
                           IN settlement_payoff(p.src, p.settled, p.out)
                              - p.price * Cardinality(p.legs), Traded)

-----------------------------------------------------------------------------
(* The ledger file: one line per row.  A process that dies inside an       *)
(* append leaves a line without an end, and the next append continues it.  *)

\* the legs are those that wait for their settlement; floor is what delta counts of it already
Row(kind, h, delta, floor, legs) ==
  [kind |-> kind, of |-> h, delta |-> delta, floor |-> floor, legs |-> legs, flagged |-> FALSE]

EmptyRow(h) == Row("window", h, 0, 0, {})
Torn == Row("torn", 0, 0, 0, {})
Glued == Row("glued", 0, 0, 0, {})

TornTail(rows) == rows # <<>> /\ rows[Len(rows)].kind = "torn"

append_v33_ledger_row(rows, row) ==
  IF TornTail(rows) THEN [rows EXCEPT ![Len(rows)] = Glued] ELSE Append(rows, row)

\* a line that does not parse raises, unless it is the last one
Loads(rows) == \A i \in DOMAIN rows : rows[i].kind \in {"torn", "glued"} => i = Len(rows)

\* mutant: no row counts as backfilled
DoneNone(rows) == {}

Done(rows) == {rows[i].of : i \in {j \in DOMAIN rows : rows[j].kind = "backfill"}}

\* the rows of windows that still wait for their settlement
Unsettled(rows) ==
  {i \in DOMAIN rows : /\ rows[i].kind = "window" /\ rows[i].legs # {}
                       /\ rows[i].of \notin Done(rows)}

\* the credit still owed for a day: what arrives at every settlement, and at the best one
v32_pending_credit(rows, d) ==
  LET today == {i \in Unsettled(rows) : DayOf[rows[i].of] = d}
      n(i) == Cardinality(rows[i].legs)
  IN [pess |-> MapThenSumSet(LAMBDA i : v32_set_floor_dollars(n(i)), today),
      opt |-> MapThenSumSet(LAMBDA i : Dollar * (IF n(i) < 2 THEN n(i) ELSE 2), today)]

\* the same band over the ladder's rows; the rows of dry windows hold no legs here
v33_pending_credit(rows, d) == v32_pending_credit(rows, d)

\* own rows and the sibling's, in one list; a sibling's ledger that does not load counts as empty
_account_pending_credit(r, d) ==
  LET sib == {s \in Siblings(r) \cap rosters : Loads(ledger[s])}
  IN IF r = "v32" THEN v32_pending_credit(ledger[r], d)
     ELSE v33_pending_credit(ledger[r] \o IF sib = {} THEN <<>> ELSE ledger[CHOOSE s \in sib : TRUE],
                             d)

s4_balance_decision(start, now, upside) ==
  IF start - (now + upside) >= Cap THEN "latch" ELSE IF start - now < Cap THEN "clear" ELSE "pending"

\* the floor of the pending settlements is as good as money
v33_s4_decision(start, now, credit) ==
  s4_balance_decision(start, now + credit.pess, credit.opt - credit.pess)

-----------------------------------------------------------------------------
(* One window process *)

Today == DayOf[hour]

Goto(r, pc) == proc' = [proc EXCEPT ![r].pc = pc]

Stop(r) == proc' = [proc EXCEPT ![r] = Idle]

\* some of these reads fail, at the cost of one fault
Fails(reads) ==
  IF TRUE \in reads THEN faults < MaxFaults[rosters] /\ faults' = faults + 1 ELSE UNCHANGED faults

AppendRow(r, row) == ledger' = [ledger EXCEPT ![r] = append_v33_ledger_row(@, row)]

fetch_market_result_v32(p, leg) == leg \in p.settled

SettledAll(p, legs) == \A leg \in legs : fetch_market_result_v32(p, leg)

\* what the window's row has booked of the settlement, as the row says
_v32_floor_booked_for_entry(row) == row.floor

\* the credit that the close has not counted
build_backfill_row(row, payoff) ==
  Row("backfill", row.of, payoff - _v32_floor_booked_for_entry(row), 0, row.legs)

\* the rows the sweep can settle
Due(r) == IF Loads(ledger[r])
          THEN {i \in Unsettled(ledger[r]) :
                  SettledAll(held[r][ledger[r][i].of], ledger[r][i].legs)}
          ELSE {}

\* a row for a window whose legs have all settled
Settle(r) ==
  \E i \in Due(r) :
    LET row == ledger[r][i]
        p == held[r][row.of]
    IN AppendRow(r, build_backfill_row(row, settlement_payoff(p.src, row.legs, p.out)))

v32_settlement_backfill_sweep ==
  /\ "v32" \in rosters /\ proc["v32"].pc = "sweep"
  /\ Settle("v32")
  /\ UNCHANGED <<rosters, hour, proc, held, guard, faults>>

v33_settlement_backfill_sweep(r) ==
  /\ Reconciles(r) /\ proc[r].pc = "sweep"
  /\ Settle(r)
  /\ UNCHANGED <<rosters, hour, proc, held, guard, faults>>

\* the sweep ends with a result that could not be read, which leaves its row for a later sweep, or
\* with nothing due; then a row without money
StandDownRow(r) ==
  /\ proc[r].pc = "sweep" /\ Fails({Due(r) # {}})
  /\ AppendRow(r, EmptyRow(hour)) /\ Stop(r)
  /\ UNCHANGED <<rosters, hour, held, guard>>

\* the params did not load, a ladder is missing, the buckets have another width, or the mode is dry
_stand_down_v32 == "v32" \in rosters /\ StandDownRow("v32")

\* the params did not load, there is nothing to trade, or the mode is dry
_stand_down(r) == Reconciles(r) /\ StandDownRow(r)

\* mutant: the positions of the account are not looked at
CleanUnread(r) == TRUE

\* no market of the roster's series is held
reconcile_positions_clean(r) ==
  \A s \in rosters, h \in 1..Hours :
    Prefix(s) = Prefix(r) => held[s][h].legs = held[s][h].settled

\* the first readable balance of the day becomes its baseline; a corrupt guard is left alone
ensure_balance_start(g, now) == IF g.corrupt \/ g.start # None THEN g ELSE [g EXCEPT !.start = now]

\* discovery finds both ladders and the mode is armed: /portfolio/positions and /portfolio/balance;
\* positions that cannot be read are not clean, without a balance there is no S4 decision
ReadAccount(r) ==
  /\ r # "v1" /\ proc[r].pc = "sweep"
  /\ \E clean \in {reconcile_positions_clean(r), FALSE}, now \in {Balance, None} :
       /\ Fails({Due(r) # {}, clean # reconcile_positions_clean(r), now = None})
       /\ proc' = [proc EXCEPT ![r].pc = "decide", ![r].clean = clean, ![r].balance = now]
       /\ guard' = IF now = None THEN guard
                   ELSE [guard EXCEPT ![r][Today] = ensure_balance_start(@, now)]
  /\ UNCHANGED <<rosters, hour, held, ledger>>

\* what halts the day
v33_latched_stop_kind(r, g) == g.s4 \/ g.legged >= Threshold[r]

_sibling_s4_latched(r) == \E s \in Siblings(r) \cap rosters : guard[s][Today].s4

S4(r) ==
  LET g == guard[r][Today]
  IN IF proc[r].balance = None \/ g.corrupt \/ ~Loads(ledger[r]) THEN "none"
     ELSE v33_s4_decision(g.start, proc[r].balance, _account_pending_credit(r, Today))

\* the falsifier, the sha of the parameters and the caps of /health: any answer
v33_arming_check == BOOLEAN

v32_arming_check == BOOLEAN

decide_v32_arming(g, s5, clean, s4) ==
  ~g.corrupt /\ ~v33_latched_stop_kind("v32", g) /\ s5 /\ clean /\ s4 \in {"none", "clear"}

\* the sibling's latch stops this roster too
decide_v33_arming(r, g, s5, clean, s4) ==
  /\ ~g.corrupt /\ ~v33_latched_stop_kind(r, g) /\ ~_sibling_s4_latched(r)
  /\ s5 /\ clean /\ s4 \in {"none", "clear"}

\* arm, or degrade to dry; the answer of S4 is not written anywhere
Resolve(r, arms) ==
  /\ proc' = [proc EXCEPT ![r] = [Idle EXCEPT !.pc = "window", !.armed = arms, !.s4 = S4(r)]]
  /\ UNCHANGED <<rosters, hour, held, ledger, guard, faults>>

DecideV32 ==
  /\ "v32" \in rosters /\ proc["v32"].pc = "decide"
  /\ \E s5 \in v32_arming_check :
       Resolve("v32", decide_v32_arming(guard["v32"][Today], s5, proc["v32"].clean, S4("v32")))

Decide(r) ==
  /\ Reconciles(r) /\ proc[r].pc = "decide"
  /\ \E s5 \in v33_arming_check :
       Resolve(r, decide_v33_arming(r, guard[r][Today], s5, proc[r].clean, S4(r)))

\* what an armed window ends up holding, and what its core knows of it: the core may miss the fill
\* altogether, or a wing that was reported too late
Trade(r) ==
  /\ proc[r].pc = "window" /\ proc[r].armed /\ held[r][hour].legs = {}
  /\ Cardinality(Traded) < MaxTrades[rosters]
  /\ \E w \in Windows, price \in Prices :
       held' = [held EXCEPT ![r][hour] = [Flat EXCEPT !.legs = w.legs, !.price = price,
                                                      !.core = w.core]]
  /\ UNCHANGED <<rosters, hour, proc, ledger, guard, faults>>

\* mutant: only what the core knows of counts
OneLeggedCore(r, p) == p.core # {} /\ p.core # Legs

\* the window left lots without their wings: by the core's account or, for V3.3, by the executor's
OneLegged(r, p) == \/ p.core # {} /\ p.core # Legs
                   \/ Reconciles(r) /\ p.legs # {} /\ p.legs # Legs

\* a corrupt guard is rebuilt around the new occurrence
record_legged_occurrence(g) ==
  IF g.corrupt
  THEN [start |-> None, legged |-> 1, s4 |-> FALSE, corrupt |-> FALSE, lost |-> g.lost + g.legged]
  ELSE [g EXCEPT !.legged = @ + 1]

\* the guard cannot be read or written: the occurrence is gone
unrecorded_occurrence(g) == [g EXCEPT !.lost = @ + 1]

\* the finally of main: reconcile the window, record the occurrence; whatever that raises is logged,
\* and the window goes on to its row
EndWindow(r) ==
  /\ proc[r].pc = "window"
  /\ LET legged == proc[r].armed /\ OneLegged(r, held[r][hour])
     IN \E raised \in {FALSE, legged} :
          /\ Fails({raised})
          /\ guard' = IF ~legged THEN guard
                      ELSE [guard EXCEPT ![r][Today] = IF raised THEN unrecorded_occurrence(@)
                                                       ELSE record_legged_occurrence(@)]
  /\ proc' = [proc EXCEPT ![r] = [Idle EXCEPT !.pc = "append"]]
  /\ UNCHANGED <<rosters, hour, held, ledger>>

\* the money of a row is the core's, for both strategies; what the executor saw and the core did not
\* only flags the ladder's row
_compute_money_math(p) ==
  v32_set_floor_dollars(Cardinality(p.core)) - p.price * Cardinality(p.core)

build_v32_ledger_row(h, p) ==
  Row("window", h, _compute_money_math(p), v32_set_floor_dollars(Cardinality(p.core)), p.core)

compute_ladder_money_math(p) == IF p.core = {} THEN 0 ELSE _compute_money_math(p)

\* mutant: nothing flags a window that the core has lost
MismatchNever(r, p) == FALSE

Mismatch(r, p) == Reconciles(r) /\ p.legs # {} /\ p.core = {}

build_v33_ledger_row(h, p, flagged) ==
  [Row("window", h, compute_ladder_money_math(p), v32_set_floor_dollars(Cardinality(p.core)), p.core)
     EXCEPT !.flagged = flagged]

\* the row of a dry window has no money
_finalize_v32 ==
  /\ "v32" \in rosters /\ proc["v32"].pc = "append"
  /\ AppendRow("v32", build_v32_ledger_row(hour, held["v32"][hour])) /\ Stop("v32")
  /\ UNCHANGED <<rosters, hour, held, guard, faults>>

\* a reconciliation that raises flags the row as well
_finalize(r) ==
  /\ Reconciles(r) /\ proc[r].pc = "append"
  /\ LET p == held[r][hour]
     IN \E raised \in {FALSE, p.legs # {} /\ faults < MaxFaults[rosters]} :
          /\ AppendRow(r, build_v33_ledger_row(hour, p, raised \/ Mismatch(r, p)))
          /\ faults' = IF raised THEN faults + 1 ELSE faults
  /\ Stop(r)
  /\ UNCHANGED <<rosters, hour, held, guard>>

-----------------------------------------------------------------------------
(* The world *)

\* a kill, a crash or the hard stop, between two steps or in the middle of an append
Killed(r) ==
  /\ proc[r].pc # "off" /\ faults < MaxFaults[rosters] /\ faults' = faults + 1
  /\ Stop(r)
  /\ \/ UNCHANGED ledger
     \/ /\ proc[r].pc \in {"sweep", "append", "backfill", "row"}
        /\ ledger' = [ledger EXCEPT ![r] = IF TornTail(@) THEN @ ELSE Append(@, Torn)]
  /\ UNCHANGED <<rosters, hour, held, guard>>

\* somebody or something damages the guard of the day; an arming process reads it once
Corrupted(r) ==
  /\ proc[r].pc # "decide"
  /\ faults < MaxFaults[rosters] /\ faults' = faults + 1
  /\ guard[r][Today] # NewGuard /\ ~guard[r][Today].corrupt
  /\ guard' = [guard EXCEPT ![r][Today].corrupt = TRUE]
  /\ UNCHANGED <<rosters, hour, proc, held, ledger>>

\* a market event of an hour that has closed finalizes: the bucket's, or that of both strikes; the two
\* legs of the first strategy belong to two events
Finalized(r, h) ==
  /\ h < hour
  /\ \E event \in IF r = "v1" THEN {{"yes"}, {"no"}} ELSE {{"bucket"}, {"yes", "no"}}, out \in Outcomes :
       /\ held[r][h].out \in {"open", out}
       /\ (event \cap held[r][h].legs) \ held[r][h].settled # {}
       /\ held' = [held EXCEPT ![r][h].settled = @ \cup (event \cap held[r][h].legs),
                               ![r][h].out = out]
  /\ UNCHANGED <<rosters, hour, proc, ledger, guard, faults>>

\* the watchdog has seen to it that no process outlives its hour; the next ones are spawned
NextHour ==
  /\ hour < MaxHour[rosters] /\ \A r \in rosters : proc[r].pc = "off"
  /\ hour' = hour + 1 /\ proc' = [r \in rosters |-> Spawned(r)]
  /\ UNCHANGED <<rosters, held, ledger, guard, faults>>

Next ==
  \/ NextHour
  \/ v32_settlement_backfill_sweep \/ _stand_down_v32 \/ DecideV32 \/ _finalize_v32
  \/ \E r \in rosters :
       \/ v33_settlement_backfill_sweep(r)
       \/ _stand_down(r) \/ ReadAccount(r) \/ Decide(r)
       \/ Trade(r) \/ EndWindow(r) \/ _finalize(r) \/ Killed(r) \/ Corrupted(r)
       \/ \E h \in 1..Hours : Finalized(r, h)

Spec == Init /\ [][Next]_vars

-----------------------------------------------------------------------------
(* Properties *)

TypeOK ==
  /\ rosters \in RosterSets /\ hour \in 1..Hours /\ faults \in 0..MaxFaults[rosters]
  /\ \A r \in rosters :
       /\ proc[r].pc \in {"off", "sweep", "decide", "window", "append", "prepare", "positions",
                          "backfill", "s4", "discover", "rotate", "trading", "flush", "row"}
       /\ proc[r].balance \in Int /\ {proc[r].clean, proc[r].armed} \subseteq BOOLEAN
       /\ proc[r].s4 \in {"none", "clear", "pending", "latch"}
       /\ r # "v1" => proc[r].plan = NoPlan /\ (proc[r].armed => proc[r].pc = "window")
  /\ held \in [rosters -> [1..Hours ->
       [src : {"pin", "flip", "box", "strangle"}, legs : SUBSET Legs, price : Prices \cup {0}, out : Outcomes \cup {"open"},
        settled : SUBSET Legs, core : SUBSET Legs]]]
  /\ \A r \in rosters, h \in 1..Hours : held[r][h].settled \cup held[r][h].core \subseteq held[r][h].legs
  /\ guard \in [rosters -> [Days -> [start : Int, legged : 0..Hours, s4 : BOOLEAN,
                                     corrupt : BOOLEAN, lost : 0..Hours]]]
  /\ \A r \in rosters : \A i \in DOMAIN ledger[r] :
       ledger[r][i] \in [kind : {"window", "backfill", "torn", "glued"},
                         of : 0..Hours, delta : Int, floor : Nat, legs : SUBSET Legs, flagged : BOOLEAN]

\* the sweep of a later window may follow a killed one, or one that read only some results
\* (v33/ledger.py v33_settlement_backfill_sweep: "Idempotent"): a window has one settlement
BackfilledOnce ==
  \A r \in rosters : \A i, j \in DOMAIN ledger[r] :
    ledger[r][i].kind = "backfill" /\ ledger[r][j].kind = "backfill" /\ i # j
      => ledger[r][i].of # ledger[r][j].of

Closed(r, h) == \E i \in DOMAIN ledger[r] : ledger[r][i].kind = "window" /\ ledger[r][i].of = h

Booked(r, h) ==
  MapThenSumSet(LAMBDA i : IF ledger[r][i].of = h THEN ledger[r][i].delta ELSE 0, DOMAIN ledger[r])

Truth(p) == settlement_payoff(p.src, p.legs, p.out) - p.price * Cardinality(p.legs)

Flagged(r, h) ==
  \E i \in DOMAIN ledger[r] : ledger[r][i].of = h /\ ledger[r][i].flagged

\* defence in depth (v33/reconcile.py): a closed window that has settled and is backfilled has the
\* money it made in the ledger, or its row says that the core and the executor disagree.  Not covered
\* is a wing that filled after the core had stopped listening.
LedgerTruthOrFlag ==
  \A r \in rosters, h \in 1..Hours :
    LET p == held[r][h]
    IN /\ Reconciles(r) /\ Closed(r, h) /\ p.settled = p.legs
       /\ p.core # {} => h \in Done(ledger[r])
       /\ p.core \in {{}, p.legs}
       => Flagged(r, h) \/ Booked(r, h) = Truth(p)

\* reconcile-first (stops.py reconcile_positions_clean) reads the positions long before the orders go
\* out: an armed window still finds every earlier window of its series settled
ArmedOnlyFlat ==
  \A r \in rosters \ {"v1"} : proc[r].armed =>
    \A s \in rosters, h \in 1..(hour - 1) :
      Prefix(s) = Prefix(r) => held[s][h].legs = held[s][h].settled

\* the windows of the day that have their row and ended with lots that lack a wing
LeggedToday(r) ==
  {h \in 1..(hour - 1) : DayOf[h] = Today /\ Closed(r, h) /\ held[r][h].legs \notin {{}, Legs}}

\* S1: the occurrence goes to the guard before the row goes to the ledger, so whatever is killed in
\* between, a day with Threshold such windows arms no more, even those the core knew nothing of.  Not
\* counted, and no more than these, are an occurrence whose record raised (run_v33.py main logs it and
\* writes the row) and those that a damaged guard held when it was rebuilt around a later one
\* (stops.py record_latched_stop).  An occurrence is a window, whatever its lots
LeggedDayStops ==
  \A r \in rosters : Reconciles(r) /\ proc[r].armed =>
    Cardinality(LeggedToday(r)) - guard[r][Today].lost < Threshold[r]

=============================================================================
