-------------------------------- MODULE Pair --------------------------------
(***************************************************************************)
(* One armed window of the pair strategies (pilot/service/run_window.py    *)
(* with executor.py, reconciler.py, stops.py, ledger.py, signal.py,        *)
(* box.py, box_runner.py): the corridor (sub-$1 flip or strangle, with its *)
(* rebalance loop and the S3 position polls) and the wide box (with its    *)
(* one-legged flatten).                                                    *)
(*                                                                         *)
(* Two threads share the window's ledger, its stop state and the executor: *)
(* the event loop ("main": book frames, the entry and all that follows it) *)
(* and the pool thread of the S3 poll ("poll").  The executor's lock is    *)
(* held over a whole dispatch; the ledger is an immutable value that both  *)
(* threads replace without a lock, so an update is a read and a write, and *)
(* the other thread may write in between.                                  *)
(*                                                                         *)
(* Abstractions                                                            *)
(*  - time to settlement is one of the regions the code tells apart (see   *)
(*    Now); a thread keeps the region of the event it handles;             *)
(*  - an ask is its cost with the fee, a bid its proceeds less the fee,    *)
(*    chosen whenever the code reads a book; freshness is in Feed;         *)
(*  - both legs of a batch are recorded in one update;                     *)
(*  - the token budget (20 legs) and _MAX_REBALANCE_STEPS (20) are never   *)
(*    reached: a window sends 2 legs and at most 4 * MaxRetries more.      *)
(***************************************************************************)
EXTENDS Integers, FiniteSets, FiniteSetsExt

CONSTANTS
  Sources,     \* the sources the window may fire
  Pairs,       \* contracts of each leg, by source
  Costs,       \* what a contract may cost, fee included
  Bids,        \* what selling one may bring
  Dollar,      \* what a complete pair pays at least
  EntryCost,   \* a pair is entered below this cost (sub_dollar_C_max, q1_strangle_ev_min)
  Ceiling,     \* what a pair may cost after its rebalancing
  BoxCostMax,  \* pair_cost_max
  MaxRetries,  \* max_retries_per_side
  MaxAttempts, \* _FLATTEN_MAX_ATTEMPTS
  MaxLost,     \* bound on the responses that are lost
  MaxPolls     \* bound on the polls of the S3 loop

Flip == "sub$1-flip"
Strangle == "Q1-strangle"
Box == "wide-box"
Legs == {"high", "low"}
Threads == {"main", "poll"}

\* the regions of time: 3 rebalancing allowed, 2 selling only (no_rebalance_after_s_to_settle),
\* 1 no orders (no_orders_after_s_to_settle), 0 past the window's deadline
Now == 0..3
SellOnly == 2
Cutoff == 2

None == "none"

\* an order without a time (a stop's flatten), a book without a price
Unknown == -1

ASSUME PairAssumption ==
  /\ Sources \subseteq {Flip, Strangle, Box} /\ Sources # {}
  /\ Pairs \in [Sources -> Nat \ {0}] /\ Costs \subseteq Nat \ {0} /\ Bids \subseteq Nat
  /\ {Dollar, EntryCost, Ceiling, BoxCostMax} \subseteq Nat
  /\ {MaxRetries, MaxAttempts} \subseteq Nat \ {0} /\ {MaxLost, MaxPolls} \subseteq Nat

VARIABLES
  now,      \* the region of time
  source,   \* the source that has been fired, or None
  entered,  \* the decision core is done with the window
  ledger,   \* ledger_state
  exch,     \* what the exchange holds of each leg
  spent,    \* what the account has paid, less what it has received
  armed,    \* the executor's client-side arm
  lock,     \* the thread that holds the executor's lock, or None
  tripped,  \* the stops of the window
  pending,  \* the box's one-legged flatten under way (_pending_flatten)
  th,       \* the threads
  lost,     \* responses lost so far
  polls,    \* polls of the loop so far
  late      \* history: a rebalancing order was sent inside the cutoff

vars == <<now, source, entered, ledger, exch, spent, armed, lock, tripped, pending, th, lost, polls,
          late>>

-----------------------------------------------------------------------------
(* The ledger *)

Zero == [g \in Legs |-> 0]

\* ver tells one ledger object from another
new_ledger == [net |-> Zero, cost |-> 0, cash |-> 0, buys |-> Zero, sells |-> Zero,
               inflight |-> {}, ver |-> 0]

NoLedger == [new_ledger EXCEPT !.ver = -1]

Value(count, price) == count["high"] * price["high"] + count["low"] * price["low"]

record_intent(ls, t, o) ==
  [ls EXCEPT !.buys = [g \in Legs |-> @[g] + IF o.purpose = "buy" /\ o.count[g] > 0 THEN 1 ELSE 0],
             !.sells = [g \in Legs |-> @[g] + IF o.purpose = "sell" /\ o.count[g] > 0 THEN 1 ELSE 0],
             !.inflight = @ \cup {t}, !.ver = @ + 1]

Buys(o) == o.purpose \in {"entry", "buy"}

\* mutant: a flatten is not folded into the ledger
UnfoldedFlatten(ls, t, o, fill) ==
  LET value == Value(fill, o.price)
      f == IF o.purpose = "flatten" THEN Zero ELSE fill
  IN  [ls EXCEPT !.net = [g \in Legs |-> IF Buys(o) THEN @[g] + fill[g] ELSE @[g] - f[g]],
                 !.cost = IF Buys(o) THEN @ + value ELSE @,
                 !.cash = IF Buys(o) THEN @ + value ELSE @ - value,
                 !.inflight = @ \ {t}, !.ver = @ + 1]
record_response(ls, t, o, fill) ==
  LET value == Value(fill, o.price)
  IN  [ls EXCEPT !.net = [g \in Legs |-> IF Buys(o) THEN @[g] + fill[g] ELSE @[g] - fill[g]],
                 !.cost = IF Buys(o) THEN @ + value ELSE @,
                 !.cash = IF Buys(o) THEN @ + value ELSE @ - value,
                 !.inflight = @ \ {t}, !.ver = @ + 1]

matched_pairs(ls) == Min({ls.net[g] : g \in Legs})
\* mutant: a pair that is complete in part counts as balanced
PartlyMatched(ls) == ls.net["high"] = ls.net["low"] \/ matched_pairs(ls) > 0
is_balanced(ls) == ls.net["high"] = ls.net["low"]
realized_min(ls) == matched_pairs(ls) * Dollar - ls.cash

-----------------------------------------------------------------------------
(* Threads and orders *)

NoOrder == [purpose |-> None, count |-> Zero, price |-> Zero, tm |-> Unknown]

Order(purpose, count, price, tm) == [purpose |-> purpose, count |-> count, price |-> price, tm |-> tm]

OneLeg(g, n) == [Zero EXCEPT ![g] = n]

\* pc: what the thread does next; snap: the ledger it has captured; base: the ledger it has read to
\* replace; todo: what a stop has still to flatten; then: where it goes on after a stop or a poll
Idle == [pc |-> "idle", tm |-> Unknown, snap |-> NoLedger, base |-> NoLedger, order |-> NoOrder,
         fill |-> Zero, bad |-> FALSE, todo |-> Zero, stop |-> None, then |-> "idle"]

NoPending == [leg |-> None, count |-> 0, attempts |-> 0]

Init ==
  /\ now = 3 /\ source = None /\ entered = FALSE /\ ledger = NoLedger
  /\ exch = Zero /\ spent = 0
  /\ armed = TRUE /\ lock = None /\ tripped = {} /\ pending = NoPending
  /\ th = [t \in Threads |-> Idle] /\ lost = 0 /\ polls = 0 /\ late = FALSE

At(t, pc) == th[t].pc = pc

\* the thread goes on, with nothing but the time of its event
Goto(t, pc) == th' = [th EXCEPT ![t] = [Idle EXCEPT !.pc = pc, !.tm = th[t].tm]]

Return(t, pc) == IF pc = "idle" THEN th' = [th EXCEPT ![t] = Idle] ELSE Goto(t, pc)

\* StopController.trip by thread t: the stop, the ledger its position policy is computed from
\* (NoLedger: none) and where the thread goes on
Trip(t, stop, ls, then) ==
  th' = [th EXCEPT ![t] = [@ EXCEPT !.pc = "trip", !.stop = stop, !.snap = ls, !.then = then]]

-----------------------------------------------------------------------------
(* Entering *)

\* a leg's order reaches the executor with the intent recorded first
Submit(t, ls, o) ==
  /\ ledger' = record_intent(ls, t, o)
  /\ th' = [th EXCEPT ![t] = [@ EXCEPT !.pc = "send", !.order = o]]

\* what the strategies may buy at: decide's qualifiers, select_box with the implied-pin floor
Qualifies(src, price) ==
  src # Box => price["high"] + price["low"] < EntryCost

may_enter(src) == IF src = Box THEN now = 3 ELSE now >= Cutoff

\* decide and decide_box fire once a window; _on_signal_action, _on_box_action
Fire(src, price) ==
  /\ At("main", "idle") /\ ~entered /\ may_enter(src) /\ Qualifies(src, price)
  /\ entered' = TRUE /\ source' = src
  /\ LET o == Order("entry", [g \in Legs |-> Pairs[src]], price, now)
     IN  /\ ledger' = record_intent(new_ledger, "main", o)
         /\ th' = [th EXCEPT !["main"] = [Idle EXCEPT !.pc = "send", !.order = o, !.tm = now]]
  /\ UNCHANGED <<now, exch, spent, armed, lock, tripped, pending, lost, polls, late>>

\* a box below the implied-pin floor closes the hour
Skip ==
  /\ At("main", "idle") /\ ~entered /\ Box \in Sources /\ may_enter(Box)
  /\ entered' = TRUE
  /\ UNCHANGED <<now, source, ledger, exch, spent, armed, lock, tripped, pending, th, lost, polls,
                 late>>

-----------------------------------------------------------------------------
(* The executor: one dispatch at a time *)

Refused(o) ==
  \/ o.purpose # "flatten" /\ ~armed
  \/ o.tm # Unknown /\ o.tm < Cutoff

Send(t) ==
  /\ At(t, "send") /\ lock = None
  /\ IF Refused(th[t].order)
     THEN /\ th' = [th EXCEPT ![t].pc = "read"] /\ UNCHANGED <<lock, late>>
     ELSE /\ th' = [th EXCEPT ![t].pc = "wire"] /\ lock' = t
          /\ late' = (late \/ (th[t].order.purpose \in {"buy", "sell"} /\ now < Cutoff))
  /\ UNCHANGED <<now, source, entered, ledger, exch, spent, armed, tripped, pending, lost, polls>>

\* external: an immediate-or-cancel order, of which a sell can only reduce
Fillable(o, g) == IF Buys(o) THEN o.count[g] ELSE Min({o.count[g], exch[g]})

Fills(o) ==
  {f \in [Legs -> 0..Max({o.count[g] : g \in Legs})] : \A g \in Legs : f[g] <= Fillable(o, g)}

\* the exchange executes; the answer arrives, or the POST ends in an exception, 429 or 5xx, which
\* _dispatch takes for no fill of any leg
Execute(t, answered) == \E f \in Fills(th[t].order) :
  /\ At(t, "wire")
  /\ ~answered => lost < MaxLost /\ f # Zero
  /\ LET o == th[t].order IN
     /\ exch' = [g \in Legs |-> IF Buys(o) THEN exch[g] + f[g] ELSE exch[g] - f[g]]
     /\ spent' = IF Buys(o) THEN spent + Value(f, o.price) ELSE spent - Value(f, o.price)
  /\ lost' = IF answered THEN lost ELSE lost + 1
  /\ lock' = None
  /\ th' = [th EXCEPT ![t] = [@ EXCEPT !.pc = "read", !.fill = IF answered THEN f ELSE Zero]]
  /\ UNCHANGED <<now, source, entered, ledger, armed, tripped, pending, polls, late>>

\* self.ledger_state = record_response(self.ledger_state, r): the read
Read(t) ==
  /\ At(t, "read")
  /\ th' = [th EXCEPT ![t] = [@ EXCEPT !.pc = "write", !.base = ledger]]
  /\ UNCHANGED <<now, source, entered, ledger, exch, spent, armed, lock, tripped, pending, lost,
                 polls, late>>

\* what follows the answer to an order
After(t) ==
  LET o == th[t].order
  IN  CASE o.purpose = "entry" -> IF source = Box THEN "box" ELSE "entry_checks"
        [] o.purpose \in {"buy", "sell"} -> "rebalance"
        [] o.purpose = "flatten" /\ o.tm = Unknown -> "flatten"
        [] OTHER -> "attempted"

\* ... and the write (for a flatten _fold_flatten_response, which records its intent only now)
Write(t) ==
  /\ At(t, "write")
  /\ ledger' = record_response(th[t].base, t, th[t].order, th[t].fill)
  /\ th' = [th EXCEPT ![t] = [@ EXCEPT !.pc = After(t), !.base = NoLedger, !.order = NoOrder,
                                       !.fill = Zero]]
  /\ UNCHANGED <<now, source, entered, exch, spent, armed, lock, tripped, pending, lost, polls, late>>

-----------------------------------------------------------------------------
(* Stops *)

\* check_s1: the worst case of the matched pairs
check_s1(ls) == source = Flip /\ matched_pairs(ls) > 0 /\ realized_min(ls) < 0

\* check_s1_box: the booked cost (a fill above its own limit is not possible here)
check_s1_box(ls) == ls.cost > BoxCostMax

\* what a stop flattens: everything but complete pairs of the flip
position_policy(ls) ==
  [g \in Legs |-> Max({0, ls.net[g] - IF source = Flip THEN matched_pairs(ls) ELSE 0})]

\* apply_stop, set_armed(False), which takes the executor's lock, and the latch of the day
Freeze(t) ==
  /\ At(t, "trip") /\ lock = None
  /\ tripped' = tripped \cup {th[t].stop}
  /\ armed' = FALSE
  /\ LET todo == IF th[t].snap = NoLedger THEN Zero ELSE position_policy(th[t].snap)
     IN  th' = [th EXCEPT ![t] = [Idle EXCEPT !.pc = "flatten", !.todo = todo, !.then = th[t].then,
                                              !.tm = th[t].tm]]
  /\ UNCHANGED <<now, source, entered, ledger, exch, spent, lock, pending, lost, polls, late>>

\* one leg after the other; a leg without a bid is held and alerted
Flatten(t, g, bid) ==
  /\ At(t, "flatten") /\ th[t].todo[g] > 0
  /\ g = "low" => th[t].todo["high"] = 0
  /\ LET n == th[t].todo[g] IN
     th' = [th EXCEPT ![t] =
             [@ EXCEPT !.todo[g] = 0,
                       !.pc = IF bid = Unknown THEN "flatten" ELSE "send",
                       !.order = IF bid = Unknown THEN NoOrder
                                 ELSE Order("flatten", OneLeg(g, n), OneLeg(g, bid), Unknown)]]
  /\ UNCHANGED <<now, source, entered, ledger, exch, spent, armed, lock, tripped, pending, lost,
                 polls, late>>

Stopped(t) ==
  /\ At(t, "flatten") /\ th[t].todo = Zero
  /\ Return(t, th[t].then)
  /\ UNCHANGED <<now, source, entered, ledger, exch, spent, armed, lock, tripped, pending, lost,
                 polls, late>>

-----------------------------------------------------------------------------
(* The corridor after its entry: _post_entry_checks *)

EntryChecks ==
  /\ At("main", "entry_checks")
  /\ IF check_s1(ledger) THEN Trip("main", "S1", ledger, "idle") ELSE Goto("main", "rebalance")
  /\ UNCHANGED <<now, source, entered, ledger, exch, spent, armed, lock, tripped, pending, lost,
                 polls, late>>

Deficient(ls) == IF ls.net["high"] < ls.net["low"] THEN "high" ELSE "low"
Overfilled(ls) == IF ls.net["high"] < ls.net["low"] THEN "low" ELSE "high"
\* mutant: the whole leg is asked for again
WholeLeg(ls) == ls.net[Overfilled(ls)]
Deficit(ls) == ls.net[Overfilled(ls)] - ls.net[Deficient(ls)]

\* propose_rebalance with an ask of the deficient leg and a bid of the other one
retry_buy(ls, tm, ask) ==
  /\ tm > SellOnly /\ ask # Unknown /\ ls.buys[Deficient(ls)] < MaxRetries
  /\ ls.cash + Deficit(ls) * ask <= Ceiling * ls.net[Overfilled(ls)]

sell_down(ls, bid) == bid # Unknown /\ ls.sells[Overfilled(ls)] < MaxRetries

\* _maybe_rebalance: every proposal is made with the time of the entry's event
Rebalance(ask, bid) ==
  /\ At("main", "rebalance")
  /\ LET tm == th["main"].tm IN
     CASE is_balanced(ledger) -> /\ Goto("main", "reconcile") /\ UNCHANGED ledger
       [] ~is_balanced(ledger) /\ retry_buy(ledger, tm, ask) ->
            LET g == Deficient(ledger)
            IN  Submit("main", ledger,
                       Order("buy", OneLeg(g, Deficit(ledger)), OneLeg(g, ask), tm))
       [] ~is_balanced(ledger) /\ ~retry_buy(ledger, tm, ask) /\ sell_down(ledger, bid) ->
            LET g == Overfilled(ledger)
            IN  Submit("main", ledger,
                       Order("sell", OneLeg(g, Deficit(ledger)), OneLeg(g, bid), tm))
       [] OTHER -> /\ Trip("main", "S2", ledger, "reconcile") /\ UNCHANGED ledger
  /\ UNCHANGED <<now, source, entered, exch, spent, armed, lock, tripped, pending, lost, polls, late>>

-----------------------------------------------------------------------------
(* The S3 poll: from the loop's thread, and by the event loop after an entry *)

Skips == tripped # {} \/ ledger = NoLedger \/ ledger.inflight # {}

\* _s3_poll_once up to the network read
Capture(t) ==
  /\ IF Skips THEN Return(t, "idle")
     ELSE th' = [th EXCEPT ![t] = [@ EXCEPT !.pc = "tick", !.snap = ledger]]
  /\ UNCHANGED <<now, source, entered, ledger, exch, spent, armed, lock, tripped, pending, lost, late>>

PollOnce == At("main", "reconcile") /\ Capture("main") /\ UNCHANGED polls

\* the box has no reconciler and no loop
PollLoop ==
  /\ At("poll", "idle") /\ now > 0 /\ polls < MaxPolls /\ source # Box /\ ~Skips
  /\ polls' = polls + 1
  /\ Capture("poll")

\* the positions are read, or the read fails
Tick(t, answered) ==
  /\ At(t, "tick")
  /\ IF answered THEN th' = [th EXCEPT ![t] = [@ EXCEPT !.pc = "compare", !.bad = exch # th[t].snap.net]]
     ELSE Return(t, "idle")
  /\ UNCHANGED <<now, source, entered, ledger, exch, spent, armed, lock, tripped, pending, lost,
                 polls, late>>

\* the snapshot is still the ledger
\* mutant: only orders in flight are looked at
NoneInFlight(t) == ledger.inflight = {}
same_ledger(t) == ledger = th[t].snap

Compare(t) ==
  /\ At(t, "compare")
  /\ IF same_ledger(t) /\ th[t].bad THEN Trip(t, "S3", th[t].snap, "idle") ELSE Return(t, "idle")
  /\ UNCHANGED <<now, source, entered, ledger, exch, spent, armed, lock, tripped, pending, lost,
                 polls, late>>

-----------------------------------------------------------------------------
(* The box after its entry: _box_post_entry.  One leg alone is sold, at    *)
(* once and then on later frames, until it is flat, out of attempts, out   *)
(* of time or without a bid.                                               *)

Alone(ls) == {g \in Legs : ls.net[g] > 0}

BoxPost ==
  /\ At("main", "box")
  /\ IF Cardinality(Alone(ledger)) = 1
     THEN LET g == CHOOSE x \in Alone(ledger) : TRUE
          IN  /\ pending' = [leg |-> g, count |-> ledger.net[g], attempts |-> 0]
              /\ Goto("main", "attempt")
     ELSE Goto("main", "box_s1") /\ UNCHANGED pending
  /\ UNCHANGED <<now, source, entered, ledger, exch, spent, armed, lock, tripped, lost, polls, late>>

\* _box_flatten_attempt: nothing left to sell, the cutoff, no bid, or an order
AttemptEnds(bid) ==
  \/ ledger.net[pending.leg] <= 0
  \/ th["main"].tm < Cutoff
  \/ bid = Unknown

Attempt(bid) ==
  /\ At("main", "attempt")
  /\ IF AttemptEnds(bid)
     THEN /\ pending' = NoPending /\ Goto("main", "box_s1")
     ELSE /\ UNCHANGED pending
          /\ th' = [th EXCEPT !["main"] =
                     [@ EXCEPT !.pc = "send",
                               !.order = Order("flatten", OneLeg(pending.leg, pending.count),
                                               OneLeg(pending.leg, bid), th["main"].tm)]]
  /\ UNCHANGED <<now, source, entered, ledger, exch, spent, armed, lock, tripped, lost, polls, late>>

TriesLeft == pending.attempts + 1 < MaxAttempts

\* ... and what follows its answer: flat, exhausted, or pending until a later frame
Attempted ==
  /\ At("main", "attempted")
  /\ pending' = IF ledger.net[pending.leg] > 0 /\ TriesLeft
                THEN [pending EXCEPT !.attempts = @ + 1] ELSE NoPending
  /\ Goto("main", "box_s1")
  /\ UNCHANGED <<now, source, entered, ledger, exch, spent, armed, lock, tripped, lost, polls, late>>

\* after the entry S1 is looked at once; after a later attempt nothing is
BoxS1 ==
  /\ At("main", "box_s1")
  /\ IF check_s1_box(ledger) /\ tripped = {}
     THEN Trip("main", "S1", NoLedger, "idle")
     ELSE Return("main", "idle")
  /\ UNCHANGED <<now, source, entered, ledger, exch, spent, armed, lock, tripped, pending, lost,
                 polls, late>>

\* _box_on_book_event: a later frame that quotes the leg, or comes late enough
BookEvent ==
  /\ At("main", "idle") /\ pending # NoPending /\ now > 0
  /\ th' = [th EXCEPT !["main"] = [Idle EXCEPT !.pc = "attempt", !.tm = now]]
  /\ UNCHANGED <<now, source, entered, ledger, exch, spent, armed, lock, tripped, pending, lost,
                 polls, late>>

-----------------------------------------------------------------------------
(* Time, and the end of the window *)

Pass ==
  /\ now > 0 /\ now' = now - 1
  /\ UNCHANGED <<source, entered, ledger, exch, spent, armed, lock, tripped, pending, th, lost,
                 polls, late>>

\* the driver returns at the deadline, when both threads have finished; the row is written
Over == now = 0 /\ \A t \in Threads : At(t, "over")
End ==
  /\ now = 0 /\ \A t \in Threads : At(t, "idle")
  /\ th' = [t \in Threads |-> [Idle EXCEPT !.pc = "over"]]
  /\ UNCHANGED <<now, source, entered, ledger, exch, spent, armed, lock, tripped, pending, lost,
                 polls, late>>
Finished == Over /\ UNCHANGED vars

Dispatching ==
  \E t \in Threads :
    \/ Send(t) \/ Read(t) \/ Write(t)
    \/ \E answered \in BOOLEAN : Execute(t, answered)

Stopping ==
  \E t \in Threads :
    \/ Freeze(t) \/ Stopped(t)
    \/ \E g \in Legs, bid \in Bids \cup {Unknown} : Flatten(t, g, bid)

Polling ==
  \/ PollOnce \/ PollLoop
  \/ \E t \in Threads : Compare(t) \/ \E answered \in BOOLEAN : Tick(t, answered)

Corridor ==
  \/ EntryChecks
  \/ \E ask \in Costs \cup {Unknown}, bid \in Bids \cup {Unknown} : Rebalance(ask, bid)

Boxed == BoxPost \/ BoxS1 \/ Attempted \/ BookEvent \/ \E bid \in Bids \cup {Unknown} : Attempt(bid)

Next ==
  \/ Skip \/ \E src \in Sources, price \in [Legs -> Costs] : Fire(src, price)
  \/ Dispatching \/ Stopping \/ Polling \/ Corridor \/ Boxed
  \/ Pass \/ End \/ Finished

Spec == Init /\ [][Next]_vars

-----------------------------------------------------------------------------
(* Properties *)

Ledgers == [net : [Legs -> Int], cost : Int, cash : Int, buys : [Legs -> Nat],
            sells : [Legs -> Nat], inflight : SUBSET Threads, ver : Int]

Purposes == {None, "entry", "buy", "sell", "flatten"}

TypeOK ==
  /\ now \in Now /\ source \in Sources \cup {None} /\ entered \in BOOLEAN
  /\ ledger \in Ledgers /\ exch \in [Legs -> Nat] /\ spent \in Int
  /\ armed \in BOOLEAN /\ lock \in Threads \cup {None} /\ tripped \subseteq {"S1", "S2", "S3"}
  /\ pending \in [leg : Legs \cup {None}, count : Nat, attempts : 0..MaxAttempts - 1]
  /\ \A t \in Threads :
       /\ th[t].tm \in Now \cup {Unknown} /\ th[t].snap \in Ledgers /\ th[t].base \in Ledgers
       /\ th[t].order.purpose \in Purposes /\ th[t].order.count \in [Legs -> Nat]
       /\ th[t].fill \in [Legs -> Nat] /\ th[t].todo \in [Legs -> Nat]
  /\ lost \in 0..MaxLost /\ polls \in 0..MaxPolls /\ late \in BOOLEAN

\* An S3 that stops the window is real: some response was lost (_s3_poll_once: the diff ran against a
\* ledger that is still the current one, and an intent is recorded before its order is sent)
NoSpuriousS3 == tripped = {"S3"} => lost > 0

\* A leg is never held beyond the pairs that were ordered, plus one more order for each response that
\* was lost: the retries buy what is missing, not what was asked for first
NeverOverbought ==
  source # None => \A g \in Legs : exch[g] <= Pairs[source] * (1 + lost)

\* What the row of the window will book is what the exchange holds and what the account has paid,
\* unless a response was lost or two stops have flattened at a time
LedgerTruth ==
  Over /\ lost = 0 /\ Cardinality(tripped) <= 1 /\ ledger # NoLedger => ledger.net = exch /\ ledger.cash = spent

\* A corridor window that ends with legs of which the ledger knows to be unpaired has been stopped
\* (propose_rebalance gives up with S2 when neither retry nor sale is left)
UnpairedIsStopped ==
  Over /\ source # Box /\ ledger # NoLedger => ledger.net["high"] = ledger.net["low"] \/ tripped # {}

\* An S3 is real, whatever other stop is under way (run_window.py: the poll is skipped "entirely
\* while any order is in flight ... so an in-flight fill never reads as a phantom position")
S3IsReal == "S3" \in tripped => lost > 0

\* No rebalancing order is sent once the cutoff has passed (reconciler.py: "inside the no-orders cutoff,
\* NO order at all")
NoOrderPastCutoff == ~late
=============================================================================
