----------------------------- MODULE PairProofs -----------------------------
(***************************************************************************)
(* Proofs about Pair: an S3 that stops a window is real, no leg is bought  *)
(* beyond what was ordered, what the row books is what the exchange holds, *)
(* and an unpaired end is a stopped one, for every source, price, number   *)
(* of pairs, retries, polls and lost responses.                            *)
(***************************************************************************)
EXTENDS Pair, FiniteSetTheorems, TLAPS

Work == {"send", "wire", "read", "write"}
Answered == {"read", "write"}
CorridorPcs == {"entry_checks", "rebalance", "reconcile", "tick", "compare"}
BoxPcs == {"box", "attempt", "attempted", "box_s1"}
Pcs == {"idle", "trip", "flatten", "over"} \cup Work \cup CorridorPcs \cup BoxPcs

Moments == Now \cup {Unknown}
Orders == [purpose : Purposes, count : [Legs -> Nat], price : [Legs -> Int], tm : Moments]
Records == [pc : Pcs, tm : Moments, snap : Ledgers, base : Ledgers, order : Orders, fill : [Legs -> Nat],
            bad : BOOLEAN, todo : [Legs -> Nat], stop : {None, "S1", "S2", "S3"},
            then : {"idle", "reconcile"}]

Shape ==
    /\ now \in Now /\ source \in Sources \cup {None} /\ entered \in BOOLEAN
    /\ ledger \in Ledgers /\ exch \in [Legs -> Nat] /\ spent \in Int
    /\ armed \in BOOLEAN /\ tripped \subseteq {"S1", "S2", "S3"} /\ lost \in Nat
    /\ pending \in [leg : Legs \cup {None}, count : Nat, attempts : Nat]
    /\ th \in [Threads -> Records]

\* Nothing is held or spent before an entry, and the arm is off once a stop has been tripped.
Globals ==
    /\ armed <=> tripped = {}
    /\ source = None => ledger = NoLedger /\ exch = Zero /\ spent = 0
    /\ ~entered => source = None
    /\ source # Box => pending = NoPending

\* Where a thread may be: the corridor and the box go their own ways, and the poll's thread
\* orders only to flatten after its own S3.
Placed(t, x) ==
    /\ source = None => x.pc \in {"idle", "over"}
    /\ x.pc \in CorridorPcs \/ x.then = "reconcile" => source # Box
    /\ x.pc \in BoxPcs => source = Box
    /\ x.pc = "flatten" => tripped # {}
    /\ x.pc \notin Answered => x.fill = Zero
    /\ x.pc = "trip" => x.stop \in {"S1", "S2", "S3"}
    /\ t = "main" /\ x.pc \notin {"idle", "over"} => x.tm \in Now
    /\ t = "poll" =>
         /\ x.pc \in {"idle", "tick", "compare", "trip", "over", "flatten"} \cup Work
         /\ x.pc \in {"flatten"} \cup Work => "S3" \in tripped
         /\ x.pc = "trip" => x.stop = "S3"
         /\ x.then = "idle"

\* What an order under way says of the rest of the state: only flattens go out unarmed, the
\* entry's intent is in flight, and what the main thread has read is not replaced meanwhile.
Ordering(t, x) ==
    x.pc \in Work =>
      /\ x.order.purpose \in {"entry", "buy", "sell", "flatten"}
      /\ t = "poll" => x.order.purpose = "flatten" /\ x.order.tm = Unknown
      /\ x.order.purpose \in {"buy", "sell"} => source # Box
      /\ x.order.purpose = "flatten" => IF x.order.tm = Unknown THEN tripped # {} ELSE source = Box
      /\ x.pc = "wire" => lock = t /\ (x.order.purpose # "flatten" => armed)
      /\ t = "main" /\ tripped = {} /\ source # Box => "main" \in ledger.inflight
      /\ t = "main" /\ x.pc = "write" /\ "S3" \notin tripped => x.base = ledger

\* Before the first stop, and while every response arrived, a poll that finds its snapshot in
\* place has compared it with what the exchange held at that ledger.
Caught(x) ==
    lost = 0 /\ tripped = {} =>
      /\ x.pc \in {"tick", "compare"} =>
           /\ x.snap.inflight = {} /\ x.snap.ver <= ledger.ver
           /\ x.snap.ver = ledger.ver => x.snap = ledger
      /\ x.pc = "compare" /\ x.snap = ledger => ~x.bad
      /\ x.pc = "trip" => x.stop # "S3"

\* The net of a leg with the answer that has arrived and is not in the ledger yet.
WithAnswer(x, g) ==
    IF x.pc \in Answered
    THEN IF Buys(x.order) THEN ledger.net[g] + x.fill[g] ELSE ledger.net[g] - x.fill[g]
    ELSE ledger.net[g]

CashWithAnswer(x) ==
    IF x.pc \in Answered
    THEN IF Buys(x.order) THEN ledger.cash + Value(x.fill, x.order.price)
         ELSE ledger.cash - Value(x.fill, x.order.price)
    ELSE ledger.cash

\* While every response arrived and the poll has not stopped the window, the ledger and the
\* answer of the main thread are what the exchange holds and the account has paid.
Truth(x) ==
    lost = 0 /\ "S3" \notin tripped =>
      (\A g \in Legs : exch[g] = WithAnswer(x, g)) /\ spent = CashWithAnswer(x)

Extra(n) == Pairs[source] * n
Cap(n) == Pairs[source] * (1 + n)

\* While the arm is on, nothing known or ordered exceeds the pairs, and what is held exceeds
\* what is known by an order for each lost response; afterwards nothing is bought.
Bound(x) ==
    source # None =>
      \A g \in Legs :
        /\ exch[g] <= Cap(lost)
        /\ armed =>
             /\ ledger.net[g] <= Pairs[source] /\ (source # Box => 0 <= ledger.net[g])
             /\ x.pc \in Work /\ Buys(x.order) =>
                  x.order.count[g] <= Pairs[source] /\ ledger.net[g] + x.order.count[g] <= Pairs[source]
             /\ x.pc \in Work /\ x.order.purpose = "sell" => x.order.count[g] <= ledger.net[g]
             /\ x.pc \in Answered => x.fill[g] <= x.order.count[g]
             /\ exch[g] <= WithAnswer(x, g) + Extra(lost)

\* A corridor goes on to its polls only with complete pairs, or stopped.
Paired(x) ==
    source # Box /\ tripped = {} /\ x.pc \in {"reconcile", "tick", "compare", "idle", "over"}
      => ledger.net["high"] = ledger.net["low"]

Good(t, x) ==
    /\ Placed(t, x) /\ Ordering(t, x) /\ Caught(x)
    /\ t = "main" => Truth(x) /\ Bound(x) /\ Paired(x)

IInv == Shape /\ Globals /\ NoSpuriousS3 /\ \A t \in Threads : Good(t, th[t])

-----------------------------------------------------------------------------
\* Records of a thread that is idle.
LEMMA IdleRecord == Idle \in Records /\ Zero \in [Legs -> Nat] /\ NoOrder \in Orders /\ NoLedger \in Ledgers
<1>1. Zero \in [Legs -> Nat] /\ Zero \in [Legs -> Int]
  BY DEF Zero
<1>2. NoLedger \in Ledgers
  BY <1>1 DEF NoLedger, new_ledger, Ledgers
<1>3. NoOrder \in Orders
  BY <1>1 DEF NoOrder, Orders, Purposes, Moments
<1> QED
  BY <1>1, <1>2, <1>3 DEF Idle, Records, Pcs, Moments

\* An order for one leg.
LEMMA OneLegType ==
    ASSUME NEW g, NEW n
    PROVE  /\ n \in Nat => OneLeg(g, n) \in [Legs -> Nat]
           /\ n \in Int => OneLeg(g, n) \in [Legs -> Int]
           /\ \A h \in Legs : OneLeg(g, n)[h] = IF h = g THEN n ELSE 0
<1>1. OneLeg(g, n) = [h \in Legs |-> IF h = g THEN n ELSE 0]
  BY DEF OneLeg, Zero
<1> QED
  BY <1>1

\* A step of one thread that leaves the shared state alone has only itself to answer for.
LEMMA LocalStep ==
    ASSUME IInv, NEW t \in Threads, NEW x \in Records, th' = [th EXCEPT ![t] = x], Good(t, x),
           UNCHANGED <<now, source, entered, ledger, exch, spent, armed, lock, tripped, lost>>,
           pending' \in [leg : Legs \cup {None}, count : Nat, attempts : Nat],
           source # Box => pending' = NoPending
    PROVE  IInv'
<1>1. th' \in [Threads -> Records] /\ th'[t] = x /\ \A u \in Threads \ {t} : th'[u] = th[u]
  BY DEF IInv, Shape
<1>2. Shape'
  BY <1>1 DEF IInv, Shape
<1>3. Globals' /\ NoSpuriousS3'
  BY DEF IInv, Globals, NoSpuriousS3
<1>4. ASSUME NEW u \in Threads PROVE Good(u, th[u])'
  <2>1. PICK y \in Records : y = th'[u] /\ Good(u, y)
    BY <1>1 DEF IInv, Shape
  <2>2. Placed(u, th[u])'
    BY <2>1 DEF Good, Placed
  <2>3. Ordering(u, th[u])'
    BY <2>1 DEF Good, Ordering
  <2>4. Caught(th[u])'
    BY <2>1 DEF Good, Caught
  <2>5. u = "main" => Truth(th[u])'
    BY <2>1 DEF Good, Truth, WithAnswer, CashWithAnswer
  <2>6. u = "main" => Bound(th[u])'
    BY <2>1 DEF Good, Bound, WithAnswer, Cap, Extra
  <2>7. u = "main" => Paired(th[u])'
    BY <2>1 DEF Good, Paired
  <2> QED
    BY <2>2, <2>3, <2>4, <2>5, <2>6, <2>7 DEF Good
<1> QED
  BY <1>2, <1>3, <1>4 DEF IInv

\* What is known of a thread and of the state it looks at.
LEMMA Known ==
    ASSUME IInv, NEW t \in Threads
    PROVE  /\ th[t] \in Records /\ Good(t, th[t])
           /\ ledger \in Ledgers /\ exch \in [Legs -> Nat] /\ spent \in Int /\ lost \in Nat
           /\ pending \in [leg : Legs \cup {None}, count : Nat, attempts : Nat]
           /\ Globals /\ th \in [Threads -> Records]
  BY DEF IInv, Shape

\* A refused order has no fill.
LEMMA NoFill ==
    ASSUME NEW price \in [Legs -> Int]
    PROVE  Value(Zero, price) = 0 /\ \A g \in Legs : Zero[g] = 0
<1>1. price["high"] \in Int /\ price["low"] \in Int
  BY DEF Legs
<1> QED
  BY <1>1 DEF Value, Zero, Legs

\* An order the executor refuses, unarmed or too late, fills nothing.
LEMMA RefusedKeeps ==
    ASSUME IInv, NEW t \in Threads, Send(t), Refused(th[t].order)
    PROVE  IInv'
<1>1. PICK y \in Records : y = th[t] /\ Good(t, y) /\ y.pc = "send"
  BY Known DEF Send, At
<1>2. PICK x : x = [y EXCEPT !.pc = "read"]
  OBVIOUS
<1>3. /\ x \in Records /\ x.pc = "read"
      /\ x.order = y.order /\ x.fill = y.fill /\ x.tm = y.tm /\ x.stop = y.stop /\ x.then = y.then
  BY <1>1, <1>2 DEF Records, Pcs, Work
<1>4. th' = [th EXCEPT ![t] = x]
  BY <1>1, <1>2, Known DEF Send
<1>5. y.fill = Zero /\ Value(Zero, y.order.price) = 0
  <2>1. y.order.price \in [Legs -> Int]
    BY <1>1 DEF Records, Orders
  <2> QED
    BY <1>1, <2>1, NoFill DEF Good, Placed, Answered
<1>6. Placed(t, x) /\ Ordering(t, x) /\ Caught(x)
  BY <1>1, <1>3 DEF Good, Placed, Ordering, Caught, Work, CorridorPcs, BoxPcs, Answered
<1>7. (\A g \in Legs : WithAnswer(x, g) = WithAnswer(y, g)) /\ CashWithAnswer(x) = CashWithAnswer(y)
  BY <1>1, <1>3, <1>5, NoFill, Known DEF WithAnswer, CashWithAnswer, Answered, Ledgers
<1>8. Good(t, x)
  <2>1. \A g \in Legs : x.fill[g] <= x.order.count[g]
    BY <1>1, <1>3, <1>5, NoFill DEF Records, Orders
  <2> QED
    BY <1>1, <1>3, <1>6, <1>7, <2>1 DEF Good, Truth, Bound, Paired, Work
<1> QED
  BY <1>3, <1>4, <1>8, LocalStep, Known DEF Send, Globals

\* The thread reads the ledger it is going to replace.
LEMMA ReadKeeps ==
    ASSUME IInv, NEW t \in Threads, Read(t)
    PROVE  IInv'
<1>1. PICK y \in Records : y = th[t] /\ Good(t, y) /\ y.pc = "read"
  BY Known DEF Read, At
<1>2. PICK x : x = [y EXCEPT !.pc = "write", !.base = ledger]
  OBVIOUS
<1>3. /\ x \in Records /\ x.pc = "write" /\ x.base = ledger
      /\ x.order = y.order /\ x.fill = y.fill /\ x.tm = y.tm /\ x.stop = y.stop /\ x.then = y.then
  BY <1>1, <1>2, Known DEF Records, Pcs, Work
<1>4. th' = [th EXCEPT ![t] = x]
  BY <1>1, <1>2, Known DEF Read
<1>5. Placed(t, x) /\ Ordering(t, x) /\ Caught(x)
  BY <1>1, <1>3 DEF Good, Placed, Ordering, Caught, Work, CorridorPcs, BoxPcs, Answered
<1>6. Good(t, x)
  BY <1>1, <1>3, <1>5 DEF Good, Truth, Bound, Paired, Work, Answered, WithAnswer, CashWithAnswer
<1> QED
  BY <1>3, <1>4, <1>6, LocalStep, Known DEF Read, Globals

\* A move to a place where no order is under way.
LEMMA MoveIsGood ==
    ASSUME IInv, NEW t \in Threads, th[t].pc \notin Answered, NEW x \in Records, x.pc \notin Work,
           Placed(t, x), Caught(x), t = "main" => Paired(x)
    PROVE  Good(t, x)
<1>1. PICK y \in Records : y = th[t] /\ Good(t, y) /\ y.pc \notin Answered
  BY Known
<1>2. Ordering(t, x)
  BY DEF Ordering
<1>3. \A g \in Legs : WithAnswer(x, g) = ledger.net[g] /\ WithAnswer(y, g) = ledger.net[g]
  BY <1>1 DEF WithAnswer, Answered, Work
<1>4. CashWithAnswer(x) = ledger.cash /\ CashWithAnswer(y) = ledger.cash
  BY <1>1 DEF CashWithAnswer, Answered, Work
<1>5. t = "main" => Truth(x) /\ Bound(x)
  BY <1>1, <1>3, <1>4 DEF Good, Truth, Bound, Answered, Work
<1> QED
  BY <1>2, <1>5 DEF Good

\* A step of one thread to such a place.
LEMMA MoveKeeps ==
    ASSUME IInv, NEW t \in Threads, th[t].pc \notin Answered, NEW x \in Records, x.pc \notin Work,
           Placed(t, x), Caught(x), t = "main" => Paired(x),
           th' = [th EXCEPT ![t] = x],
           UNCHANGED <<now, source, entered, ledger, exch, spent, armed, lock, tripped, lost>>,
           pending' \in [leg : Legs \cup {None}, count : Nat, attempts : Nat],
           source # Box => pending' = NoPending
    PROVE  IInv'
<1>1. Good(t, x)
  BY MoveIsGood
<1> QED
  BY <1>1, LocalStep

\* The record a thread goes on with.
LEMMA Gone ==
    ASSUME IInv, NEW t \in Threads, NEW pc \in Pcs,
           Goto(t, pc) \/ (pc = "idle" /\ th' = [th EXCEPT ![t] = Idle])
    PROVE  \E x \in Records :
             /\ th' = [th EXCEPT ![t] = x]
             /\ x.pc = pc /\ x.fill = Zero /\ x.then = "idle"
             /\ pc # "idle" => x.tm = th[t].tm
<1>1. th[t].tm \in Moments
  BY Known DEF Records
<1>2. CASE Goto(t, pc)
  <2> DEFINE x == [Idle EXCEPT !.pc = pc, !.tm = th[t].tm]
  <2>1. x \in Records /\ x.pc = pc /\ x.fill = Zero /\ x.then = "idle" /\ x.tm = th[t].tm
    BY <1>1, IdleRecord DEF Idle, Records
  <2>2. th' = [th EXCEPT ![t] = x]
    BY <1>2 DEF Goto
  <2> QED
    BY <2>1, <2>2
<1>3. CASE pc = "idle" /\ th' = [th EXCEPT ![t] = Idle]
  <2>1. Idle.pc = "idle" /\ Idle.fill = Zero /\ Idle.then = "idle"
    BY DEF Idle
  <2> QED
    BY <1>3, <2>1, IdleRecord
<1> QED
  BY <1>2, <1>3

\* ... also after a stop or a poll.
LEMMA Returned ==
    ASSUME IInv, NEW t \in Threads, NEW pc \in Pcs, Return(t, pc)
    PROVE  \E x \in Records :
             /\ th' = [th EXCEPT ![t] = x]
             /\ x.pc = pc /\ x.fill = Zero /\ x.then = "idle"
             /\ pc # "idle" => x.tm = th[t].tm
  BY Gone DEF Return

\* The record of a thread that trips a stop.
LEMMA Tripped ==
    ASSUME IInv, NEW t \in Threads, NEW stop \in {"S1", "S2", "S3"}, NEW ls \in Ledgers,
           NEW then \in {"idle", "reconcile"}, Trip(t, stop, ls, then), th[t].pc \notin Answered
    PROVE  \E x \in Records :
             /\ th' = [th EXCEPT ![t] = x]
             /\ x.pc = "trip" /\ x.fill = Zero /\ x.then = then /\ x.stop = stop /\ x.tm = th[t].tm
<1>1. PICK y \in Records : y = th[t] /\ y.fill = Zero
  BY Known DEF Good, Placed
<1>2. PICK x : x = [y EXCEPT !.pc = "trip", !.stop = stop, !.snap = ls, !.then = then]
  OBVIOUS
<1>3. /\ x \in Records /\ x.pc = "trip" /\ x.fill = Zero /\ x.then = then /\ x.stop = stop
      /\ x.tm = y.tm
  BY <1>1, <1>2 DEF Records, Pcs
<1>4. th' = [th EXCEPT ![t] = x]
  BY <1>1, <1>2, Known DEF Trip
<1> QED
  BY <1>1, <1>3, <1>4

\* A stop has flattened what it could, and its thread goes on.
LEMMA StoppedKeeps == ASSUME IInv, NEW t \in Threads, Stopped(t) PROVE IInv'
<1>1. PICK y \in Records : y = th[t] /\ Good(t, y) /\ y.pc = "flatten"
  BY Known DEF Stopped, At
<1>2. PICK x \in Records :
        /\ th' = [th EXCEPT ![t] = x] /\ x.pc = y.then /\ x.fill = Zero /\ x.then = "idle"
        /\ x.pc # "idle" => x.tm = y.tm
  <2>1. y.then \in Pcs
    BY DEF Records, Pcs, CorridorPcs
  <2> QED
    BY <1>1, <2>1, Returned DEF Stopped
<1>3. x.pc \in {"idle", "reconcile"}
  BY <1>2 DEF Records
<1>4. Placed(t, x) /\ Caught(x) /\ Paired(x)
  BY <1>1, <1>2, <1>3 DEF Good, Placed, Caught, Paired, Work, CorridorPcs, BoxPcs, Answered
<1> QED
  BY <1>1, <1>2, <1>3, <1>4, MoveKeeps, Known DEF Stopped, Work, Answered, Globals

\* After the entry: S1, or on to the rebalancing.
LEMMA EntryChecksKeeps == ASSUME IInv, EntryChecks PROVE IInv'
<1>1. PICK y \in Records : y = th["main"] /\ Good("main", y) /\ y.pc = "entry_checks"
  BY Known DEF EntryChecks, At, Threads
<1>2. "main" \in Threads /\ y.pc \notin Answered
  BY <1>1 DEF Threads, Answered
<1>3. CASE check_s1(ledger)
  <2>1. PICK x \in Records :
          /\ th' = [th EXCEPT !["main"] = x]
          /\ x.pc = "trip" /\ x.fill = Zero /\ x.then = "idle" /\ x.stop = "S1" /\ x.tm = y.tm
    BY <1>1, <1>2, <1>3, Tripped, Known DEF EntryChecks
  <2>2. Placed("main", x) /\ Caught(x) /\ Paired(x)
    BY <1>1, <2>1 DEF Good, Placed, Caught, Paired, Work, CorridorPcs, BoxPcs, Answered
  <2> QED
    BY <1>1, <1>2, <2>1, <2>2, MoveKeeps, Known DEF EntryChecks, Work, Globals
<1>4. CASE ~check_s1(ledger)
  <2>1. PICK x \in Records :
          /\ th' = [th EXCEPT !["main"] = x]
          /\ x.pc = "rebalance" /\ x.fill = Zero /\ x.then = "idle" /\ x.tm = y.tm
    BY <1>1, <1>2, <1>4, Gone DEF EntryChecks, Pcs, CorridorPcs
  <2>2. Placed("main", x) /\ Caught(x) /\ Paired(x)
    BY <1>1, <2>1 DEF Good, Placed, Caught, Paired, Work, CorridorPcs, BoxPcs, Answered
  <2> QED
    BY <1>1, <1>2, <2>1, <2>2, MoveKeeps, Known DEF EntryChecks, Work, Globals
<1> QED
  BY <1>3, <1>4

\* A poll skips, or takes the current ledger as its snapshot.
LEMMA CaptureKeeps ==
    ASSUME IInv, NEW t \in Threads, Capture(t), pending' = pending,
           IF t = "main" THEN th[t].pc = "reconcile"
           ELSE th[t].pc = "idle" /\ source # Box /\ ~Skips
    PROVE  IInv'
<1>1. PICK y \in Records : y = th[t] /\ Good(t, y) /\ y.pc \notin Answered /\ y.pc \notin Work
                           /\ y.pc = IF t = "main" THEN "reconcile" ELSE "idle"
  BY Known DEF Answered, Work
<1>2. source # Box
  BY <1>1 DEF Good, Placed, CorridorPcs
<1>3. CASE Skips
  <2>1. t = "main"
    BY <1>3
  <2>2. PICK x \in Records :
          /\ th' = [th EXCEPT ![t] = x] /\ x.pc = "idle" /\ x.fill = Zero /\ x.then = "idle"
    BY <1>3, Returned DEF Capture, Pcs
  <2>3. Placed(t, x) /\ Caught(x) /\ Paired(x)
    BY <1>1, <2>1, <2>2 DEF Good, Placed, Caught, Paired, Work, CorridorPcs, BoxPcs, Answered
  <2> QED
    BY <1>1, <2>2, <2>3, MoveKeeps, Known DEF Capture, Work, Globals
<1>4. CASE ~Skips
  <2>1. PICK x : x = [y EXCEPT !.pc = "tick", !.snap = ledger]
    OBVIOUS
  <2>2. /\ x \in Records /\ x.pc = "tick" /\ x.snap = ledger
        /\ x.fill = y.fill /\ x.then = y.then /\ x.tm = y.tm
    BY <1>1, <2>1, Known DEF Records, Pcs, CorridorPcs
  <2>3. th' = [th EXCEPT ![t] = x]
    BY <1>1, <1>4, <2>1, Known DEF Capture
  <2>4. source # None /\ ledger.inflight = {}
    BY <1>4, Known DEF Skips, Globals
  <2>5. ledger.ver <= ledger.ver
    BY Known DEF Ledgers
  <2>6. Placed(t, x)
    BY <1>1, <1>2, <2>2, <2>4 DEF Good, Placed, Work, CorridorPcs, BoxPcs, Answered, Threads
  <2>7. Caught(x)
    BY <2>2, <2>4, <2>5 DEF Caught
  <2>8. t = "main" => Paired(x)
    BY <1>1, <2>2 DEF Good, Paired
  <2> QED
    BY <1>1, <2>2, <2>3, <2>6, <2>7, <2>8, MoveKeeps, Known DEF Capture, Work, Globals
<1> QED
  BY <1>3, <1>4

\* With no intent in flight, and every response arrived, the exchange holds the ledger's legs.
LEMMA NothingInFlight ==
    ASSUME IInv, lost = 0, tripped = {}, source # Box, ledger.inflight = {}
    PROVE  exch = ledger.net
<1>1. PICK y \in Records : y = th["main"] /\ Good("main", y)
  BY Known DEF Threads
<1>2. y.pc \notin Work
  BY <1>1 DEF Good, Ordering
<1>3. \A g \in Legs : exch[g] = ledger.net[g]
  BY <1>1, <1>2 DEF Good, Truth, WithAnswer, Answered, Work
<1>4. ledger.net \in [Legs -> Int] /\ exch \in [Legs -> Nat]
  BY Known DEF Ledgers, Threads
<1>5. exch = [g \in Legs |-> exch[g]] /\ ledger.net = [g \in Legs |-> ledger.net[g]]
  BY <1>4
<1>6. [g \in Legs |-> exch[g]] = [g \in Legs |-> ledger.net[g]]
  BY <1>3
<1> QED
  BY ONLY <1>5, <1>6

\* The positions are read while no intent is in flight, or the read fails.
LEMMA TickKeeps == ASSUME IInv, NEW t \in Threads, NEW answered \in BOOLEAN, Tick(t, answered) PROVE IInv'
<1>1. PICK y \in Records : y = th[t] /\ Good(t, y) /\ y.pc = "tick" /\ y.pc \notin Answered /\ y.pc \notin Work
  BY Known DEF Tick, At, Answered, Work
<1>2. CASE answered
  <2>1. PICK x : x = [y EXCEPT !.pc = "compare", !.bad = exch # y.snap.net]
    OBVIOUS
  <2>2. /\ x \in Records /\ x.pc = "compare" /\ x.snap = y.snap /\ x.bad = (exch # y.snap.net)
        /\ x.fill = y.fill /\ x.then = y.then /\ x.tm = y.tm
    BY <1>1, <2>1 DEF Records, Pcs, CorridorPcs
  <2>3. th' = [th EXCEPT ![t] = x]
    BY <1>1, <1>2, <2>1, Known DEF Tick
  <2>4. Placed(t, x) /\ (t = "main" => Paired(x))
    BY <1>1, <2>2 DEF Good, Placed, Paired, Work, CorridorPcs, BoxPcs, Answered
  <2>5. source # Box
    BY <1>1 DEF Good, Placed, CorridorPcs
  <2>6. ASSUME lost = 0, tripped = {}, x.snap = ledger PROVE ~x.bad
    <3>1. ledger.inflight = {}
      BY <1>1, <2>2, <2>6 DEF Good, Caught
    <3>2. exch = ledger.net
      BY <2>5, <2>6, <3>1, NothingInFlight
    <3> QED
      BY <2>2, <2>6, <3>2
  <2>7. Caught(x)
    BY <1>1, <2>2, <2>6 DEF Good, Caught
  <2> QED
    BY <1>1, <2>2, <2>3, <2>4, <2>7, MoveKeeps, Known DEF Tick, Work, Globals
<1>3. CASE ~answered
  <2>1. PICK x \in Records :
          /\ th' = [th EXCEPT ![t] = x] /\ x.pc = "idle" /\ x.fill = Zero /\ x.then = "idle"
    BY <1>3, Returned DEF Tick, Pcs
  <2>2. Placed(t, x) /\ Caught(x) /\ (t = "main" => Paired(x))
    BY <1>1, <2>1 DEF Good, Placed, Caught, Paired, Work, CorridorPcs, BoxPcs, Answered
  <2> QED
    BY <1>1, <2>1, <2>2, MoveKeeps, Known DEF Tick, Work, Globals
<1> QED
  BY <1>2, <1>3

\* A diff counts only if its snapshot is still the ledger.
LEMMA CompareKeeps == ASSUME IInv, NEW t \in Threads, Compare(t) PROVE IInv'
<1>1. PICK y \in Records : y = th[t] /\ Good(t, y) /\ y.pc = "compare" /\ y.pc \notin Answered /\ y.pc \notin Work
  BY Known DEF Compare, At, Answered, Work
<1>2. CASE same_ledger(t) /\ y.bad
  <2>1. y.snap \in Ledgers
    BY DEF Records
  <2>2. PICK x \in Records :
          /\ th' = [th EXCEPT ![t] = x]
          /\ x.pc = "trip" /\ x.fill = Zero /\ x.then = "idle" /\ x.stop = "S3" /\ x.tm = y.tm
    BY <1>1, <1>2, <2>1, Tripped DEF Compare
  <2>3. Placed(t, x) /\ (t = "main" => Paired(x))
    BY <1>1, <2>2 DEF Good, Placed, Paired, Work, CorridorPcs, BoxPcs, Answered
  <2>4. Caught(x)
    BY <1>1, <1>2, <2>2 DEF Good, Caught, same_ledger
  <2> QED
    BY <1>1, <2>2, <2>3, <2>4, MoveKeeps, Known DEF Compare, Work, Globals
<1>3. CASE ~(same_ledger(t) /\ y.bad)
  <2>1. PICK x \in Records :
          /\ th' = [th EXCEPT ![t] = x] /\ x.pc = "idle" /\ x.fill = Zero /\ x.then = "idle"
    BY <1>1, <1>3, Returned DEF Compare, Pcs
  <2>2. Placed(t, x) /\ Caught(x) /\ (t = "main" => Paired(x))
    BY <1>1, <2>1 DEF Good, Placed, Caught, Paired, Work, CorridorPcs, BoxPcs, Answered
  <2> QED
    BY <1>1, <2>1, <2>2, MoveKeeps, Known DEF Compare, Work, Globals
<1> QED
  BY <1>2, <1>3

\* A stop sells what is left of a leg; a leg without a bid is held.
LEMMA FlattenKeeps ==
    ASSUME IInv, NEW t \in Threads, NEW g \in Legs, NEW bid \in Bids \cup {Unknown}, Flatten(t, g, bid)
    PROVE  IInv'
<1>1. PICK y \in Records : y = th[t] /\ Good(t, y) /\ y.pc = "flatten"
  BY Known DEF Flatten, At
<1> DEFINE n == y.todo[g]
           o == IF bid = Unknown THEN NoOrder ELSE Order("flatten", OneLeg(g, n), OneLeg(g, bid), Unknown)
<1>2. o \in Orders /\ (bid # Unknown => o.purpose = "flatten" /\ o.tm = Unknown)
  <2>1. n \in Nat /\ bid \in Int
    BY PairAssumption DEF Records, Unknown
  <2>2. OneLeg(g, n) \in [Legs -> Nat] /\ OneLeg(g, bid) \in [Legs -> Int]
    BY <2>1 DEF OneLeg, Zero
  <2> QED
    BY <2>2, IdleRecord DEF Order, Orders, Purposes, Moments
<1>3. PICK x : x = [y EXCEPT !.todo[g] = 0, !.pc = IF bid = Unknown THEN "flatten" ELSE "send", !.order = o]
  OBVIOUS
<1>4. /\ x \in Records /\ x.pc = (IF bid = Unknown THEN "flatten" ELSE "send") /\ x.order = o
      /\ x.fill = y.fill /\ x.then = y.then /\ x.tm = y.tm
  <2> HIDE DEF o
  <2> QED
    BY <1>1, <1>2, <1>3 DEF Records, Pcs, Work
<1>5. th' = [th EXCEPT ![t] = x]
  BY <1>1, <1>3, Known DEF Flatten
<1> HIDE DEF o
<1>6. Placed(t, x) /\ Caught(x) /\ Paired(x)
  BY <1>1, <1>4 DEF Good, Placed, Caught, Paired, Work, CorridorPcs, BoxPcs, Answered
<1>7. tripped # {} /\ ~armed
  BY <1>1, Known DEF Good, Placed, Globals
<1>8. CASE bid = Unknown
  BY <1>1, <1>4, <1>5, <1>6, <1>8, MoveKeeps, Known DEF Flatten, Work, Answered, Globals
<1>9. CASE bid # Unknown
  <2>1. Ordering(t, x)
    BY <1>2, <1>4, <1>7, <1>9 DEF Ordering, Work
  <2>2. t = "main" => Truth(x) /\ Bound(x)
    BY <1>1, <1>4, <1>7, <1>9 DEF Good, Truth, Bound, WithAnswer, CashWithAnswer, Work, Answered
  <2> QED
    BY <1>4, <1>5, <1>6, <2>1, <2>2, LocalStep, Known DEF Good, Flatten, Globals
<1> QED
  BY <1>8, <1>9

\* The box has one leg alone, or goes on to S1.
LEMMA BoxPostKeeps == ASSUME IInv, BoxPost PROVE IInv'
<1>1. PICK y \in Records : y = th["main"] /\ Good("main", y) /\ y.pc = "box"
  BY Known DEF BoxPost, At, Threads
<1>2. "main" \in Threads /\ y.pc \notin Answered /\ source = Box
  BY <1>1 DEF Threads, Answered, Good, Placed, BoxPcs
<1>3. /\ pending' \in [leg : Legs \cup {None}, count : Nat, attempts : Nat]
      /\ Goto("main", "attempt") \/ Goto("main", "box_s1")
  <2>1. CASE Cardinality(Alone(ledger)) = 1
    <3> DEFINE g == CHOOSE x \in Alone(ledger) : TRUE
    <3>1. pending' = [leg |-> g, count |-> ledger.net[g], attempts |-> 0] /\ Goto("main", "attempt")
      BY <2>1 DEF BoxPost
    <3>2. Alone(ledger) # {}
      BY <2>1, FS_EmptySet
    <3>3. g \in Alone(ledger)
      BY <3>2
    <3>4. ledger.net \in [Legs -> Int]
      BY <1>2, Known DEF Ledgers
    <3>5. g \in Legs /\ ledger.net[g] > 0
      BY <3>3 DEF Alone
    <3> HIDE DEF g
    <3>6. ledger.net[g] \in Nat
      BY <3>4, <3>5
    <3> QED
      BY <3>1, <3>5, <3>6
  <2>2. CASE Cardinality(Alone(ledger)) # 1
    BY <1>2, <2>2, Known DEF BoxPost
  <2> QED
    BY <2>1, <2>2
<1>4. PICK x \in Records :
        /\ th' = [th EXCEPT !["main"] = x] /\ x.pc \in {"attempt", "box_s1"}
        /\ x.fill = Zero /\ x.then = "idle" /\ x.tm = y.tm
  <2>1. CASE Goto("main", "attempt")
    BY <1>1, <1>2, <2>1, Gone DEF Pcs, BoxPcs
  <2>2. CASE Goto("main", "box_s1")
    BY <1>1, <1>2, <2>2, Gone DEF Pcs, BoxPcs
  <2> QED
    BY <1>3, <2>1, <2>2
<1>5. Placed("main", x) /\ Caught(x) /\ Paired(x)
  BY <1>1, <1>2, <1>4 DEF Good, Placed, Caught, Paired, Work, CorridorPcs, BoxPcs, Answered
<1> QED
  BY <1>1, <1>2, <1>3, <1>4, <1>5, MoveKeeps DEF BoxPost, Work

\* The lone leg is offered again, or the attempts end.
LEMMA AttemptKeeps ==
    ASSUME IInv, NEW bid \in Bids \cup {Unknown}, Attempt(bid)
    PROVE  IInv'
<1>1. PICK y \in Records : y = th["main"] /\ Good("main", y) /\ y.pc = "attempt"
  BY Known DEF Attempt, At, Threads
<1>2. "main" \in Threads /\ y.pc \notin Answered /\ source = Box /\ y.tm \in Now /\ source # None
  BY <1>1 DEF Threads, Answered, Good, Placed, BoxPcs
<1>3. CASE AttemptEnds(bid)
  <2>1. PICK x \in Records :
          /\ th' = [th EXCEPT !["main"] = x] /\ x.pc = "box_s1"
          /\ x.fill = Zero /\ x.then = "idle" /\ x.tm = y.tm
    BY <1>1, <1>2, <1>3, Gone DEF Attempt, Pcs, BoxPcs
  <2>2. Placed("main", x) /\ Caught(x) /\ Paired(x)
    BY <1>1, <1>2, <2>1 DEF Good, Placed, Caught, Paired, Work, CorridorPcs, BoxPcs, Answered
  <2>3. pending' \in [leg : Legs \cup {None}, count : Nat, attempts : Nat]
    BY <1>3 DEF Attempt, NoPending
  <2> QED
    BY <1>1, <1>2, <2>1, <2>2, <2>3, MoveKeeps DEF Attempt, Work
<1>4. CASE ~AttemptEnds(bid)
  <2> DEFINE o == Order("flatten", OneLeg(pending.leg, pending.count), OneLeg(pending.leg, bid), y.tm)
  <2>1. o \in Orders /\ o.purpose = "flatten" /\ o.tm = y.tm
    <3>1. pending.count \in Nat /\ bid \in Int
      BY <1>2, Known, PairAssumption DEF Unknown
    <3>2. OneLeg(pending.leg, pending.count) \in [Legs -> Nat] /\ OneLeg(pending.leg, bid) \in [Legs -> Int]
      BY <3>1, OneLegType
    <3> QED
      BY <1>2, <3>2 DEF Order, Orders, Purposes, Moments
  <2>2. PICK x : x = [y EXCEPT !.pc = "send", !.order = o]
    OBVIOUS
  <2>3. th' = [th EXCEPT !["main"] = x] /\ pending' = pending
    BY <1>1, <1>4, <2>2, Known DEF Attempt
  <2> HIDE DEF o
  <2>4. /\ x \in Records /\ x.pc = "send" /\ x.order = o
        /\ x.fill = y.fill /\ x.then = y.then /\ x.tm = y.tm
    BY <1>1, <2>1, <2>2 DEF Records, Pcs, Work
  <2>5. Placed("main", x) /\ Caught(x) /\ Paired(x)
    BY <1>1, <1>2, <2>4 DEF Good, Placed, Caught, Paired, Work, CorridorPcs, BoxPcs, Answered
  <2>6. Ordering("main", x)
    BY <1>2, <2>1, <2>4 DEF Ordering, Now, Unknown
  <2>7. Truth(x) /\ Bound(x)
    BY <1>1, <1>2, <2>1, <2>4 DEF Good, Truth, Bound, WithAnswer, CashWithAnswer, Work, Answered, Buys
  <2>8. Good("main", x)
    BY <2>5, <2>6, <2>7 DEF Good
  <2> QED
    BY <1>2, <2>3, <2>4, <2>8, LocalStep, Known DEF Attempt
<1> QED
  BY <1>3, <1>4

\* The attempt is flat, exhausted, or left to a later frame.
LEMMA AttemptedKeeps == ASSUME IInv, Attempted PROVE IInv'
<1>1. PICK y \in Records : y = th["main"] /\ Good("main", y) /\ y.pc = "attempted"
  BY Known DEF Attempted, At, Threads
<1>2. "main" \in Threads /\ y.pc \notin Answered /\ source = Box
  BY <1>1 DEF Threads, Answered, Good, Placed, BoxPcs
<1>3. PICK x \in Records :
        /\ th' = [th EXCEPT !["main"] = x] /\ x.pc = "box_s1"
        /\ x.fill = Zero /\ x.then = "idle" /\ x.tm = y.tm
  BY <1>1, <1>2, Gone DEF Attempted, Pcs, BoxPcs
<1>4. Placed("main", x) /\ Caught(x) /\ Paired(x)
  BY <1>1, <1>2, <1>3 DEF Good, Placed, Caught, Paired, Work, CorridorPcs, BoxPcs, Answered
<1>5. pending' \in [leg : Legs \cup {None}, count : Nat, attempts : Nat]
  BY <1>2, Known DEF Attempted, NoPending
<1> QED
  BY <1>1, <1>2, <1>3, <1>4, <1>5, MoveKeeps DEF Attempted, Work

\* S1 of the box.
LEMMA BoxS1Keeps == ASSUME IInv, BoxS1 PROVE IInv'
<1>1. PICK y \in Records : y = th["main"] /\ Good("main", y) /\ y.pc = "box_s1"
  BY Known DEF BoxS1, At, Threads
<1>2. "main" \in Threads /\ y.pc \notin Answered /\ source = Box
  BY <1>1 DEF Threads, Answered, Good, Placed, BoxPcs
<1>3. PICK x \in Records :
        /\ th' = [th EXCEPT !["main"] = x] /\ x.fill = Zero /\ x.then = "idle"
        /\ \/ x.pc = "trip" /\ x.stop = "S1" /\ x.tm = y.tm
           \/ x.pc = "idle"
  <2>1. CASE Trip("main", "S1", NoLedger, "idle")
    BY <1>1, <1>2, <2>1, Tripped, IdleRecord
  <2>2. CASE Return("main", "idle")
    BY <1>2, <2>2, Returned DEF Pcs
  <2> QED
    BY <2>1, <2>2 DEF BoxS1
<1>4. Placed("main", x) /\ Caught(x) /\ Paired(x)
  BY <1>1, <1>2, <1>3 DEF Good, Placed, Caught, Paired, Work, CorridorPcs, BoxPcs, Answered
<1> QED
  BY <1>1, <1>2, <1>3, <1>4, MoveKeeps, Known DEF BoxS1, Work, Globals

\* A later frame takes up the lone leg.
LEMMA BookEventKeeps == ASSUME IInv, BookEvent PROVE IInv'
<1>1. PICK y \in Records : y = th["main"] /\ Good("main", y) /\ y.pc = "idle"
  BY Known DEF BookEvent, At, Threads
<1>2. "main" \in Threads /\ y.pc \notin Answered /\ source = Box /\ source # None
  BY <1>1, Known DEF Threads, Answered, BookEvent, Globals, Box, None
<1> DEFINE x == [Idle EXCEPT !.pc = "attempt", !.tm = now]
<1>3. x \in Records /\ x.pc = "attempt" /\ x.tm = now /\ now \in Now /\ x.fill = Zero /\ x.then = "idle"
  BY IdleRecord DEF IInv, Shape, Idle, Records, Pcs, BoxPcs, Moments
<1>4. th' = [th EXCEPT !["main"] = x]
  BY DEF BookEvent
<1> HIDE DEF x
<1>5. Placed("main", x) /\ Caught(x) /\ Paired(x)
  BY <1>2, <1>3 DEF Placed, Caught, Paired, Work, CorridorPcs, BoxPcs, Answered
<1> QED
  BY <1>1, <1>2, <1>3, <1>4, <1>5, MoveKeeps, Known DEF BookEvent, Work

\* A poll begins, from the loop or after the entry.
LEMMA PollKeeps == ASSUME IInv, PollOnce \/ PollLoop PROVE IInv'
<1>1. "main" \in Threads /\ "poll" \in Threads /\ "main" # "poll"
  BY DEF Threads
<1>2. CASE PollOnce
  BY <1>1, <1>2, CaptureKeeps DEF PollOnce, Capture, At
<1>3. CASE PollLoop
  BY <1>1, <1>3, CaptureKeeps DEF PollLoop, Capture, At
<1> QED
  BY <1>2, <1>3

\* The least and the greatest of two numbers.
LEMMA PairMax ==
    ASSUME NEW a \in Int, NEW b \in Int
    PROVE  /\ Max({a, b}) \in {a, b} /\ a <= Max({a, b}) /\ b <= Max({a, b})
           /\ Min({a, b}) \in {a, b} /\ Min({a, b}) <= a /\ Min({a, b}) <= b
<1>1. \E x \in {a, b} : \A y \in {a, b} : x >= y
  OBVIOUS
<1>2. Max({a, b}) \in {a, b} /\ \A y \in {a, b} : Max({a, b}) >= y
  BY <1>1 DEF Max
<1>3. \E x \in {a, b} : \A y \in {a, b} : x <= y
  OBVIOUS
<1>4. Min({a, b}) \in {a, b} /\ \A y \in {a, b} : Min({a, b}) <= y
  BY <1>3 DEF Min
<1>5. Max({a, b}) \in Int /\ Min({a, b}) \in Int
  BY <1>2, <1>4
<1> QED
  BY <1>2, <1>4, <1>5

\* The poll's thread under a new ledger: its snapshot is an old one.
LEMMA PollSeesNewLedger ==
    ASSUME IInv, NEW y \in Records, y = th'["poll"], y = th["poll"], ledger' \in Ledgers,
           "S3" \notin tripped => ledger'.ver > ledger.ver,
           UNCHANGED <<source, armed, lock, tripped, lost>>
    PROVE  Good("poll", th["poll"])'
<1>1. Good("poll", y)
  BY Known DEF Threads
<1>2. Placed("poll", th["poll"])'
  BY <1>1 DEF Good, Placed
<1>3. Ordering("poll", th["poll"])'
  BY <1>1 DEF Good, Ordering
<1>4. Caught(th["poll"])'
  <2>1. y.snap.ver \in Int /\ ledger.ver \in Int /\ ledger'.ver \in Int
    BY Known DEF Records, Ledgers, Threads
  <2>2. ASSUME lost = 0, tripped = {}
        PROVE  /\ y.pc \in {"tick", "compare"} => y.snap.inflight = {} /\ y.snap.ver < ledger'.ver
               /\ y.pc = "trip" => y.stop # "S3"
    BY <1>1, <2>1, <2>2 DEF Good, Caught
  <2> QED
    BY <2>1, <2>2 DEF Caught
<1> QED
  BY <1>2, <1>3, <1>4 DEF Good

\* A recorded intent changes no leg and no amount.
LEMMA Intent ==
    ASSUME NEW ls \in Ledgers, NEW t \in Threads, NEW o \in Orders
    PROVE  /\ record_intent(ls, t, o) \in Ledgers
           /\ record_intent(ls, t, o).net = ls.net /\ record_intent(ls, t, o).cash = ls.cash
           /\ record_intent(ls, t, o).inflight = ls.inflight \cup {t}
           /\ record_intent(ls, t, o).ver = ls.ver + 1
<1> DEFINE b == [g \in Legs |-> ls.buys[g] + IF o.purpose = "buy" /\ o.count[g] > 0 THEN 1 ELSE 0]
           s == [g \in Legs |-> ls.sells[g] + IF o.purpose = "sell" /\ o.count[g] > 0 THEN 1 ELSE 0]
<1>1. b \in [Legs -> Nat] /\ s \in [Legs -> Nat]
  BY DEF Ledgers
<1>2. record_intent(ls, t, o) = [ls EXCEPT !.buys = b, !.sells = s, !.inflight = @ \cup {t}, !.ver = @ + 1]
  BY DEF record_intent
<1> HIDE DEF b, s
<1>3. PICK r : r = [ls EXCEPT !.buys = b, !.sells = s, !.inflight = @ \cup {t}, !.ver = @ + 1]
  OBVIOUS
<1>4. /\ r.net = ls.net /\ r.cash = ls.cash /\ r.inflight = ls.inflight \cup {t} /\ r.ver = ls.ver + 1
  BY <1>3 DEF Ledgers
<1>5. ls.inflight \cup {t} \in SUBSET Threads /\ ls.ver + 1 \in Int
  BY DEF Ledgers
<1>6. r \in Ledgers
  BY ONLY <1>1, <1>3, <1>5, ls \in Ledgers DEF Ledgers
<1> QED
  BY <1>2, <1>3, <1>4, <1>6

\* The reconciler's order is recorded and sent.
LEMMA SubmitKeeps ==
    ASSUME IInv, th["main"].pc = "rebalance", NEW o \in Orders, o.purpose \in {"buy", "sell"},
           Submit("main", ledger, o),
           armed => \A g \in Legs :
             /\ o.purpose = "buy" =>
                  o.count[g] <= Pairs[source] /\ ledger.net[g] + o.count[g] <= Pairs[source]
             /\ o.purpose = "sell" => o.count[g] <= ledger.net[g],
           UNCHANGED <<now, source, entered, exch, spent, armed, lock, tripped, pending, lost>>
    PROVE  IInv'
<1>1. PICK y \in Records : y = th["main"] /\ Good("main", y) /\ y.pc = "rebalance"
  BY Known DEF Threads
<1>2. "main" \in Threads /\ source # Box /\ source # None /\ y.tm \in Now
  BY <1>1 DEF Threads, Good, Placed, CorridorPcs
<1>3. /\ ledger' \in Ledgers /\ ledger'.net = ledger.net /\ ledger'.cash = ledger.cash
      /\ "main" \in ledger'.inflight /\ ledger'.ver = ledger.ver + 1
  BY <1>2, Known, Intent DEF Submit
<1>4. ledger'.ver > ledger.ver
  BY <1>3, Known DEF Ledgers, Threads
<1>5. PICK x : x = [y EXCEPT !.pc = "send", !.order = o]
  OBVIOUS
<1>6. /\ x \in Records /\ x.pc = "send" /\ x.order = o
      /\ x.fill = y.fill /\ x.then = y.then /\ x.tm = y.tm
  BY <1>1, <1>5 DEF Records, Pcs, Work
<1>7. th' = [th EXCEPT !["main"] = x] /\ th'["main"] = x /\ th'["poll"] = th["poll"] /\ th' \in [Threads -> Records]
  BY <1>1, <1>2, <1>5, <1>6, Known DEF Submit, Threads
<1>8. Shape' /\ Globals' /\ NoSpuriousS3'
  BY <1>2, <1>3, <1>7, Known DEF IInv, Shape, Globals, NoSpuriousS3
<1>9. Good("poll", th["poll"])'
  <2>1. th["poll"] \in Records
    BY Known DEF Threads
  <2> QED
    BY <1>3, <1>4, <1>7, <2>1, PollSeesNewLedger
<1>10. Placed("main", th["main"])' /\ Ordering("main", th["main"])' /\ Caught(th["main"])' /\ Paired(th["main"])'
  BY <1>1, <1>2, <1>3, <1>6, <1>7
     DEF Good, Placed, Ordering, Caught, Paired, Work, CorridorPcs, BoxPcs, Answered
<1>11. Truth(th["main"])'
  BY <1>1, <1>3, <1>6, <1>7 DEF Good, Truth, WithAnswer, CashWithAnswer, Answered
<1>12. Bound(th["main"])'
  BY <1>1, <1>2, <1>3, <1>6, <1>7 DEF Good, Bound, WithAnswer, Answered, Work, Buys, Cap, Extra
<1>13. Good("main", th["main"])'
  BY <1>10, <1>11, <1>12 DEF Good
<1> QED
  BY <1>8, <1>9, <1>13 DEF IInv, Threads

\* One step of the rebalancing: done, one more order, or S2.
LEMMA RebalanceKeeps ==
    ASSUME IInv, NEW ask \in Costs \cup {Unknown}, NEW bid \in Bids \cup {Unknown}, Rebalance(ask, bid)
    PROVE  IInv'
<1>1. PICK y \in Records : y = th["main"] /\ Good("main", y) /\ y.pc = "rebalance"
  BY Known DEF Rebalance, At, Threads
<1>2. "main" \in Threads /\ y.pc \notin Answered /\ source # Box /\ source # None /\ y.tm \in Now
  BY <1>1 DEF Threads, Answered, Good, Placed, CorridorPcs
<1> DEFINE tm == y.tm
           d == Deficit(ledger)
<1>3. /\ Overfilled(ledger) \in Legs /\ Deficient(ledger) \in Legs /\ Overfilled(ledger) # Deficient(ledger)
      /\ ledger.net["high"] \in Int /\ ledger.net["low"] \in Int /\ ask \in Int /\ bid \in Int
      /\ d \in Nat /\ d = ledger.net[Overfilled(ledger)] - ledger.net[Deficient(ledger)]
      /\ \A g \in Legs : ledger.net[g] \in Int /\ (g = Overfilled(ledger) \/ g = Deficient(ledger))
  <2>1. ledger.net["high"] \in Int /\ ledger.net["low"] \in Int
    BY <1>2, Known DEF Ledgers, Legs
  <2>2. ask \in Int /\ bid \in Int
    BY PairAssumption DEF Unknown
  <2>3. /\ Overfilled(ledger) \in Legs /\ Deficient(ledger) \in Legs
        /\ Overfilled(ledger) # Deficient(ledger)
        /\ \A g \in Legs : g = Overfilled(ledger) \/ g = Deficient(ledger)
    BY DEF Overfilled, Deficient, Legs
  <2>4. d = ledger.net[Overfilled(ledger)] - ledger.net[Deficient(ledger)]
    BY DEF Deficit
  <2>5. d \in Nat
    BY <2>1 DEF Deficit, Overfilled, Deficient
  <2>6. \A g \in Legs : ledger.net[g] \in Int
    BY <2>1 DEF Legs
  <2> QED
    BY <2>1, <2>2, <2>3, <2>4, <2>5, <2>6
<1>4. armed => \A g \in Legs : 0 <= ledger.net[g] /\ ledger.net[g] <= Pairs[source]
  BY <1>1, <1>2 DEF Good, Bound
<1>5. Pairs[source] \in Nat
  BY <1>2, PairAssumption DEF IInv, Shape
<1> HIDE DEF d
<1>6. CASE is_balanced(ledger)
  <2>1. PICK x \in Records :
          /\ th' = [th EXCEPT !["main"] = x]
          /\ x.pc = "reconcile" /\ x.fill = Zero /\ x.then = "idle" /\ x.tm = y.tm
    BY <1>1, <1>2, <1>6, Gone DEF Rebalance, Pcs, CorridorPcs
  <2>2. Placed("main", x) /\ Caught(x) /\ Paired(x)
    BY <1>1, <1>2, <1>6, <2>1
       DEF Good, Placed, Caught, Paired, Work, CorridorPcs, BoxPcs, Answered, is_balanced
  <2>3. ledger' = ledger
    BY <1>6 DEF Rebalance
  <2> QED
    BY <1>1, <1>2, <2>1, <2>2, <2>3, MoveKeeps, Known DEF Rebalance, Work, Globals
<1>7. CASE ~is_balanced(ledger) /\ retry_buy(ledger, tm, ask)
  <2> DEFINE g == Deficient(ledger)
             o == Order("buy", OneLeg(g, d), OneLeg(g, ask), tm)
  <2>1. o \in Orders /\ o.purpose = "buy" /\ \A h \in Legs : o.count[h] = IF h = g THEN d ELSE 0
    BY <1>2, <1>3, OneLegType DEF Order, Orders, Purposes, Moments
  <2>2. Submit("main", ledger, o)
    BY <1>1, <1>7 DEF Rebalance, d
  <2> HIDE DEF o
  <2>3. ASSUME armed, NEW h \in Legs
        PROVE  o.count[h] <= Pairs[source] /\ ledger.net[h] + o.count[h] <= Pairs[source]
    <3>1. 0 <= ledger.net[h] /\ ledger.net[h] <= Pairs[source] /\ ledger.net[h] \in Int
      BY <1>3, <1>4, <2>3
    <3>2. CASE h = g
      <4>1. o.count[h] = d /\ d + ledger.net[h] = ledger.net[Overfilled(ledger)]
        BY <1>3, <2>1, <3>2
      <4>2. ledger.net[Overfilled(ledger)] <= Pairs[source] /\ ledger.net[Overfilled(ledger)] \in Int
        BY <1>3, <1>4, <2>3
      <4> QED
        BY <1>3, <1>5, <3>1, <4>1, <4>2
    <3>3. CASE h # g
      BY <1>5, <2>1, <3>1, <3>3
    <3> QED
      BY <3>2, <3>3
  <2> QED
    BY <1>1, <2>1, <2>2, <2>3, SubmitKeeps DEF Rebalance
<1>8. CASE ~is_balanced(ledger) /\ ~retry_buy(ledger, tm, ask) /\ sell_down(ledger, bid)
  <2> DEFINE g == Overfilled(ledger)
             o == Order("sell", OneLeg(g, d), OneLeg(g, bid), tm)
  <2>1. o \in Orders /\ o.purpose = "sell" /\ \A h \in Legs : o.count[h] = IF h = g THEN d ELSE 0
    BY <1>2, <1>3, OneLegType DEF Order, Orders, Purposes, Moments
  <2>2. Submit("main", ledger, o)
    BY <1>1, <1>8 DEF Rebalance, d
  <2> HIDE DEF o
  <2>3. ASSUME armed, NEW h \in Legs PROVE o.count[h] <= ledger.net[h]
    <3>1. 0 <= ledger.net[h] /\ ledger.net[h] \in Int
      BY <1>3, <1>4, <2>3
    <3>2. 0 <= ledger.net[Deficient(ledger)] /\ ledger.net[Deficient(ledger)] \in Int
      BY <1>3, <1>4, <2>3
    <3>3. CASE h = g
      BY <1>3, <2>1, <3>1, <3>2, <3>3
    <3>4. CASE h # g
      BY <2>1, <3>1, <3>4
    <3> QED
      BY <3>3, <3>4
  <2> QED
    BY <1>1, <2>1, <2>2, <2>3, SubmitKeeps DEF Rebalance
<1>9. CASE ~is_balanced(ledger) /\ ~retry_buy(ledger, tm, ask) /\ ~sell_down(ledger, bid)
  <2>1. Trip("main", "S2", ledger, "reconcile") /\ ledger' = ledger
    BY <1>1, <1>9 DEF Rebalance
  <2>2. PICK x \in Records :
          /\ th' = [th EXCEPT !["main"] = x]
          /\ x.pc = "trip" /\ x.fill = Zero /\ x.then = "reconcile" /\ x.stop = "S2" /\ x.tm = y.tm
    BY <1>1, <1>2, <2>1, Tripped, Known
  <2>3. Placed("main", x) /\ Caught(x) /\ Paired(x)
    BY <1>1, <1>2, <2>2 DEF Good, Placed, Caught, Paired, Work, CorridorPcs, BoxPcs, Answered
  <2> QED
    BY <1>1, <1>2, <2>1, <2>2, <2>3, MoveKeeps, Known DEF Rebalance, Work, Globals
<1> QED
  BY <1>6, <1>7, <1>8, <1>9

\* Steps that touch no thread, order or book.
LEMMA AsideKeeps ==
    ASSUME IInv, now' \in Now, entered' \in BOOLEAN, entered => entered',
           UNCHANGED <<source, ledger, exch, spent, armed, lock, tripped, pending, th, lost>>
    PROVE  IInv'
<1>1. Shape' /\ Globals' /\ NoSpuriousS3'
  BY DEF IInv, Shape, Globals, NoSpuriousS3
<1>2. ASSUME NEW u \in Threads PROVE Good(u, th[u])'
  BY Known DEF Good, Placed, Ordering, Caught, Truth, Bound, Paired, WithAnswer, CashWithAnswer, Cap, Extra
<1> QED
  BY <1>1, <1>2 DEF IInv

\* The window ends with both threads idle.
LEMMA EndKeeps == ASSUME IInv, End PROVE IInv'
<1> DEFINE x == [Idle EXCEPT !.pc = "over"]
<1>1. x \in Records /\ x.pc = "over" /\ x.fill = Zero /\ x.then = "idle"
  BY IdleRecord DEF Idle, Records, Pcs
<1>2. th' = [u \in Threads |-> x]
  BY DEF End
<1> HIDE DEF x
<1>3. Shape' /\ Globals' /\ NoSpuriousS3'
  BY <1>1, <1>2 DEF IInv, Shape, Globals, NoSpuriousS3, End
<1>4. ASSUME NEW u \in Threads PROVE Good(u, th[u])'
  <2>1. PICK y \in Records : y = th[u] /\ Good(u, y) /\ y.pc = "idle"
    BY Known DEF End, At
  <2>2. Placed(u, x) /\ Caught(x) /\ (u = "main" => Paired(x))
    BY <1>1, <2>1 DEF Good, Placed, Caught, Paired, Work, CorridorPcs, BoxPcs, Answered
  <2>3. Good(u, x)
    BY <1>1, <2>1, <2>2, MoveIsGood DEF Work, Answered
  <2>4. th'[u] = x
    BY <1>2
  <2> QED
    BY <2>3, <2>4
       DEF End, Good, Placed, Ordering, Caught, Truth, Bound, Paired, WithAnswer, CashWithAnswer, Cap, Extra
<1> QED
  BY <1>3, <1>4 DEF IInv

\* The window fires: an order for the pairs, with nothing held yet.
LEMMA FireKeeps ==
    ASSUME IInv, NEW src \in Sources, NEW price \in [Legs -> Costs], Fire(src, price)
    PROVE  IInv'
<1>1. source = None /\ ledger = NoLedger /\ exch = Zero /\ spent = 0 /\ pending = NoPending
  BY Known DEF Fire, Globals, Threads, Box, None
<1>2. src \in {Flip, Strangle, Box} /\ src # None /\ Pairs[src] \in Nat
  BY PairAssumption DEF Flip, Strangle, Box, None
<1> DEFINE n == Pairs[src]
           o == Order("entry", [g \in Legs |-> n], price, now)
<1>3. /\ o \in Orders /\ o.purpose = "entry" /\ o.tm = now /\ now \in Now
      /\ \A g \in Legs : o.count[g] = n
  <2>1. price \in [Legs -> Int] /\ [g \in Legs |-> n] \in [Legs -> Nat] /\ now \in Now
    <3>1. Costs \subseteq Int
      BY PairAssumption
    <3>2. price \in [Legs -> Int]
      BY ONLY <3>1, price \in [Legs -> Costs]
    <3>3. [g \in Legs |-> n] \in [Legs -> Nat]
      BY <1>2
    <3>4. now \in Now
      BY DEF IInv, Shape
    <3> QED
      BY <3>2, <3>3, <3>4
  <2> QED
    BY <2>1 DEF Order, Orders, Purposes, Moments
<1>4. /\ ledger' = record_intent(new_ledger, "main", o) /\ source' = src /\ entered' = TRUE
      /\ th' = [th EXCEPT !["main"] = [Idle EXCEPT !.pc = "send", !.order = o, !.tm = now]]
  BY DEF Fire
<1> HIDE DEF o, n
<1>5. new_ledger \in Ledgers /\ new_ledger.net = Zero /\ new_ledger.cash = 0
  BY IdleRecord DEF new_ledger, Ledgers, Zero
<1>6. /\ ledger' \in Ledgers /\ ledger'.net = Zero /\ ledger'.cash = 0 /\ "main" \in ledger'.inflight
  BY <1>3, <1>4, <1>5, Intent DEF Threads
<1>7. PICK x : x = [Idle EXCEPT !.pc = "send", !.order = o, !.tm = now]
  OBVIOUS
<1>8. /\ x \in Records /\ x.pc = "send" /\ x.order = o /\ x.fill = Zero /\ x.then = "idle" /\ x.tm = now
  BY <1>3, <1>7, IdleRecord DEF Idle, Records, Pcs, Work, Moments
<1>9. /\ th' = [th EXCEPT !["main"] = x] /\ th'["main"] = x /\ th'["poll"] = th["poll"]
      /\ th' \in [Threads -> Records]
  BY <1>4, <1>7, <1>8, Known DEF Threads
<1>10. Shape' /\ Globals' /\ NoSpuriousS3'
  BY <1>1, <1>2, <1>4, <1>6, <1>9, Known DEF Fire, IInv, Shape, Globals, NoSpuriousS3
<1>11. Good("poll", th["poll"])'
  <2>1. PICK y \in Records : y = th["poll"] /\ Good("poll", y) /\ y.pc \in {"idle", "over"} /\ y.then = "idle"
    BY <1>1, Known DEF Good, Placed, Threads
  <2> QED
    BY <1>9, <2>1
       DEF Good, Placed, Ordering, Caught, Work, CorridorPcs, BoxPcs, Answered
<1>12. Placed("main", th["main"])' /\ Ordering("main", th["main"])' /\ Caught(th["main"])' /\ Paired(th["main"])'
  BY <1>2, <1>3, <1>4, <1>6, <1>8, <1>9
     DEF Placed, Ordering, Caught, Paired, Work, CorridorPcs, BoxPcs, Answered
<1>13. Truth(th["main"])'
  BY <1>1, <1>6, <1>8, <1>9 DEF Fire, Truth, WithAnswer, CashWithAnswer, Answered
<1>14. Bound(th["main"])'
  <2>1. Extra(lost)' \in Nat /\ Cap(lost)' \in Nat
    <3>1. lost' \in Nat /\ Pairs[source'] \in Nat
      BY <1>2, <1>4 DEF Fire, IInv, Shape
    <3>2. \A a, b \in Nat : a * b \in Nat /\ a * (1 + b) \in Nat
      OBVIOUS
    <3> QED
      BY <3>1, <3>2 DEF Extra, Cap
  <2>2. \A g \in Legs : exch'[g] = 0 /\ ledger'.net[g] = 0 /\ x.order.count[g] = Pairs[source']
    BY <1>1, <1>3, <1>4, <1>6, <1>8 DEF Fire, Zero, n
  <2>3. Pairs[source'] \in Nat /\ x.order.purpose = "entry"
    BY <1>2, <1>3, <1>4, <1>8
  <2>4. \A g \in Legs : WithAnswer(th["main"], g)' = 0
    BY <1>8, <1>9, <2>2 DEF WithAnswer, Answered
  <2> HIDE DEF Extra
  <2> QED
    BY <1>8, <1>9, <2>1, <2>2, <2>3, <2>4 DEF Bound, Work, Answered
<1>15. Good("main", th["main"])'
  BY <1>12, <1>13, <1>14 DEF Good
<1> QED
  BY <1>10, <1>11, <1>15 DEF IInv, Threads

-----------------------------------------------------------------------------
\* The order's value is an amount.
LEMMA Amount ==
    ASSUME NEW f \in [Legs -> Nat], NEW price \in [Legs -> Int]
    PROVE  Value(f, price) \in Int
<1>1. /\ f["high"] \in Int /\ f["low"] \in Int /\ price["high"] \in Int /\ price["low"] \in Int
  BY DEF Legs
<1>2. \A a, b \in Int : a * b \in Int
  OBVIOUS
<1> QED
  BY <1>1, <1>2 DEF Value

\* What an order can fill, at most.
LEMMA FillsAre ==
    ASSUME NEW o \in Orders, exch \in [Legs -> Nat], NEW f \in Fills(o)
    PROVE  /\ f \in [Legs -> Nat]
           /\ \A g \in Legs : f[g] <= o.count[g] /\ (~Buys(o) => f[g] <= exch[g])
<1>1. o.count["high"] \in Nat /\ o.count["low"] \in Nat /\ \A g \in Legs : o.count[g] \in Nat
  BY DEF Orders, Legs
<1>2. {o.count[g] : g \in Legs} = {o.count["high"], o.count["low"]}
  BY DEF Legs
<1>3. PICK m \in Int : m = Max({o.count[g] : g \in Legs})
  <2>1. PICK a \in Int, b \in Int : a = o.count["high"] /\ b = o.count["low"]
    BY <1>1
  <2>2. Max({a, b}) \in {a, b}
    BY <2>1, PairMax
  <2>3. {o.count[g] : g \in Legs} = {a, b}
    BY <1>2, <2>1
  <2>4. Max({o.count[g] : g \in Legs}) \in {a, b}
    BY ONLY <2>2, <2>3
  <2>5. Max({o.count[g] : g \in Legs}) \in Int
    BY ONLY <2>4, a \in Int, b \in Int
  <2> QED
    BY ONLY <2>5
<1>4. f \in [Legs -> 0..m] /\ \A g \in Legs : f[g] <= Fillable(o, g)
  BY <1>3 DEF Fills
<1>5. f \in [Legs -> Nat]
  BY <1>3, <1>4
<1>6. ASSUME NEW g \in Legs PROVE f[g] <= o.count[g] /\ (~Buys(o) => f[g] <= exch[g])
  <2>1. f[g] \in Nat /\ o.count[g] \in Nat /\ exch[g] \in Nat /\ f[g] <= Fillable(o, g)
    BY <1>1, <1>4, <1>5
  <2>2. CASE Buys(o)
    BY <2>1, <2>2 DEF Fillable
  <2>3. CASE ~Buys(o)
    <3>1. PICK n \in Int : n = Min({o.count[g], exch[g]}) /\ n <= o.count[g] /\ n <= exch[g]
      <4>1. PICK a \in Int, b \in Int : a = o.count[g] /\ b = exch[g]
        BY <2>1
      <4>2. Min({a, b}) \in {a, b} /\ Min({a, b}) <= a /\ Min({a, b}) <= b
        BY PairMax
      <4> QED
        BY <4>1, <4>2
    <3>2. f[g] <= n
      BY <2>1, <2>3, <3>1 DEF Fillable
    <3> QED
      BY <2>1, <3>1, <3>2
  <2> QED
    BY <2>2, <2>3
<1> QED
  BY <1>5, <1>6

\* One more lost response is worth one more order.
LEMMA OneMore ==
    ASSUME NEW n \in Nat, source \in Sources
    PROVE  /\ Pairs[source] \in Nat /\ Extra(n) \in Nat /\ Cap(n) \in Nat
           /\ Extra(n + 1) = Extra(n) + Pairs[source] /\ Cap(n + 1) = Cap(n) + Pairs[source]
           /\ Cap(n) = Pairs[source] + Extra(n)
<1>1. PICK p \in Nat : p = Pairs[source]
  BY PairAssumption
<1>2. /\ p * n \in Nat /\ p * (1 + n) = p + p * n /\ p * (n + 1) = p * n + p
      /\ p * (1 + (n + 1)) = p + p * n + p
  OBVIOUS
<1> QED
  BY <1>1, <1>2 DEF Extra, Cap

\* An order goes out: the thread that sends it holds the lock.
LEMMA SentKeeps ==
    ASSUME IInv, NEW t \in Threads, Send(t), ~Refused(th[t].order)
    PROVE  IInv'
<1>1. PICK y \in Records : y = th[t] /\ Good(t, y) /\ y.pc = "send"
  BY Known DEF Send, At
<1>2. PICK x : x = [y EXCEPT !.pc = "wire"]
  OBVIOUS
<1>3. /\ x \in Records /\ x.pc = "wire"
      /\ x.order = y.order /\ x.fill = y.fill /\ x.tm = y.tm /\ x.stop = y.stop /\ x.then = y.then
  BY <1>1, <1>2 DEF Records, Pcs, Work
<1>4. /\ th' = [th EXCEPT ![t] = x] /\ th'[t] = x /\ th' \in [Threads -> Records]
      /\ \A u \in Threads \ {t} : th'[u] = th[u]
  BY <1>1, <1>2, <1>3, Known DEF Send
<1>5. Shape' /\ Globals' /\ NoSpuriousS3'
  BY <1>4, Known DEF Send, IInv, Shape, Globals, NoSpuriousS3
<1>6. lock = None /\ lock' = t /\ (x.order.purpose # "flatten" => armed)
  BY <1>1, <1>3 DEF Send, Refused
<1>7. Good(t, th[t])'
  <2>1. Placed(t, th[t])' /\ Ordering(t, th[t])' /\ Caught(th[t])'
    BY <1>1, <1>3, <1>4, <1>6
       DEF Send, Good, Placed, Ordering, Caught, Work, CorridorPcs, BoxPcs, Answered
  <2>2. t = "main" => Truth(th[t])' /\ Bound(th[t])' /\ Paired(th[t])'
    BY <1>1, <1>3, <1>4
       DEF Send, Good, Truth, Bound, Paired, Work, Answered, WithAnswer, CashWithAnswer, Cap, Extra
  <2> QED
    BY <2>1, <2>2 DEF Good
<1>8. ASSUME NEW u \in Threads \ {t} PROVE Good(u, th[u])'
  <2>1. PICK z \in Records : z = th[u] /\ Good(u, z) /\ z.pc # "wire"
    BY <1>6, Known DEF Good, Ordering, Threads, None, Work
  <2>2. Placed(u, th[u])' /\ Ordering(u, th[u])' /\ Caught(th[u])'
    BY <1>4, <2>1 DEF Send, Good, Placed, Ordering, Caught
  <2>3. u = "main" => Truth(th[u])' /\ Bound(th[u])' /\ Paired(th[u])'
    BY <1>4, <2>1 DEF Send, Good, Truth, Bound, Paired, WithAnswer, CashWithAnswer, Cap, Extra
  <2> QED
    BY <2>2, <2>3 DEF Good
<1> QED
  BY <1>5, <1>7, <1>8 DEF IInv

\* A stop takes effect: the arm goes off, and nothing is on the wire.
LEMMA FreezeKeeps == ASSUME IInv, NEW t \in Threads, Freeze(t) PROVE IInv'
<1>1. PICK y \in Records : y = th[t] /\ Good(t, y) /\ y.pc = "trip"
  BY Known DEF Freeze, At
<1>2. y.stop \in {"S1", "S2", "S3"} /\ tripped' = tripped \cup {y.stop} /\ armed' = FALSE /\ lock = None
  BY <1>1 DEF Good, Placed, Freeze
<1> DEFINE todo == IF y.snap = NoLedger THEN Zero ELSE position_policy(y.snap)
<1>3. todo \in [Legs -> Nat]
  <2>1. y.snap.net["high"] \in Int /\ y.snap.net["low"] \in Int /\ \A g \in Legs : y.snap.net[g] \in Int
    BY DEF Records, Ledgers, Legs
  <2>2. {y.snap.net[g] : g \in Legs} = {y.snap.net["high"], y.snap.net["low"]}
    BY DEF Legs
  <2>3. matched_pairs(y.snap) \in Int
    BY <2>1, <2>2, PairMax DEF matched_pairs
  <2>4. ASSUME NEW g \in Legs
        PROVE  Max({0, y.snap.net[g] - IF source = Flip THEN matched_pairs(y.snap) ELSE 0}) \in Nat
    <3>1. PICK n \in Int : n = y.snap.net[g] - IF source = Flip THEN matched_pairs(y.snap) ELSE 0
      BY <2>1, <2>3
    <3>2. Max({0, n}) \in Int /\ 0 <= Max({0, n})
      <4>1. PICK z \in Int : z = 0
        OBVIOUS
      <4>2. Max({z, n}) \in {z, n} /\ z <= Max({z, n})
        BY PairMax
      <4> QED
        BY <4>1, <4>2
    <3> QED
      BY <3>1, <3>2
  <2>5. position_policy(y.snap) \in [Legs -> Nat]
    BY <2>4 DEF position_policy
  <2> QED
    BY <2>5, IdleRecord
<1>4. PICK x : x = [Idle EXCEPT !.pc = "flatten", !.todo = todo, !.then = y.then, !.tm = y.tm]
  OBVIOUS
<1>5. th' = [th EXCEPT ![t] = x]
  BY <1>1, <1>4 DEF Freeze
<1> HIDE DEF todo
<1>6. x \in Records /\ x.pc = "flatten" /\ x.fill = Zero /\ x.then = y.then /\ x.tm = y.tm
  BY <1>3, <1>4, IdleRecord DEF Idle, Records, Pcs
<1>7. /\ th'[t] = x /\ th' \in [Threads -> Records] /\ \A u \in Threads \ {t} : th'[u] = th[u]
  BY <1>5, <1>6, Known
<1>8. Shape' /\ Globals'
  BY <1>2, <1>7, Known DEF Freeze, IInv, Shape, Globals
<1>9. NoSpuriousS3'
  <2>1. ASSUME tripped' = {"S3"}, lost = 0 PROVE FALSE
    <3>1. y.stop = "S3" /\ tripped \subseteq {"S3"}
      BY <1>2, <2>1
    <3>2. tripped # {}
      BY <1>1, <2>1, <3>1 DEF Good, Caught
    <3>3. tripped = {"S3"}
      BY <3>1, <3>2
    <3> QED
      BY <2>1, <3>3 DEF IInv, NoSpuriousS3
  <2> QED
    BY <2>1, Known DEF Freeze, NoSpuriousS3
<1>10. Good(t, th[t])'
  <2>1. Placed(t, th[t])' /\ Ordering(t, th[t])' /\ Caught(th[t])'
    BY <1>1, <1>2, <1>6, <1>7
       DEF Freeze, Good, Placed, Ordering, Caught, Work, CorridorPcs, BoxPcs, Answered
  <2>2. t = "main" => Truth(th[t])' /\ Paired(th[t])'
    BY <1>1, <1>2, <1>6, <1>7
       DEF Freeze, Good, Truth, Paired, Work, Answered, WithAnswer, CashWithAnswer
  <2>3. t = "main" => Bound(th[t])'
    BY <1>1, <1>2, <1>6, <1>7 DEF Freeze, Good, Bound, Cap
  <2> QED
    BY <2>1, <2>2, <2>3 DEF Good
<1>11. ASSUME NEW u \in Threads \ {t} PROVE Good(u, th[u])'
  <2>1. PICK z \in Records : z = th[u] /\ Good(u, z) /\ z.pc # "wire"
    BY <1>2, Known DEF Good, Ordering, Threads, None, Work
  <2>2. Placed(u, th[u])'
    BY <1>2, <1>7, <2>1 DEF Freeze, Good, Placed
  <2>3. Ordering(u, th[u])' /\ Caught(th[u])'
    BY <1>2, <1>7, <2>1 DEF Freeze, Good, Ordering, Caught
  <2>4. u = "main" => Truth(th[u])' /\ Paired(th[u])'
    BY <1>2, <1>7, <2>1 DEF Freeze, Good, Truth, Paired, WithAnswer, CashWithAnswer
  <2>5. u = "main" => Bound(th[u])'
    BY <1>2, <1>7, <2>1 DEF Freeze, Good, Bound, Cap
  <2> QED
    BY <2>2, <2>3, <2>4, <2>5 DEF Good
<1> QED
  BY <1>8, <1>9, <1>10, <1>11 DEF IInv

\* The exchange executes an order of the event loop or of the poll.
LEMMA ExecuteKeeps ==
    ASSUME IInv, NEW t \in Threads, NEW answered \in BOOLEAN, Execute(t, answered)
    PROVE  IInv'
<1>1. PICK y \in Records : y = th[t] /\ Good(t, y) /\ y.pc = "wire"
  BY Known DEF Execute, At
<1> DEFINE o == y.order
<1>2. PICK f \in Fills(o) :
        /\ ~answered => lost < MaxLost /\ f # Zero
        /\ exch' = [g \in Legs |-> IF Buys(o) THEN exch[g] + f[g] ELSE exch[g] - f[g]]
        /\ spent' = IF Buys(o) THEN spent + Value(f, o.price) ELSE spent - Value(f, o.price)
        /\ lost' = IF answered THEN lost ELSE lost + 1
        /\ lock' = None
        /\ th' = [th EXCEPT ![t] = [y EXCEPT !.pc = "read", !.fill = IF answered THEN f ELSE Zero]]
        /\ UNCHANGED <<now, source, entered, ledger, armed, tripped, pending, polls, late>>
  <2>1. PICK f \in Fills(th[t].order) :
          /\ ~answered => lost < MaxLost /\ f # Zero
          /\ exch' = [g \in Legs |-> IF Buys(th[t].order) THEN exch[g] + f[g] ELSE exch[g] - f[g]]
          /\ spent' = IF Buys(th[t].order) THEN spent + Value(f, th[t].order.price)
                      ELSE spent - Value(f, th[t].order.price)
          /\ lost' = IF answered THEN lost ELSE lost + 1
          /\ lock' = None
          /\ th' = [th EXCEPT ![t] = [th[t] EXCEPT !.pc = "read", !.fill = IF answered THEN f ELSE Zero]]
          /\ UNCHANGED <<now, source, entered, ledger, armed, tripped, pending, polls, late>>
    BY Known DEF Execute
  <2>2. f \in Fills(o)
    BY <1>1, <2>1
  <2> QED
    BY <1>1, <2>1, <2>2
<1>3. /\ f \in [Legs -> Nat]
      /\ \A g \in Legs : f[g] <= o.count[g] /\ (~Buys(o) => f[g] <= exch[g])
      /\ Value(f, o.price) \in Int
  <2>1. o \in Orders /\ exch \in [Legs -> Nat] /\ o.price \in [Legs -> Int]
    BY Known DEF Records, Orders
  <2>2. f \in [Legs -> Nat] /\ \A g \in Legs : f[g] <= o.count[g] /\ (~Buys(o) => f[g] <= exch[g])
    BY ONLY <2>1, FillsAre, f \in Fills(o)
  <2> QED
    BY <2>1, <2>2, Amount
<1>4. PICK x : x = [y EXCEPT !.pc = "read", !.fill = IF answered THEN f ELSE Zero]
  OBVIOUS
<1>5. /\ x \in Records /\ x.pc = "read" /\ x.fill = (IF answered THEN f ELSE Zero)
      /\ x.order = o /\ x.tm = y.tm /\ x.stop = y.stop /\ x.then = y.then
  BY <1>3, <1>4, IdleRecord DEF Records, Pcs, Work
<1>6. /\ th' = [th EXCEPT ![t] = x] /\ th'[t] = x /\ th' \in [Threads -> Records]
      /\ \A u \in Threads \ {t} : th'[u] = th[u]
  BY <1>2, <1>4, <1>5, Known
<1>7. lost \in Nat /\ lost' \in Nat /\ lost <= lost' /\ lost' \in {lost, lost + 1} /\ (lost' = 0 => answered)
  BY <1>2, Known
<1>8. /\ exch' \in [Legs -> Nat] /\ exch \in [Legs -> Nat]
      /\ \A g \in Legs : exch'[g] = IF Buys(o) THEN exch[g] + f[g] ELSE exch[g] - f[g]
  <2>1. exch \in [Legs -> Nat]
    BY Known
  <2>2. ASSUME NEW g \in Legs PROVE (IF Buys(o) THEN exch[g] + f[g] ELSE exch[g] - f[g]) \in Nat
    BY <1>3, <2>1
  <2> QED
    BY <1>2, <2>1, <2>2
<1>9. spent' \in Int
  BY <1>2, <1>3, Known
<1>10. Shape' /\ Globals' /\ NoSpuriousS3'
  <2>1. source # None
    BY <1>1 DEF Good, Placed
  <2>2. Shape'
    BY <1>2, <1>6, <1>7, <1>8, <1>9 DEF IInv, Shape
  <2>3. Globals'
    BY <1>2, <2>1, Known DEF Globals
  <2>4. NoSpuriousS3'
    BY <1>2, <1>7 DEF IInv, NoSpuriousS3
  <2> QED
    BY <2>2, <2>3, <2>4
<1>11. /\ source \in Sources /\ lock = t /\ source # None
       /\ o.purpose \in {"entry", "buy", "sell", "flatten"} /\ (o.purpose # "flatten" => armed)
       /\ t = "poll" => o.purpose = "flatten" /\ "S3" \in tripped /\ ~armed
  BY <1>1, Known DEF Good, Placed, Ordering, Work, IInv, Shape, Globals
<1> HIDE DEF o
<1>12. /\ Extra(lost) \in Nat /\ Cap(lost) \in Nat /\ Extra(lost') \in Nat /\ Pairs[source] \in Nat
       /\ Cap(lost) = Pairs[source] + Extra(lost)
       /\ lost' = lost + 1 => Extra(lost') = Extra(lost) + Pairs[source]
                              /\ Cap(lost') = Cap(lost) + Pairs[source]
       /\ Cap(lost') \in Nat /\ Cap(lost) <= Cap(lost')
  <2>1. /\ Extra(lost) \in Nat /\ Cap(lost) \in Nat /\ Extra(lost + 1) \in Nat /\ Cap(lost + 1) \in Nat
        /\ Pairs[source] \in Nat /\ Cap(lost) = Pairs[source] + Extra(lost)
        /\ Extra(lost + 1) = Extra(lost) + Pairs[source] /\ Cap(lost + 1) = Cap(lost) + Pairs[source]
    BY <1>7, <1>11, OneMore
  <2>2. CASE lost' = lost
    <3>1. Extra(lost') = Extra(lost) /\ Cap(lost') = Cap(lost)
      BY <2>2
    <3>2. lost' # lost + 1
      BY <1>7, <2>2
    <3> HIDE DEF Extra, Cap
    <3> QED
      BY <2>1, <3>1, <3>2
  <2>3. CASE lost' = lost + 1
    <3>1. Extra(lost') = Extra(lost + 1) /\ Cap(lost') = Cap(lost + 1)
      BY <2>3
    <3> QED
      BY <2>1, <3>1
  <2> QED
    BY <1>7, <2>2, <2>3
<1>13. ASSUME NEW u \in Threads \ {t} PROVE Good(u, th[u])'
  <2>1. PICK z \in Records : z = th[u] /\ Good(u, z) /\ z.pc # "wire" /\ z = th'[u]
    BY <1>6, <1>11, Known DEF Good, Ordering, Work
  <2>2. Placed(u, th[u])' /\ Ordering(u, th[u])'
    BY <1>2, <2>1 DEF Good, Placed, Ordering
  <2>3. Caught(th[u])'
    BY <1>2, <1>7, <2>1 DEF Good, Caught
  <2>4. ASSUME u = "main" PROVE Truth(th[u])' /\ Bound(th[u])' /\ Paired(th[u])'
    <3>1. t = "poll" /\ ~Buys(o) /\ ~armed /\ "S3" \in tripped
      BY <1>11, <2>4 DEF Threads, Buys
    <3>2. \A g \in Legs : exch'[g] <= exch[g]
      BY <1>3, <1>8, <3>1 DEF o
    <3>3. \A g \in Legs : exch[g] <= Cap(lost)
      BY <1>11, <2>1, <2>4 DEF Good, Bound
    <3>4. \A g \in Legs : exch'[g] <= Cap(lost')
      BY <1>8, <1>12, <3>2, <3>3
    <3>5. Cap(lost)' = Cap(lost') /\ armed' = armed /\ tripped' = tripped /\ source' = source
      BY <1>2 DEF Cap
    <3>6. Bound(th[u])'
      BY <3>1, <3>4, <3>5 DEF Bound
    <3> QED
      BY <3>1, <3>5, <3>6 DEF Truth, Paired
  <2> QED
    BY <2>2, <2>3, <2>4 DEF Good
<1>14. Placed(t, th[t])' /\ Ordering(t, th[t])' /\ Caught(th[t])'
  <2>1. Placed(t, x) /\ Ordering(t, x)
    BY <1>1, <1>5 DEF Good, Placed, Ordering, Work, CorridorPcs, BoxPcs, Answered, o
  <2>2. Placed(t, th[t])' /\ Ordering(t, th[t])'
    BY <1>2, <1>5, <1>6, <2>1 DEF Placed, Ordering
  <2>3. Caught(th[t])'
    BY <1>5, <1>6 DEF Caught
  <2> QED
    BY <2>2, <2>3
<1>15. ASSUME t = "main" PROVE Truth(th[t])' /\ Bound(th[t])' /\ Paired(th[t])'
  <2>1. Truth(y) /\ Bound(y)
    BY <1>1, <1>15 DEF Good
  <2>2. Paired(th[t])'
    BY <1>5, <1>6 DEF Paired
  <2>3. Truth(th[t])'
    <3>1. SUFFICES ASSUME lost' = 0, "S3" \notin tripped
                   PROVE  (\A g \in Legs : exch[g] = WithAnswer(th[t], g))' /\ (spent = CashWithAnswer(th[t]))'
      BY <1>2 DEF Truth
    <3>2. answered /\ lost = 0
      BY <1>7, <3>1
    <3>3. (\A g \in Legs : exch[g] = ledger.net[g]) /\ spent = ledger.cash
      BY <1>1, <2>1, <3>1, <3>2 DEF Truth, WithAnswer, CashWithAnswer, Answered
    <3>4. x.fill = f /\ ledger' = ledger
      BY <1>2, <1>5, <3>2
    <3>5. \A g \in Legs : WithAnswer(th[t], g)' = IF Buys(o) THEN ledger.net[g] + f[g] ELSE ledger.net[g] - f[g]
      BY <1>5, <1>6, <3>4 DEF WithAnswer, Answered
    <3>6. CashWithAnswer(th[t])' = IF Buys(o) THEN ledger.cash + Value(f, o.price)
                                   ELSE ledger.cash - Value(f, o.price)
      BY <1>5, <1>6, <3>4 DEF CashWithAnswer, Answered
    <3> QED
      BY <1>2, <1>8, <3>3, <3>5, <3>6 DEF o
  <2>4. Bound(th[t])'
    <3>1. SUFFICES ASSUME NEW g \in Legs
                   PROVE  /\ exch'[g] <= Cap(lost')
                          /\ armed =>
                             /\ ledger.net[g] <= Pairs[source] /\ (source # Box => 0 <= ledger.net[g])
                             /\ x.order.count[g] <= Pairs[source] \/ ~Buys(x.order)
                             /\ ledger.net[g] + x.order.count[g] <= Pairs[source] \/ ~Buys(x.order)
                             /\ x.order.purpose = "sell" => x.order.count[g] <= ledger.net[g]
                             /\ x.fill[g] <= x.order.count[g]
                             /\ exch'[g] <= (IF Buys(x.order) THEN ledger.net[g] + x.fill[g]
                                             ELSE ledger.net[g] - x.fill[g]) + Extra(lost')
      BY <1>2, <1>5, <1>6 DEF Bound, Cap, Extra, WithAnswer, Answered
    <3>2. /\ f[g] \in Nat /\ o.count[g] \in Nat /\ exch[g] \in Nat /\ exch'[g] \in Nat
          /\ ledger.net[g] \in Int /\ f[g] <= o.count[g]
      <4>1. o.count \in [Legs -> Nat] /\ ledger.net \in [Legs -> Int]
        BY Known DEF Records, Orders, Ledgers, o
      <4> QED
        BY <1>3, <1>8, <4>1 DEF o
    <3>3. /\ exch[g] <= Cap(lost)
          /\ armed =>
             /\ ledger.net[g] <= Pairs[source] /\ (source # Box => 0 <= ledger.net[g])
             /\ Buys(o) => o.count[g] <= Pairs[source] /\ ledger.net[g] + o.count[g] <= Pairs[source]
             /\ o.purpose = "sell" => o.count[g] <= ledger.net[g]
             /\ exch[g] <= ledger.net[g] + Extra(lost)
      BY <1>1, <1>10, <1>11, <2>1, Known DEF Bound, Work, WithAnswer, Answered, Globals, Good, Placed, o
    <3>4. exch'[g] = IF Buys(o) THEN exch[g] + f[g] ELSE exch[g] - f[g]
      BY <1>8
    <3>5. Buys(o) => armed
      BY <1>11 DEF Buys
    <3>6. x.fill[g] = (IF answered THEN f[g] ELSE 0) /\ x.order = o
      BY <1>5 DEF Zero
    <3>7. lost' = IF answered THEN lost ELSE lost + 1
      BY <1>2
    <3>8. exch'[g] <= Cap(lost')
      <4>1. CASE ~Buys(o)
        BY <1>12, <3>2, <3>3, <3>4, <4>1
      <4>2. CASE Buys(o)
        <5>1. exch'[g] <= ledger.net[g] + Extra(lost) + o.count[g]
          BY <1>12, <3>2, <3>3, <3>4, <3>5, <4>2
        <5>2. exch'[g] <= Cap(lost)
          BY <1>12, <3>2, <3>3, <3>5, <4>2, <5>1
        <5> QED
          BY <1>12, <3>2, <5>2
      <4> QED
        BY <4>1, <4>2
    <3>9. ASSUME armed
          PROVE  exch'[g] <= (IF Buys(o) THEN ledger.net[g] + x.fill[g] ELSE ledger.net[g] - x.fill[g]) + Extra(lost')
      <4>1. CASE answered
        <5>1. Extra(lost') = Extra(lost) /\ x.fill[g] = f[g]
          BY <3>6, <3>7, <4>1
        <5> QED
          BY <1>12, <3>2, <3>3, <3>4, <3>9, <5>1
      <4>2. CASE ~answered
        <5>1. Extra(lost') = Extra(lost) + Pairs[source] /\ x.fill[g] = 0
          BY <1>12, <3>6, <3>7, <4>2
        <5>2. Buys(o) => f[g] <= Pairs[source]
          BY <1>12, <3>2, <3>3, <3>9
        <5> QED
          BY <1>12, <3>2, <3>3, <3>4, <3>9, <5>1, <5>2
      <4> QED
        BY <4>1, <4>2
    <3>10. x.fill[g] <= x.order.count[g]
      BY <3>2, <3>6
    <3> QED
      BY <3>3, <3>6, <3>8, <3>9, <3>10
  <2> QED
    BY <2>2, <2>3, <2>4
<1>16. Good(t, th[t])'
  BY <1>14, <1>15 DEF Good
<1> QED
  BY <1>10, <1>13, <1>16 DEF IInv

\* A recorded answer adds its fill to the legs and its value to the amounts.
LEMMA Response ==
    ASSUME NEW ls \in Ledgers, NEW t \in Threads, NEW o \in Orders, NEW f \in [Legs -> Nat]
    PROVE  /\ record_response(ls, t, o, f) \in Ledgers
           /\ \A g \in Legs : record_response(ls, t, o, f).net[g]
                                = IF Buys(o) THEN ls.net[g] + f[g] ELSE ls.net[g] - f[g]
           /\ record_response(ls, t, o, f).cash
                = IF Buys(o) THEN ls.cash + Value(f, o.price) ELSE ls.cash - Value(f, o.price)
           /\ record_response(ls, t, o, f).ver = ls.ver + 1
<1> DEFINE n == [g \in Legs |-> IF Buys(o) THEN ls.net[g] + f[g] ELSE ls.net[g] - f[g]]
           c == IF Buys(o) THEN ls.cost + Value(f, o.price) ELSE ls.cost
           d == IF Buys(o) THEN ls.cash + Value(f, o.price) ELSE ls.cash - Value(f, o.price)
<1>1. n \in [Legs -> Int] /\ \A g \in Legs : n[g] = IF Buys(o) THEN ls.net[g] + f[g] ELSE ls.net[g] - f[g]
  BY DEF Ledgers
<1>2. c \in Int /\ d \in Int
  <2>1. o.price \in [Legs -> Int]
    BY DEF Orders
  <2>2. Value(f, o.price) \in Int
    BY <2>1, Amount
  <2> QED
    BY <2>2 DEF Ledgers
<1>3. record_response(ls, t, o, f)
        = [ls EXCEPT !.net = n, !.cost = c, !.cash = d, !.inflight = @ \ {t}, !.ver = @ + 1]
  BY DEF record_response
<1> HIDE DEF n, c, d
<1>4. PICK r : r = [ls EXCEPT !.net = n, !.cost = c, !.cash = d, !.inflight = @ \ {t}, !.ver = @ + 1]
  OBVIOUS
<1>5. r.net = n /\ r.cash = d /\ r.ver = ls.ver + 1
  BY <1>4 DEF Ledgers
<1>6. ls.inflight \ {t} \in SUBSET Threads /\ ls.ver + 1 \in Int
  BY DEF Ledgers
<1>7. r \in Ledgers
  BY ONLY <1>1, <1>2, <1>4, <1>6, ls \in Ledgers DEF Ledgers
<1> QED
  BY <1>1, <1>3, <1>4, <1>5, <1>7 DEF d

\* An answer is written into the ledger: the event loop's is the ledger it has read, and the
\* poll writes only after its own stop.
LEMMA WriteKeeps == ASSUME IInv, NEW t \in Threads, Write(t) PROVE IInv'
<1>1. PICK y \in Records : y = th[t] /\ Good(t, y) /\ y.pc = "write"
  BY Known DEF Write, At
<1>2. PICK after \in Pcs :
        /\ after = After(t)
        /\ y.order.purpose = "entry" => after = IF source = Box THEN "box" ELSE "entry_checks"
        /\ y.order.purpose \in {"buy", "sell"} => after = "rebalance"
        /\ y.order.purpose = "flatten" => after = IF y.order.tm = Unknown THEN "flatten" ELSE "attempted"
  <2>1. y.order.purpose \in {"entry", "buy", "sell", "flatten"}
    BY <1>1 DEF Good, Ordering, Work
  <2>2. /\ y.order.purpose = "entry" => After(t) = IF source = Box THEN "box" ELSE "entry_checks"
        /\ y.order.purpose \in {"buy", "sell"} => After(t) = "rebalance"
        /\ y.order.purpose = "flatten" => After(t) = IF y.order.tm = Unknown THEN "flatten" ELSE "attempted"
    BY <1>1 DEF After
  <2>3. After(t) \in Pcs
    BY <2>1, <2>2 DEF Pcs, CorridorPcs, BoxPcs
  <2> QED
    BY <2>2, <2>3
<1>3. PICK x : x = [y EXCEPT !.pc = after, !.base = NoLedger, !.order = NoOrder, !.fill = Zero]
  OBVIOUS
<1>4. /\ x \in Records /\ x.pc = after /\ x.fill = Zero /\ x.then = y.then /\ x.tm = y.tm
  BY <1>3, IdleRecord DEF Records
<1>5. /\ th' = [th EXCEPT ![t] = x] /\ th'[t] = x /\ th' \in [Threads -> Records]
      /\ \A u \in Threads \ {t} : th'[u] = th[u]
  BY <1>1, <1>2, <1>3, <1>4, Known DEF Write
<1>6. /\ ledger' \in Ledgers /\ y.base \in Ledgers /\ ledger'.ver = y.base.ver + 1
      /\ \A g \in Legs : ledger'.net[g] = IF Buys(y.order) THEN y.base.net[g] + y.fill[g]
                                          ELSE y.base.net[g] - y.fill[g]
      /\ ledger'.cash = IF Buys(y.order) THEN y.base.cash + Value(y.fill, y.order.price)
                        ELSE y.base.cash - Value(y.fill, y.order.price)
  <2>1. y.base \in Ledgers /\ y.order \in Orders /\ y.fill \in [Legs -> Nat]
    BY DEF Records
  <2>2. ledger' = record_response(y.base, t, y.order, y.fill)
    BY <1>1 DEF Write
  <2> QED
    BY <2>1, <2>2, Response
<1>7. source # None
  BY <1>1 DEF Good, Placed
<1>8. Shape' /\ Globals' /\ NoSpuriousS3'
  BY <1>5, <1>6, <1>7, Known DEF Write, IInv, Shape, Globals, NoSpuriousS3
<1>9. x.pc \notin Work /\ x.pc \notin {"reconcile", "tick", "compare", "idle", "over", "trip"}
  <2>1. y.order.purpose \in {"entry", "buy", "sell", "flatten"}
    BY <1>1 DEF Good, Ordering, Work
  <2> QED
    BY <1>2, <1>4, <2>1 DEF Work
<1>10. Placed(t, th[t])'
  <2>1. Placed(t, x)
    BY <1>1, <1>2, <1>4, <1>7
       DEF Good, Placed, Ordering, Work, CorridorPcs, BoxPcs, Answered
  <2> QED
    BY <1>5, <2>1 DEF Write, Placed
<1>11. Ordering(t, th[t])' /\ Caught(th[t])' /\ Paired(th[t])'
  BY <1>5, <1>9 DEF Ordering, Caught, Paired
<1>12. CASE "S3" \in tripped
  <2>1. ~armed /\ ~armed' /\ tripped # {} /\ tripped' = tripped
    BY <1>12, Known DEF Globals, Write
  <2>2. ASSUME NEW u \in Threads \ {t} PROVE Good(u, th[u])'
    <3>1. PICK z \in Records : z = th[u] /\ Good(u, z) /\ z = th'[u]
      BY <1>5, Known
    <3>2. Placed(u, th[u])' /\ Ordering(u, th[u])' /\ Caught(th[u])'
      BY <1>12, <2>1, <3>1 DEF Write, Good, Placed, Ordering, Caught
    <3>3. u = "main" => Truth(th[u])' /\ Bound(th[u])' /\ Paired(th[u])'
      BY <1>12, <2>1, <3>1 DEF Write, Good, Truth, Bound, Paired, Cap
    <3> QED
      BY <3>2, <3>3 DEF Good
  <2>3. t = "main" => Truth(th[t])' /\ Bound(th[t])'
    BY <1>1, <1>12, <2>1 DEF Write, Good, Truth, Bound, Cap
  <2>4. Good(t, th[t])'
    BY <1>10, <1>11, <2>3 DEF Good
  <2> QED
    BY <1>8, <2>2, <2>4 DEF IInv
<1>13. CASE "S3" \notin tripped
  <2>1. t = "main"
    BY <1>1, <1>13 DEF Good, Placed, Work, Threads
  <2>2. y.base = ledger
    BY <1>1, <1>13, <2>1 DEF Good, Ordering, Work
  <2>3. ledger'.ver > ledger.ver
    BY <1>6, <2>2, Known DEF Ledgers
  <2>4. th["poll"] \in Records /\ th'["poll"] = th["poll"]
    BY <1>5, <2>1, Known DEF Threads
  <2>5. Good("poll", th["poll"])'
    BY <1>6, <2>3, <2>4, PollSeesNewLedger DEF Write
  <2>6. /\ \A g \in Legs : ledger'.net[g] = WithAnswer(y, g)
        /\ ledger'.cash = CashWithAnswer(y)
    BY <1>1, <1>6, <2>2 DEF WithAnswer, CashWithAnswer, Answered
  <2>7. /\ \A g \in Legs : WithAnswer(th["main"], g)' = ledger'.net[g]
        /\ CashWithAnswer(th["main"])' = ledger'.cash
    BY <1>5, <1>9, <2>1 DEF WithAnswer, CashWithAnswer, Work, Answered
  <2>8. Truth(th["main"])'
    BY <1>1, <2>1, <2>6, <2>7 DEF Write, Good, Truth
  <2>9. Bound(th["main"])'
    <3>1. SUFFICES ASSUME NEW g \in Legs
                   PROVE  /\ exch[g] <= Cap(lost)
                          /\ armed =>
                             /\ ledger'.net[g] <= Pairs[source] /\ (source # Box => 0 <= ledger'.net[g])
                             /\ exch[g] <= ledger'.net[g] + Extra(lost)
      BY <1>5, <1>7, <1>9, <2>1, <2>7 DEF Write, Bound, Cap, Extra, Work, Answered
    <3>2. /\ exch[g] <= Cap(lost)
          /\ armed =>
             /\ ledger.net[g] <= Pairs[source] /\ (source # Box => 0 <= ledger.net[g])
             /\ Buys(y.order) => ledger.net[g] + y.order.count[g] <= Pairs[source]
             /\ y.order.purpose = "sell" => y.order.count[g] <= ledger.net[g]
             /\ y.fill[g] <= y.order.count[g]
             /\ exch[g] <= WithAnswer(y, g) + Extra(lost)
      BY <1>1, <1>7, <2>1 DEF Good, Bound, Work, Answered
    <3>3. ledger'.net[g] = WithAnswer(y, g)
      BY <2>6
    <3>4. WithAnswer(y, g) = IF Buys(y.order) THEN ledger.net[g] + y.fill[g] ELSE ledger.net[g] - y.fill[g]
      BY <1>1 DEF WithAnswer, Answered
    <3>5. y.order.count[g] \in Nat /\ y.fill[g] \in Nat /\ ledger.net[g] \in Int /\ Pairs[source] \in Nat
      <4>1. y.order.count \in [Legs -> Nat] /\ y.fill \in [Legs -> Nat] /\ ledger.net \in [Legs -> Int]
        BY Known DEF Records, Orders, Ledgers
      <4>2. Pairs[source] \in Nat
        BY <1>7, PairAssumption DEF IInv, Shape
      <4> QED
        BY <4>1, <4>2
    <3>6. armed => y.order.purpose \in {"entry", "buy", "sell"} \/ (y.order.purpose = "flatten" /\ source = Box)
      BY <1>1, <2>1, Known DEF Good, Ordering, Work, Globals
    <3>7. ASSUME armed
          PROVE  ledger'.net[g] <= Pairs[source] /\ (source # Box => 0 <= ledger'.net[g])
      <4>1. CASE Buys(y.order)
        BY <3>2, <3>3, <3>4, <3>5, <3>7, <4>1
      <4>2. CASE ~Buys(y.order)
        <5>1. y.order.purpose = "sell" \/ source = Box
          BY <3>6, <3>7, <4>2 DEF Buys
        <5> QED
          BY <3>2, <3>3, <3>4, <3>5, <3>7, <4>2, <5>1
      <4> QED
        BY <4>1, <4>2
    <3> QED
      BY <3>2, <3>3, <3>7
  <2>10. Good("main", th["main"])'
    BY <1>10, <1>11, <2>1, <2>8, <2>9 DEF Good
  <2> QED
    BY <1>8, <2>5, <2>10 DEF IInv, Threads
<1> QED
  BY <1>12, <1>13

-----------------------------------------------------------------------------
\* The window starts with nothing held, ordered or tripped.
LEMMA InitIInv == Init => IInv
<1> SUFFICES ASSUME Init PROVE IInv
  OBVIOUS
<1>1. /\ Idle.pc = "idle" /\ Idle.fill = Zero /\ Idle.then = "idle"
  BY DEF Idle
<1>2. Shape
  <2>1. NoPending \in [leg : Legs \cup {None}, count : Nat, attempts : Nat]
    BY DEF NoPending
  <2>2. th \in [Threads -> Records]
    BY IdleRecord DEF Init
  <2>3. /\ now \in Now /\ source \in Sources \cup {None} /\ entered \in BOOLEAN
        /\ armed \in BOOLEAN /\ tripped \subseteq {"S1", "S2", "S3"} /\ lost \in Nat
    <3>1. now \in Now /\ lost \in Nat
      BY DEF Init, Now
    <3>2. entered \in BOOLEAN /\ armed \in BOOLEAN
      BY DEF Init
    <3>3. source \in Sources \cup {None} /\ tripped \subseteq {"S1", "S2", "S3"}
      BY DEF Init
    <3> QED
      BY <3>1, <3>2, <3>3
  <2>4. ledger \in Ledgers /\ exch \in [Legs -> Nat] /\ spent \in Int
    BY IdleRecord DEF Init
  <2>5. pending \in [leg : Legs \cup {None}, count : Nat, attempts : Nat]
    BY <2>1 DEF Init
  <2> QED
    BY <2>2, <2>3, <2>4, <2>5 DEF Shape
<1>3. Globals /\ NoSpuriousS3
  BY DEF Init, Globals, NoSpuriousS3
<1>4. ASSUME NEW u \in Threads PROVE Good(u, th[u])
  <2>1. th[u] = Idle
    BY DEF Init
  <2>2. Placed(u, th[u]) /\ Ordering(u, th[u]) /\ Caught(th[u])
    BY <1>1, <2>1 DEF Init, Placed, Ordering, Caught, Work, CorridorPcs, BoxPcs, Answered
  <2>3. Truth(th[u])
    <3>1. ledger.net = Zero /\ ledger.cash = 0
      BY DEF Init, NoLedger, new_ledger
    <3> QED
      BY <1>1, <2>1, <3>1 DEF Init, Truth, WithAnswer, CashWithAnswer, Answered
  <2>4. Bound(th[u])
    BY DEF Init, Bound
  <2>5. Paired(th[u])
    <3>1. ledger.net["high"] = ledger.net["low"]
      BY DEF Init, NoLedger, new_ledger, Zero, Legs
    <3> QED
      BY <3>1 DEF Paired
  <2> QED
    BY <2>2, <2>3, <2>4, <2>5 DEF Good
<1> QED
  BY <1>2, <1>3, <1>4 DEF IInv

\* Every step keeps the invariant.
LEMMA NextIInv == IInv /\ [Next]_vars => IInv'
<1> SUFFICES ASSUME IInv, [Next]_vars PROVE IInv'
  OBVIOUS
<1>1. CASE Dispatching
  <2>1. PICK t \in Threads : Send(t) \/ Read(t) \/ Write(t) \/ \E answered \in BOOLEAN : Execute(t, answered)
    BY <1>1 DEF Dispatching
  <2> QED
    BY <2>1, RefusedKeeps, SentKeeps, ReadKeeps, WriteKeeps, ExecuteKeeps
<1>2. CASE Stopping
  BY <1>2, FreezeKeeps, StoppedKeeps, FlattenKeeps DEF Stopping
<1>3. CASE Polling
  BY <1>3, PollKeeps, CompareKeeps, TickKeeps DEF Polling
<1>4. CASE Corridor
  BY <1>4, EntryChecksKeeps, RebalanceKeeps DEF Corridor
<1>5. CASE Boxed
  BY <1>5, BoxPostKeeps, BoxS1Keeps, AttemptedKeeps, BookEventKeeps, AttemptKeeps DEF Boxed
<1>6. CASE \E src \in Sources, price \in [Legs -> Costs] : Fire(src, price)
  BY <1>6, FireKeeps
<1>7. CASE Skip \/ Pass \/ Finished \/ UNCHANGED vars
  <2>1. now \in Now /\ entered \in BOOLEAN
    BY DEF IInv, Shape
  <2>2. now' \in Now /\ entered' \in BOOLEAN /\ (entered => entered')
    <3>1. CASE Skip
      BY <2>1, <3>1 DEF Skip
    <3>2. CASE Pass
      BY <2>1, <3>2 DEF Pass, Now
    <3>3. CASE Finished \/ UNCHANGED vars
      BY <2>1, <3>3 DEF Finished, vars
    <3> QED
      BY <1>7, <3>1, <3>2, <3>3
  <2>3. UNCHANGED <<source, ledger, exch, spent, armed, lock, tripped, pending, th, lost>>
    BY <1>7 DEF Skip, Pass, Finished, vars
  <2> QED
    BY <2>2, <2>3, AsideKeeps
<1>8. CASE End
  BY <1>8, EndKeeps
<1> QED
  BY <1>1, <1>2, <1>3, <1>4, <1>5, <1>6, <1>7, <1>8 DEF Next

\* The inductive invariant holds in every run of a window.
THEOREM Invariant == Spec => []IInv
  BY InitIInv, NextIInv, PTL DEF Spec

-----------------------------------------------------------------------------
\* An S3 that stops a window alone is real: a response was lost (_s3_poll_once drops a diff whose
\* ledger has been replaced meanwhile, and skips while an intent is in flight).
THEOREM NoSpuriousS3Theorem == Spec => []NoSpuriousS3
<1>1. IInv => NoSpuriousS3
  BY DEF IInv
<1> QED
  BY <1>1, Invariant, PTL

\* A leg is never held beyond the pairs that were ordered and an order for each lost response
\* (_maybe_rebalance, propose_rebalance).
THEOREM NeverOverboughtTheorem == Spec => []NeverOverbought
<1>1. IInv => NeverOverbought
  BY Known DEF Good, Bound, Cap, NeverOverbought, Threads
<1> QED
  BY <1>1, Invariant, PTL

\* The row books what the exchange holds and the account has paid (record_response,
\* _fold_flatten_response), unless a response was lost or two stops have flattened.
THEOREM LedgerTruthTheorem == Spec => []LedgerTruth
<1>1. ASSUME IInv PROVE LedgerTruth
  <2>1. SUFFICES ASSUME Over, lost = 0, Cardinality(tripped) <= 1 PROVE ledger.net = exch /\ ledger.cash = spent
    BY DEF LedgerTruth
  <2>2. "S3" \notin tripped
    <3>1. SUFFICES ASSUME "S3" \in tripped PROVE FALSE
      OBVIOUS
    <3>2. IsFiniteSet({"S1", "S2", "S3"})
      <4>1. IsFiniteSet({"S1"})
        BY FS_Singleton
      <4>2. IsFiniteSet({"S1"} \cup {"S2"})
        BY <4>1, FS_AddElement
      <4>3. IsFiniteSet(({"S1"} \cup {"S2"}) \cup {"S3"})
        BY <4>2, FS_AddElement
      <4>4. {"S1", "S2", "S3"} = ({"S1"} \cup {"S2"}) \cup {"S3"}
        OBVIOUS
      <4> QED
        BY <4>3, <4>4
    <3>3. IsFiniteSet(tripped) /\ tripped \subseteq {"S1", "S2", "S3"}
      BY <1>1, <3>2, FS_Subset DEF IInv, Shape
    <3>4. IsFiniteSet({"S3"}) /\ Cardinality({"S3"}) = 1
      BY FS_Singleton
    <3>5. Cardinality(tripped) \in Nat /\ Cardinality({"S3"}) <= Cardinality(tripped)
      BY <3>1, <3>3, FS_Subset, FS_CardinalityType
    <3>6. Cardinality({"S3"}) = Cardinality(tripped)
      BY <2>1, <3>4, <3>5
    <3>7. tripped = {"S3"}
      BY <3>1, <3>3, <3>6, FS_Subset
    <3> QED
      BY <1>1, <2>1, <3>7 DEF IInv, NoSpuriousS3
  <2>3. PICK y \in Records : y = th["main"] /\ Good("main", y) /\ y.pc = "over"
    BY <1>1, <2>1, Known DEF Over, At, Threads
  <2>4. (\A g \in Legs : exch[g] = ledger.net[g]) /\ spent = ledger.cash
    BY <2>1, <2>2, <2>3 DEF Good, Truth, WithAnswer, CashWithAnswer, Answered
  <2>5. ledger.net \in [Legs -> Int] /\ exch \in [Legs -> Nat]
    BY <1>1, Known DEF Ledgers, Threads
  <2>6. exch = [g \in Legs |-> exch[g]] /\ ledger.net = [g \in Legs |-> ledger.net[g]]
    BY <2>5
  <2>7. [g \in Legs |-> exch[g]] = [g \in Legs |-> ledger.net[g]]
    BY <2>4
  <2>8. ledger.net = exch
    BY ONLY <2>6, <2>7
  <2> QED
    BY <2>4, <2>8
<1> QED
  BY <1>1, Invariant, PTL

\* A corridor that ends with legs it knows to be unpaired has been stopped (propose_rebalance).
THEOREM UnpairedIsStoppedTheorem == Spec => []UnpairedIsStopped
<1>1. ASSUME IInv PROVE UnpairedIsStopped
  <2>1. Over => th["main"].pc = "over"
    BY DEF Over, At, Threads
  <2>2. Paired(th["main"])
    BY <1>1, Known DEF Good, Threads
  <2> QED
    BY <2>1, <2>2 DEF UnpairedIsStopped, Paired
<1> QED
  BY <1>1, Invariant, PTL

=============================================================================
