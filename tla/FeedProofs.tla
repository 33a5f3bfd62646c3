----------------------------- MODULE FeedProofs -----------------------------
(***************************************************************************)
(* Proofs about Feed: a change that never arrived is not decided on for    *)
(* longer than the freshness limit, and a window trades the pair that its  *)
(* listing calls for, for every listing, every order of frames, gaps and   *)
(* redials and every length of the limits.                                 *)
(***************************************************************************)
EXTENDS Feed, FiniteSetTheorems, FunctionTheorems, WellFoundedInduction, TLAPS

AllSuspect == \A l \in Legs : books[l].suspect

\* The values of the state the argument is about.
Books == [suspect : BOOLEAN, hole : BOOLEAN]
Values ==
    /\ tops \in [Legs -> {None} \cup Ages]
    /\ missed \in [Legs -> {None} \cup Ages]
    /\ st \in [entered : BOOLEAN, standdown : BOOLEAN, skipped : BOOLEAN, rescanned : BOOLEAN]
Shape == clock \in Int /\ books \in [Legs -> Books] /\ Values

\* A recorder decides nothing, and a decision that is through keeps nothing of the books.
Quiet == host = "record" \/ Decided(st) => tops = NoTop /\ missed = NoTop

\* Until the first frame of a dial every book is suspect; only a dial that ended past the
\* deadline, after which there is no other, leaves the books alone.
Distrusted ==
    /\ phase \in {"wake", "anchor", "paired", "gate"} => conn = "down" /\ AllSuspect
    /\ phase = "loop" /\ conn \in {"down", "minting", "dialing", "backoff"}
         => AllSuspect \/ (conn = "down" /\ clock >= Deadline)
    /\ phase = "loop" /\ conn = "open" /\ seq = "unseen" => AllSuspect

\* On an open connection a trusted book misses a change only until the next frame shows
\* the gap, and what was noticed to be missing is in a suspect book.
Noted ==
    phase = "loop" /\ conn = "open" =>
      \A l \in Legs : /\ books[l].hole => books[l].suspect \/ seq = "skipped"
                      /\ missed[l] # None => books[l].suspect

\* A top is at least as old as the change it is known to miss.
Aged == \A l \in Legs : missed[l] # None /\ tops[l] # None => missed[l] <= tops[l]

IInv == Shape /\ Quiet /\ Distrusted /\ Noted /\ Aged /\ HoleShortLived

-----------------------------------------------------------------------------
\* Ages are numbers, and no age is None.
LEMMA AgesAreTimes ==
    /\ Stale \in Nat /\ Ages \subseteq Int /\ None \notin Ages
    /\ Stale \in Ages /\ 0 \in Ages /\ Fresh \in Nat /\ MaxLag \in Nat
    /\ \A lag \in 0..MaxLag : lag \in Ages
    /\ Deadline \in Int
  BY FeedAssumption DEF Stale, Ages, Deadline

\* The greatest element of a set that has one is not below any of it.
LEMMA MaxBounded ==
    ASSUME NEW S, NEW b \in S, \A y \in S : b >= y
    PROVE  Max(S) \in S
  BY DEF Max

\* A decision that fires with every known miss within the limit stays within it.
LEMMA FiresWithin ==
    ASSUME NEW lag \in Int, NEW known \in [Legs -> {None} \cup Ages], NEW source,
           \A k \in Legs : known[k] # None => known[k] - lag <= Fresh,
           Fires(lag, known, source)
    PROVE  HoleShortLived'
<1> DEFINE since == { known[l] - lag : l \in { k \in Legs : known[k] # None } }
<1>1. fired'.gap = IF since = {} THEN None ELSE Max(since)
  BY DEF Fires
<1>2. CASE since = {}
  BY <1>1, <1>2 DEF HoleShortLived
<1>3. CASE since # {}
  <2>0. \A l \in Legs : known[l] # None => known[l] - lag \in Int /\ known[l] - lag <= Fresh
    <3> SUFFICES ASSUME NEW l \in Legs, known[l] # None
                 PROVE  known[l] - lag \in Int /\ known[l] - lag <= Fresh
      OBVIOUS
    <3>1. known[l] \in Int
      BY AgesAreTimes
    <3> QED
      BY <3>1
  <2>1. \A x \in since : x \in Int /\ x <= Fresh
    BY <2>0
  <2>2. \E b \in since : \A y \in since : b >= y
    <3>1. PICK l \in Legs : known[l] # None
      BY <1>3
    <3> DEFINE k == 3 - l
    <3>2. k \in Legs /\ \A i \in Legs : i = l \/ i = k
      BY DEF Legs
    <3>3. known[l] - lag \in since /\ known[l] - lag \in Int
      BY <3>1, <2>1
    <3>4. CASE known[k] = None
      <4>1. \A y \in since : y = known[l] - lag
        BY <3>2, <3>4
      <4> QED
        BY <4>1, <3>3
    <3>5. CASE known[k] # None
      <4>1. known[k] - lag \in since /\ known[k] - lag \in Int
        BY <3>2, <3>5, <2>1
      <4>2. \A y \in since : y = known[l] - lag \/ y = known[k] - lag
        BY <3>2
      <4>3. CASE known[l] - lag >= known[k] - lag
        BY <4>2, <4>3, <3>3
      <4>4. CASE ~(known[l] - lag >= known[k] - lag)
        BY <4>1, <4>2, <4>4, <3>3
      <4> QED
        BY <4>3, <4>4
    <3> QED
      BY <3>4, <3>5
  <2>3. Max(since) \in since
    BY <2>2, MaxBounded
  <2> QED
    BY <1>1, <1>3, <2>1, <2>3 DEF HoleShortLived
<1> QED
  BY <1>2, <1>3

-----------------------------------------------------------------------------
\* What the decision holds and what it misses, in order.
InOrder(t, known) == \A k \in Legs : known[k] # None /\ t[k] # None => known[k] <= t[k]

\* A decision, whether it waits, stands down or fires, keeps the limit.
LEMMA DecideKeeps ==
    ASSUME Values, HoleShortLived,
           NEW t \in [Legs -> {None} \cup Ages], NEW known \in [Legs -> {None} \cup Ages],
           NEW lag \in 0..MaxLag, InOrder(t, known),
           on_book_update(t, lag, known)
    PROVE  HoleShortLived' /\ st' \in [entered : BOOLEAN, standdown : BOOLEAN, skipped : BOOLEAN, rescanned : BOOLEAN]
<1> DEFINE S == [entered : BOOLEAN, standdown : BOOLEAN, skipped : BOOLEAN, rescanned : BOOLEAN]
           Keeps == UNCHANGED fired /\ st' \in S
           Fire == _both_fresh(t, lag) /\ \E source \in {"sub_dollar", "strangle", "wide_box"} : Fires(lag, known, source)
<1>1. st \in S
  BY DEF Values
<1>2. Keeps \/ Fire
  <2>1. CASE host = "flip"
    BY <1>1, <2>1 DEF on_book_update, decide, Waits, TooLate
  <2>2. CASE host # "flip"
    BY <1>1, <2>2 DEF on_book_update, decide_box, Waits, TooLate
  <2> QED
    BY <2>1, <2>2
<1>3. CASE Keeps
  BY <1>3 DEF HoleShortLived
<1>4. CASE Fire
  <2>1. PICK source : Fires(lag, known, source)
    BY <1>4
  <2>2. \A k \in Legs : known[k] # None => known[k] - lag <= Fresh
    <3> SUFFICES ASSUME NEW k \in Legs, known[k] # None
                 PROVE  known[k] - lag <= Fresh
      OBVIOUS
    <3>1. t[k] # None /\ t[k] - lag <= Fresh
      BY <1>4 DEF _both_fresh, _leg_fresh
    <3>2. known[k] \in Int /\ t[k] \in Int
      BY <3>1, AgesAreTimes
    <3>3. lag \in Int /\ Fresh \in Int
      BY AgesAreTimes
    <3>4. known[k] <= t[k]
      BY <3>1 DEF InOrder
    <3> QED
      BY <3>1, <3>2, <3>3, <3>4
  <2>3. HoleShortLived'
    BY <2>1, <2>2, FiresWithin
  <2>4. st' \in S
    BY <1>1, <2>1 DEF Fires
  <2> QED
    BY <2>3, <2>4
<1> QED
  BY <1>2, <1>3, <1>4

\* A frame that drives the decision keeps values, order and limit, and nothing it is told
\* to miss is forgotten but that of a healed book.
LEMMA DriveKeeps ==
    ASSUME Values, Quiet, HoleShortLived, host # "record", host' = host,
           NEW l \in Legs, NEW book \in Books, NEW lag \in 0..MaxLag,
           NEW known \in [Legs -> {None} \cup Ages], InOrder(tops, known),
           book.hole /\ ~book.suspect => known[l] \in {None, 0},
           _drive(l, book, lag, known)
    PROVE  /\ Values' /\ Quiet' /\ Aged' /\ HoleShortLived'
           /\ \A k \in Legs : missed'[k] # None => known[k] # None /\ (k = l => book.hole)
<1> DEFINE t == [tops EXCEPT ![l] = IF book.suspect THEN Stale ELSE lag]
           lacks == [known EXCEPT ![l] = IF book.hole THEN @ ELSE None]
<1>1. CASE Decided(st)
  <2>1. UNCHANGED <<tops, missed, st, fired>> /\ tops = NoTop /\ missed = NoTop
    BY <1>1 DEF _drive, decision, Quiet
  <2> QED
    BY <2>1 DEF Values, Quiet, Aged, HoleShortLived, NoTop
<1>2. CASE ~Decided(st)
  <2>1. /\ on_book_update(t, lag, lacks)
        /\ tops' = IF Decided(st') THEN NoTop ELSE t
        /\ missed' = IF Decided(st') THEN NoTop ELSE lacks
    BY <1>2 DEF _drive
  <2>2. t \in [Legs -> {None} \cup Ages]
    BY AgesAreTimes DEF Values
  <2>3. lacks \in [Legs -> {None} \cup Ages]
    OBVIOUS
  <2>4. InOrder(t, lacks)
    <3> SUFFICES ASSUME NEW k \in Legs, lacks[k] # None, t[k] # None
                 PROVE  lacks[k] <= t[k]
      BY DEF InOrder
    <3>1. CASE k # l
      <4>1. lacks[k] = known[k] /\ t[k] = tops[k]
        BY <3>1 DEF Values
      <4> QED
        BY <4>1 DEF InOrder
    <3>2. CASE k = l
      <4>1. book.hole /\ lacks[l] = known[l] /\ known[l] # None
        BY <3>2
      <4>2. known[l] \in 0..Stale
        BY <4>1 DEF Ages
      <4>3. t[l] = IF book.suspect THEN Stale ELSE lag
        BY DEF Values
      <4>4. CASE book.suspect
        BY <3>2, <4>1, <4>2, <4>3, <4>4, AgesAreTimes
      <4>5. CASE ~book.suspect
        <5>1. known[l] = 0 /\ lag \in Nat
          BY <4>1, <4>5, AgesAreTimes
        <5> QED
          BY <3>2, <4>1, <4>3, <4>5, <5>1
      <4> QED
        BY <4>4, <4>5
    <3> QED
      BY <3>1, <3>2
  <2>5. /\ HoleShortLived'
        /\ st' \in [entered : BOOLEAN, standdown : BOOLEAN, skipped : BOOLEAN, rescanned : BOOLEAN]
    BY <2>1, <2>2, <2>3, <2>4, DecideKeeps
  <2>6. NoTop \in [Legs -> {None} \cup Ages] /\ \A k \in Legs : NoTop[k] = None
    BY DEF NoTop
  <2>7. Values' /\ Quiet'
    BY <2>1, <2>2, <2>3, <2>5, <2>6 DEF Values, Quiet
  <2>8. Aged'
    BY <2>1, <2>4, <2>6 DEF Aged, InOrder
  <2>9. ASSUME NEW k \in Legs, missed'[k] # None
        PROVE  known[k] # None /\ (k = l => book.hole)
    BY <2>1, <2>6, <2>9
  <2> QED
    BY <2>5, <2>7, <2>8, <2>9
<1> QED
  BY <1>1, <1>2

\* A frame of an open connection: what is missing and not in a suspect book is either just
\* noticed or closes the connection.
LEMMA MessageKeeps == IInv /\ on_message => IInv'
<1> SUFFICES ASSUME IInv, on_message PROVE IInv'
  OBVIOUS
<1> USE DEF IInv
<1>1. /\ conn = "open" /\ phase = "loop"
      /\ UNCHANGED <<host, phase, clock>>
  BY DEF on_message, run
<1> DEFINE gap == seq = "skipped"
<1>2. PICK l \in Legs, kind \in {"snapshot", "delta", "malformed", "unstamped"}, lag \in 0..MaxLag :
        LET book == Folded(books[l], kind)
            seen == [books EXCEPT ![l] = book]
            Noticed(k) == missed[k] = None /\ (gap \/ kind = "malformed") /\ seen[k].hole
        IN /\ seq' = "instep"
           /\ conn' = IF gap THEN "closing" ELSE conn
           /\ books' = seen
           /\ _drive_book(l, book, kind, lag, [k \in Legs |-> IF Noticed(k) THEN 0 ELSE missed[k]])
  BY DEF on_message, _check_seq
<1> DEFINE book == Folded(books[l], kind)
           seen == [books EXCEPT ![l] = book]
           Noticed(k) == missed[k] = None /\ (gap \/ kind = "malformed") /\ seen[k].hole
           known == [k \in Legs |-> IF Noticed(k) THEN 0 ELSE missed[k]]
<1>3. book \in Books /\ books' \in [Legs -> Books]
      /\ books'[l] = book /\ \A k \in Legs : k # l => books'[k] = books[k]
  BY <1>2 DEF Folded, Shape, Books
<1>4. known \in [Legs -> {None} \cup Ages]
  BY AgesAreTimes DEF Shape, Values
<1>5. InOrder(tops, known)
  <2> SUFFICES ASSUME NEW k \in Legs, known[k] # None, tops[k] # None
               PROVE  known[k] <= tops[k]
    BY DEF InOrder
  <2>1. tops[k] \in 0..Stale
    BY DEF Shape, Values, Ages
  <2>2. CASE Noticed(k)
    BY <2>1, <2>2, AgesAreTimes
  <2>3. CASE ~Noticed(k)
    BY <2>3 DEF Aged
  <2> QED
    BY <2>2, <2>3
<1>6. book.hole /\ ~book.suspect => known[l] \in {None, 0}
  <2> SUFFICES ASSUME book.hole, ~book.suspect PROVE known[l] \in {None, 0}
    OBVIOUS
  <2>1. book = books[l]
    BY DEF Folded
  <2>2. missed[l] = None
    BY <1>1, <2>1 DEF Noted
  <2> QED
    BY <2>2
\* what is known to be missing is in a suspect book, or the connection closes
<1>7. ASSUME NEW k \in Legs, ~gap, known[k] # None, k = l => book.hole \/ kind = "unstamped"
      PROVE  books'[k].suspect
  <2>1. CASE missed[k] # None
    <3>1. books[k].suspect
      BY <1>1, <2>1 DEF Noted
    <3>2. CASE k = l
      BY <1>3, <1>7, <3>1, <3>2 DEF Folded
    <3> QED
      BY <1>3, <3>1, <3>2
  <2>2. CASE missed[k] = None
    <3>1. kind = "malformed" /\ seen[k].hole
      BY <1>7, <2>2
    <3>2. CASE k = l
      BY <1>3, <3>1, <3>2 DEF Folded
    <3>3. CASE k # l
      <4>1. books[k].hole
        BY <1>2, <1>3, <3>1, <3>3
      <4>2. books[k].suspect
        BY <1>1, <1>7, <4>1 DEF Noted
      <4> QED
        BY <1>3, <3>3, <4>2
    <3> QED
      BY <3>2, <3>3
  <2> QED
    BY <2>1, <2>2
<1>8. /\ Values' /\ Quiet' /\ Aged' /\ HoleShortLived'
      /\ \A k \in Legs : missed'[k] # None =>
           known[k] # None /\ (k = l => book.hole \/ kind = "unstamped")
  <2>1. _drive_book(l, book, kind, lag, known)
    BY <1>2
  <2> HIDE DEF book, known
  <2>2. CASE host = "record"
    <3>1. UNCHANGED <<tops, missed, st, fired>> /\ missed = NoTop
      BY <2>1, <2>2 DEF _drive_book, decision, Quiet
    <3> QED
      BY <1>1, <3>1 DEF Shape, Values, Quiet, Aged, HoleShortLived, NoTop
  <2>3. CASE host # "record" /\ kind = "unstamped"
    <3>1. missed' = IF Decided(st) THEN missed ELSE known
      BY <2>1, <2>3 DEF _drive_book
    <3>2. UNCHANGED <<tops, st, fired>>
      BY <2>1, <2>3 DEF _drive_book
    <3>3. CASE Decided(st)
      BY <1>1, <3>1, <3>2, <3>3 DEF Shape, Values, Quiet, Aged, HoleShortLived, NoTop
    <3>4. CASE ~Decided(st)
      BY <1>1, <1>4, <1>5, <2>3, <3>1, <3>2, <3>4 DEF Shape, Values, Quiet, Aged, InOrder, HoleShortLived
    <3> QED
      BY <3>3, <3>4
  <2>4. CASE host # "record" /\ kind # "unstamped"
    <3>1. _drive(l, book, lag, known)
      BY <2>1, <2>4 DEF _drive_book
    <3> QED
      BY <1>1, <1>3, <1>4, <1>5, <1>6, <2>4, <3>1, DriveKeeps DEF Shape
  <2> QED
    BY <2>2, <2>3, <2>4
<1>9. Shape'
  BY <1>1, <1>3, <1>8 DEF Shape
<1>10. Distrusted' /\ Noted'
  <2>1. CASE gap
    BY <1>1, <1>2, <2>1 DEF Distrusted, Noted
  <2>2. CASE ~gap
    <3>1. \A k \in Legs : books'[k].hole => books'[k].suspect
      <4> SUFFICES ASSUME NEW k \in Legs, books'[k].hole PROVE books'[k].suspect
        OBVIOUS
      <4>1. books[k].hole => books[k].suspect
        BY <1>1, <2>2 DEF Noted
      <4>2. CASE k = l
        BY <1>3, <4>1, <4>2 DEF Folded
      <4> QED
        BY <1>3, <4>1, <4>2
    <3>2. \A k \in Legs : missed'[k] # None => books'[k].suspect
      BY <1>7, <1>8, <2>2
    <3>3. conn' = "open" /\ phase' = "loop" /\ seq' = "instep"
      BY <1>1, <1>2, <2>2
    <3> QED
      BY <3>1, <3>2, <3>3 DEF Distrusted, Noted
  <2> QED
    BY <2>1, <2>2
<1> QED
  BY <1>8, <1>9, <1>10

\* An age a tick later is an age, and order is kept.
LEMMA OlderKeeps ==
    ASSUME NEW x \in {None} \cup Ages
    PROVE  /\ Older(x) \in {None} \cup Ages /\ (Older(x) = None <=> x = None)
           /\ \A y \in {None} \cup Ages :
                x # None /\ y # None /\ x <= y => Older(x) <= Older(y)
<1>1. None \notin Int /\ Stale \in Nat
  BY FeedAssumption, AgesAreTimes
<1>2. Older(x) \in {None} \cup Ages /\ (Older(x) = None <=> x = None)
  BY <1>1 DEF Older, Ages
<1>3. ASSUME NEW y \in {None} \cup Ages, x # None, y # None, x <= y PROVE Older(x) <= Older(y)
  BY <1>1, <1>3 DEF Older, Ages
<1> QED
  BY <1>2, <1>3

\* The end of a dial, of a connection or of the deadline: what the decision holds misses
\* from now on whatever changes, and the books are suspect if there is another dial.
LEMMA DialEndsKeeps == IInv /\ DialEnds => IInv'
<1> SUFFICES ASSUME IInv, DialEnds PROVE IInv'
  OBVIOUS
<1>1. /\ conn \in {"ended", "failed"} /\ phase = "loop"
      /\ UNCHANGED <<host, clock, seq, tops, st, fired>>
      /\ missed' = [l \in Legs |-> IF missed[l] = None /\ tops[l] # None THEN 0 ELSE missed[l]]
  BY DEF DialEnds, Outage
<1>2. \/ clock >= Deadline /\ conn' = "down" /\ books' = books
      \/ books' = [l \in Legs |-> [books[l] EXCEPT !.suspect = TRUE]]
  BY DEF DialEnds, mark_all_suspect
<1>3. conn' \in {"down", "backoff"} /\ phase' \in {"loop", "over"}
  BY <1>1 DEF DialEnds
<1>4. Values'
  BY <1>1, AgesAreTimes DEF IInv, Shape, Values
<1>5. Aged'
  <2> SUFFICES ASSUME NEW l \in Legs, missed'[l] # None, tops[l] # None PROVE missed'[l] <= tops[l]
    BY <1>1 DEF Aged
  <2>1. CASE missed[l] = None
    <3>1. tops[l] \in 0..Stale
      BY DEF IInv, Shape, Values, Ages
    <3> QED
      BY <1>1, <2>1, <3>1
  <2>2. CASE missed[l] # None
    BY <1>1, <2>2 DEF IInv, Aged
  <2> QED
    BY <2>1, <2>2
<1>6. Quiet'
  BY <1>1 DEF IInv, Quiet, NoTop
<1>7. books' \in [Legs -> Books]
  BY <1>2 DEF IInv, Shape, Books
<1>8. AllSuspect' \/ (conn' = "down" /\ clock' >= Deadline)
  BY <1>1, <1>2 DEF IInv, Shape, Books, AllSuspect
<1> QED
  BY <1>1, <1>3, <1>4, <1>5, <1>6, <1>7, <1>8 DEF IInv, Shape, Distrusted, Noted, HoleShortLived

\* The initial states satisfy the invariant.
LEMMA InitIInv == Init => IInv
<1> SUFFICES ASSUME Init PROVE IInv
  OBVIOUS
<1>1. Shape
  BY AgesAreTimes DEF Init, Shape, Values, Books, NoTop
<1>2. Quiet /\ Aged /\ HoleShortLived
  BY DEF Init, Quiet, Aged, HoleShortLived, NoTop, NoFire
<1>3. Distrusted /\ Noted
  BY DEF Init, Distrusted, Noted, AllSuspect
<1> QED
  BY <1>1, <1>2, <1>3 DEF IInv

\* Every step preserves it.
LEMMA NextIInv == IInv /\ [Next]_vars => IInv'
<1> SUFFICES ASSUME IInv, [Next]_vars PROVE IInv'
  OBVIOUS
<1>0. Deadline \in Int
  BY AgesAreTimes
\* a step that leaves data and decision alone has only the connection to answer for
<1>a. ASSUME UNCHANGED <<host, clock, books, tops, missed, st, fired>>, Distrusted', Noted'
      PROVE  IInv'
  BY <1>a DEF IInv, Shape, Values, Quiet, Aged, HoleShortLived
<1>1. CASE sweep \/ PollAnchor \/ BuildRecorder
  <2>1. /\ phase \in {"wake", "anchor", "paired"} /\ phase' \in {"over", "gate", "anchor", "paired"}
        /\ UNCHANGED <<host, clock, conn, seq, books, tops, missed, st, fired>>
    BY <1>1 DEF sweep, PollAnchor, BuildRecorder, _resolve_anchor, _resolve_box_anchor, link, data, decision
  <2>2. Distrusted' /\ Noted'
    BY <2>1 DEF IInv, Distrusted, Noted, AllSuspect
  <2> QED
    BY <1>a, <2>1, <2>2
<1>2. CASE _await_connect_gate
  <2>1. /\ phase = "gate" /\ phase' = "loop"
        /\ UNCHANGED <<host, clock, conn, seq, books, tops, missed, st, fired>>
    BY <1>2 DEF _await_connect_gate, link, data, decision
  <2>2. Distrusted' /\ Noted'
    BY <2>1 DEF IInv, Distrusted, Noted, AllSuspect
  <2> QED
    BY <1>a, <2>1, <2>2
<1>3. CASE Dial
  <2>1. /\ phase = "loop" /\ conn = "down"
        /\ \/ phase' = "over"
           \/ ~(clock >= Deadline) /\ conn' = "minting" /\ phase' = phase
        /\ UNCHANGED <<host, clock, seq, books, tops, missed, st, fired>>
    BY <1>3 DEF Dial, data, decision
  <2>2. Distrusted' /\ Noted'
    BY <2>1 DEF IInv, Distrusted, Noted, AllSuspect
  <2> QED
    BY <1>a, <2>1, <2>2
<1>4. CASE Mint \/ connect
  <2>1. /\ phase = "loop" /\ conn \in {"minting", "dialing"} /\ conn' \in {"dialing", "failed", "open"}
        /\ UNCHANGED <<host, clock, phase, books, tops, missed, st, fired>>
    BY <1>4 DEF Mint, connect, run, data, decision
  <2>2. AllSuspect
    BY <2>1 DEF IInv, Distrusted
  <2>3. Distrusted' /\ Noted'
    BY <2>1, <2>2 DEF Distrusted, Noted, AllSuspect
  <2> QED
    BY <1>a, <2>1, <2>3
<1>5. CASE Supervise \/ Closed \/ WaitFor
  <2>1. /\ phase = "loop" /\ conn' \in {"closing", "ended", "failed", conn}
        /\ UNCHANGED <<host, clock, phase, seq, books, tops, missed, st, fired>>
    BY <1>5 DEF Supervise, Closed, WaitFor, force_close, run, data, decision
  <2>2. Distrusted' /\ Noted'
    BY <2>1 DEF IInv, Distrusted, Noted, AllSuspect
  <2> QED
    BY <1>a, <2>1, <2>2
<1>6. CASE DialEnds
  BY <1>6, DialEndsKeeps
<1>7. CASE BackoffEnds
  <2>1. /\ conn = "backoff" /\ conn' = "down" /\ phase = "loop"
        /\ UNCHANGED <<host, clock, phase, seq, books, tops, missed, st, fired>>
    BY <1>7 DEF BackoffEnds, run, data, decision
  <2>2. Distrusted' /\ Noted'
    BY <2>1 DEF IInv, Distrusted, Noted, AllSuspect
  <2> QED
    BY <1>a, <2>1, <2>2
<1>8. CASE HardStop
  <2>1. /\ phase' = "stopped"
        /\ UNCHANGED <<host, clock, books, tops, missed, st, fired>>
    BY <1>8 DEF HardStop, data, decision
  <2>2. Distrusted' /\ Noted'
    BY <2>1 DEF Distrusted, Noted
  <2> QED
    BY <1>a, <2>1, <2>2
<1>9. CASE on_message
  BY <1>9, MessageKeeps
<1>10. CASE LoseFrame
  <2>1. /\ conn = "open" /\ phase = "loop"
        /\ UNCHANGED <<host, phase, clock, conn, tops, missed, st, fired>>
        /\ seq' = IF seq = "unseen" THEN seq ELSE "skipped"
    BY <1>10 DEF LoseFrame, run, link, decision
  <2>2. PICK l \in Legs : books' = [books EXCEPT ![l].hole = TRUE]
    BY <1>10 DEF LoseFrame
  <2>3. books' \in [Legs -> Books] /\ \A k \in Legs : books'[k].suspect = books[k].suspect
    BY <2>2 DEF IInv, Shape, Books
  <2>4. Distrusted' /\ Noted'
    BY <2>1, <2>3 DEF IInv, Distrusted, Noted, AllSuspect
  <2>5. Shape' /\ Quiet' /\ Aged' /\ HoleShortLived'
    BY <2>1, <2>3 DEF IInv, Shape, Values, Quiet, Aged, HoleShortLived
  <2> QED
    BY <2>4, <2>5 DEF IInv
<1>11. CASE Tick
  <2>1. /\ clock' = clock + 1
        /\ tops' = [l \in Legs |-> Older(tops[l])] /\ missed' = [l \in Legs |-> Older(missed[l])]
        /\ UNCHANGED <<host, phase, conn, seq, books, st, fired>>
    BY <1>11 DEF Tick, link, data
  <2>2. \A l \in Legs : tops[l] \in {None} \cup Ages /\ missed[l] \in {None} \cup Ages
    BY DEF IInv, Shape, Values
  <2>3. Values'
    BY <2>1, <2>2, OlderKeeps DEF IInv, Shape, Values
  <2>4. Aged'
    BY <2>1, <2>2, OlderKeeps DEF IInv, Aged
  <2>5. \A l \in Legs : (missed'[l] = None <=> missed[l] = None)
    BY <2>1, <2>2, OlderKeeps
  <2>6. Quiet'
    BY <2>1 DEF IInv, Quiet, NoTop, Older
  <2>7. Distrusted' /\ Noted'
    BY <1>0, <2>1, <2>5 DEF IInv, Shape, Distrusted, Noted, AllSuspect
  <2> QED
    BY <2>1, <2>3, <2>4, <2>6, <2>7 DEF IInv, Shape, HoleShortLived
<1>12. CASE UNCHANGED vars
  <2>1. UNCHANGED <<host, phase, clock, conn, seq, books, tops, missed, st, fired>>
    BY <1>12 DEF vars, run, link, data, decision
  <2>2. Distrusted' /\ Noted'
    BY <2>1 DEF IInv, Distrusted, Noted, AllSuspect
  <2> QED
    BY <1>a, <2>1, <2>2
<1> QED
  BY <1>1, <1>2, <1>3, <1>4, <1>5, <1>6, <1>7, <1>8, <1>9, <1>10, <1>11, <1>12 DEF Next

\* No decision rests for longer than the freshness limit on a book that is known to miss a
\* change (_check_seq, mark_all_suspect, apply_snapshot, _both_fresh).
THEOREM HoleShortLivedTheorem == Spec => []HoleShortLived
<1>1. IInv => HoleShortLived
  BY DEF IInv
<1> QED
  BY <1>1, InitIInv, NextIInv, PTL DEF Spec

-----------------------------------------------------------------------------
\* A set of naturals has a least element.
LEMMA LeastNatural ==
    ASSUME NEW T \in SUBSET Nat, T # {}
    PROVE  \E x \in T : \A y \in T : x <= y
<1>1. PICK x \in T : \A y \in T : ~ (<<y, x>> \in OpToRel(<, Nat))
  BY WFMin, NatLessThanWellFounded
<1>2. ASSUME NEW y \in T PROVE x <= y
  <2>1. <<y, x>> \in Nat \X Nat
    OBVIOUS
  <2>2. ~ (y < x)
    BY <1>1, <2>1 DEF OpToRel
  <2> QED
    BY <2>2
<1> QED
  BY <1>2

\* The markets of a generation: what it consists of.
LEMMA Generation ==
    ASSUME NEW markets, NEW l \in _group_ladders(markets)
    PROVE  /\ l # {} /\ l \subseteq markets
           /\ \A m \in l : m.gen = GenOf(l) /\ m.settles
           /\ \A m \in markets : m.settles /\ m.gen = GenOf(l) => m \in l
<1>1. PICK k \in markets : k.settles /\ l = { m \in { i \in markets : i.settles } : m.gen = k.gen }
  BY DEF _group_ladders
<1>2. k \in l
  BY <1>1
<1>3. GenOf(l) = k.gen
  BY <1>1, <1>2 DEF GenOf
<1> QED
  BY <1>1, <1>2, <1>3

\* Every settling market is in a generation.
LEMMA InGeneration ==
    ASSUME NEW markets, NEW m \in markets, m.settles
    PROVE  \E l \in _group_ladders(markets) : m \in l
<1> DEFINE l == { k \in { i \in markets : i.settles } : k.gen = m.gen }
<1>1. l \in _group_ladders(markets) /\ m \in l
  BY DEF _group_ladders
<1> QED
  BY <1>1

\* What the sweep selects is a generation, unless there is none with a readable window.
LEMMA SelectsAGeneration ==
    ASSUME NEW L \in Listings, NEW markets \in SUBSET L.markets
    PROVE  _select_smallest_window(_group_ladders(markets), L.window) \in _group_ladders(markets) \cup {{}}
<1> DEFINE groups == _group_ladders(markets)
           readable == { l \in groups : L.window[GenOf(l)] # None }
           span(l) == L.window[GenOf(l)]
           size(l) == Cardinality(L.markets) - Cardinality(l)
<1>1. CASE readable = {}
  BY <1>1 DEF _select_smallest_window
<1>2. CASE readable # {}
  <2>1. ASSUME NEW l \in readable PROVE span(l) \in Nat /\ size(l) \in Nat /\ Cardinality(l) \in Nat /\ GenOf(l) \in Nat
    <3>1. l # {} /\ l \subseteq L.markets /\ \A m \in l : m.gen = GenOf(l)
      BY Generation
    <3>2. span(l) \in Nat /\ GenOf(l) \in Nat
      BY <3>1, ListingsAssumption
    <3>3. IsFiniteSet(L.markets)
      BY ListingsAssumption
    <3>4. IsFiniteSet(l) /\ Cardinality(l) <= Cardinality(L.markets)
      BY <3>1, <3>3, FS_Subset
    <3>5. Cardinality(l) \in Nat /\ Cardinality(L.markets) \in Nat
      BY <3>3, <3>4, FS_CardinalityType
    <3> QED
      BY <3>2, <3>4, <3>5
  <2> HIDE DEF readable
  <2>2. \E w \in { span(l) : l \in readable } : \A y \in { span(l) : l \in readable } : w <= y
    <3>1. { span(l) : l \in readable } \in SUBSET Nat /\ { span(l) : l \in readable } # {}
      BY <1>2, <2>1
    <3> QED
      BY <3>1, LeastNatural
  <2>3. PICK w \in { span(l) : l \in readable } : \A l \in readable : w <= span(l)
    BY <2>2
  <2> DEFINE R2 == { l \in readable : span(l) = w }
  <2>4. \E n \in { size(l) : l \in R2 } : \A y \in { size(l) : l \in R2 } : n <= y
    <3>1. { size(l) : l \in R2 } \in SUBSET Nat /\ { size(l) : l \in R2 } # {}
      BY <2>1, <2>3
    <3> QED
      BY <3>1, LeastNatural
  <2>5. PICK n \in { size(l) : l \in R2 } : \A l \in R2 : n <= size(l)
    BY <2>4
  <2> DEFINE R3 == { l \in R2 : size(l) = n }
  <2>6. \E g \in { GenOf(l) : l \in R3 } : \A y \in { GenOf(l) : l \in R3 } : g <= y
    <3>1. { GenOf(l) : l \in R3 } \in SUBSET Nat /\ { GenOf(l) : l \in R3 } # {}
      BY <2>1, <2>5
    <3> QED
      BY <3>1, LeastNatural
  <2>7. PICK x \in R3 : \A l \in R3 : GenOf(x) <= GenOf(l)
    BY <2>6
  <2>8. ASSUME NEW k \in readable PROVE Smaller(L.window, x, k)
    <3>1. x \in readable /\ span(x) = w /\ size(x) = n
      BY <2>7
    <3>2. /\ span(x) \in Nat /\ span(k) \in Nat /\ span(x) <= span(k)
      BY <2>1, <2>3, <3>1
    <3>3. CASE span(k) # span(x)
      BY <3>2, <3>3 DEF Smaller
    <3>4. CASE span(k) = span(x)
      <4>1. size(x) <= size(k)
        BY <2>5, <3>1, <3>4
      <4>2. /\ Cardinality(x) \in Nat /\ Cardinality(k) \in Nat
            /\ size(x) \in Nat /\ size(k) \in Nat
        BY <2>1, <3>1
      <4>3. IsFiniteSet(L.markets) /\ Cardinality(L.markets) \in Nat
        BY ListingsAssumption, FS_CardinalityType
      <4>4. Cardinality(x) >= Cardinality(k)
        BY <4>1, <4>2, <4>3
      <4>5. Cardinality(x) = Cardinality(k) => GenOf(x) <= GenOf(k)
        BY <2>7, <3>1, <3>4
      <4> QED
        BY <3>4, <4>2, <4>4, <4>5 DEF Smaller
    <3> QED
      BY <3>3, <3>4
  <2>9. x \in readable
    BY <2>7
  <2>10. _select_smallest_window(groups, L.window) =
           CHOOSE l \in readable : \A k \in readable : Smaller(L.window, l, k)
    BY <1>2 DEF _select_smallest_window, readable
  <2>11. (CHOOSE l \in readable : \A k \in readable : Smaller(L.window, l, k)) \in readable
    BY <2>8, <2>9
  <2> QED
    BY <2>10, <2>11 DEF readable
<1> QED
  BY <1>1, <1>2

\* A sweep that does not stand down has found a fifteen-minute market.
LEMMA FindsAQuarter ==
    ASSUME NEW L \in Listings, discover_legs(L) # StandDown
    PROVE  /\ discover_legs(L).fifteen # {}
           /\ discover_legs(L).fifteen \subseteq Fifteen(L)
<1> DEFINE fifteen == _select_smallest_window(_group_ladders(Fifteen(L)), L.window)
<1>1. discover_legs(L).fifteen = fifteen /\ _leg_is_live(fifteen)
  BY DEF discover_legs
<1>2. fifteen # {}
  BY <1>1 DEF _leg_is_live
<1>3. fifteen \in _group_ladders(Fifteen(L)) \cup {{}}
  BY SelectsAGeneration DEF Fifteen
<1>4. fifteen \subseteq Fifteen(L)
  BY <1>2, <1>3, Generation
<1> QED
  BY <1>1, <1>2, <1>4

\* The markets the nearest strike is looked for in.
Pool(L) == { m \in Hourly(L) :
               /\ m.settles /\ L.window[m.gen] # None
               /\ \E k \in Hourly(L) : k.settles /\ k.gen = m.gen /\ ~k.dead }

\* They are those of the live generations with a readable window.
LEMMA PoolIsLive == ASSUME NEW L PROVE UNION live_hourly_ladders(L) = Pool(L)
<1>1. ASSUME NEW l \in live_hourly_ladders(L), NEW m \in l PROVE m \in Pool(L)
  <2>1. l \in _group_ladders(Hourly(L)) /\ L.window[GenOf(l)] # None /\ \E k \in l : ~k.dead
    BY DEF live_hourly_ladders, _leg_is_live
  <2>2. l \subseteq Hourly(L) /\ \A k \in l : k.gen = GenOf(l) /\ k.settles
    BY <2>1, Generation
  <2> QED
    BY <2>1, <2>2 DEF Pool
<1>2. ASSUME NEW m \in Pool(L) PROVE \E l \in live_hourly_ladders(L) : m \in l
  <2>1. PICK l \in _group_ladders(Hourly(L)) : m \in l
    BY InGeneration DEF Pool
  <2>2. /\ m.gen = GenOf(l)
        /\ \A k \in Hourly(L) : k.settles /\ k.gen = GenOf(l) => k \in l
    BY <2>1, Generation
  <2>3. L.window[GenOf(l)] # None /\ \E k \in l : ~k.dead
    BY <2>2 DEF Pool
  <2> QED
    BY <2>1, <2>3 DEF live_hourly_ladders, _leg_is_live
<1> QED
  BY <1>1, <1>2

\* The nearest strike is one market, and it alone is nearest.
LEMMA NearestIsAlone ==
    ASSUME NEW L \in Listings, NEW A \in Nat, nearest_hourly_strike(A, Pool(L)) # {}
    PROVE  \E m \in Pool(L) :
             /\ nearest_hourly_strike(A, Pool(L)) = {m} /\ m.strike # None
             /\ \A k \in Pool(L) \ {m} : k.strike # None => Away(k, A) > Away(m, A)
<1> DEFINE listed == { m \in Pool(L) : m.strike # None /\ m.settles }
           near == { m \in listed : \A k \in listed : Away(m, A) <= Away(k, A) }
<1>1. nearest_hourly_strike(A, Pool(L)) = near /\ Cardinality(near) = 1
  BY DEF nearest_hourly_strike
<1>2. near \subseteq L.markets /\ IsFiniteSet(L.markets)
  BY ListingsAssumption DEF Pool, Hourly
<1>3. IsFiniteSet(near)
  BY <1>2, FS_Subset
<1>4. PICK m : near = {m}
  BY <1>1, <1>3, FS_Singleton
<1>5. m \in listed /\ \A k \in listed : Away(m, A) <= Away(k, A)
  BY <1>4
<1>6. ASSUME NEW k \in listed, k # m PROVE Away(k, A) > Away(m, A)
  <2>1. k \in L.markets /\ m \in L.markets
    BY <1>5 DEF Pool, Hourly
  <2>2. Away(k, A) \in Int /\ Away(m, A) \in Int
    <3>1. k.strike \in Nat /\ m.strike \in Nat
      BY <1>5, <2>1, ListingsAssumption
    <3> QED
      BY <3>1 DEF Away
  <2>3. Away(k, A) # Away(m, A)
    <3>1. SUFFICES ASSUME Away(k, A) = Away(m, A) PROVE k \in near
      BY <1>4, <1>6
    <3> QED
      BY <1>5, <3>1
  <2> QED
    BY <1>5, <2>2, <2>3
<1>7. \A k \in Pool(L) \ {m} : k.strike # None => Away(k, A) > Away(m, A)
  BY <1>6 DEF Pool
<1> QED
  BY <1>1, <1>4, <1>5, <1>7

\* A ladder that passes the check has two strikes and the step of the hour throughout.
LEMMA CheckedLadder ==
    ASSUME NEW ladder, NEW hour \in {"plain", "special", "friday"}, IsFiniteSet(Strikes(ladder)),
           Strikes(ladder) \subseteq Nat, ladder_check(ladder, hour)
    PROVE  /\ Cardinality(Strikes(ladder)) > 1
           /\ \A x \in Strikes(ladder) :
                (\E y \in Strikes(ladder) : y > x) => x + expected_step(hour) \in Strikes(ladder)
<1> DEFINE S == Strikes(ladder)
           step == expected_step(hour)
           Above(x) == { y \in S : x < y }
<1>1. step \in Nat
  BY DEF expected_step
<1>2. { Min(Above(x)) - x : x \in { z \in S : Above(z) # {} } } = {step}
  BY DEF ladder_check, Gaps
<1>3. ASSUME NEW x \in S, Above(x) # {} PROVE x + step \in S /\ x + step > x
  <2>1. Above(x) \in SUBSET Nat
    OBVIOUS
  <2>2. \E n \in Above(x) : \A y \in Above(x) : n <= y
    BY <1>3, <2>1, LeastNatural
  <2>3. Min(Above(x)) \in Above(x)
    BY <2>2 DEF Min
  <2>4. Min(Above(x)) - x = step
    BY <1>2, <1>3
  <2> QED
    BY <1>1, <2>1, <2>3, <2>4
<1>4. Cardinality(S) > 1
  <2>1. PICK x \in S : Above(x) # {}
    BY <1>2
  <2>2. PICK y \in S : x < y
    BY <2>1
  <2>3. IsFiniteSet({x}) /\ Cardinality({x}) = 1 /\ {x} \subseteq S /\ {x} # S
    BY <2>2, FS_Singleton
  <2>4. Cardinality({x}) <= Cardinality(S) /\ Cardinality(S) # Cardinality({x})
    BY <2>3, FS_Subset
  <2>5. Cardinality(S) \in Nat
    BY FS_CardinalityType
  <2> QED
    BY <2>3, <2>4, <2>5
<1>5. ASSUME NEW x \in S, \E y \in S : y > x PROVE x + step \in S
  <2>1. Above(x) # {}
    BY <1>5
  <2> QED
    BY <1>3, <2>1
<1> QED
  BY <1>4, <1>5

\* The ladder that is checked is the generation of the market that was paired.
LEMMA ChosenHoldsPartner ==
    ASSUME NEW L \in Listings, NEW a \in Fifteen(L), NEW K \in Pool(L), NEW selected, NEW pair,
           \/ pair.high = a.ticker /\ pair.low = K.ticker
           \/ pair.high = K.ticker /\ pair.low = a.ticker
    PROVE  LET chosen == _chosen_hourly_leg(live_hourly_ladders(L), selected, pair) IN
           /\ chosen = { k \in Pool(L) : k.gen = K.gen }
           /\ chosen \subseteq L.markets
<1> DEFINE ladders == live_hourly_ladders(L)
           Holding(t) == { l \in ladders : t \in Tickers(l) }
           chosen == _chosen_hourly_leg(ladders, selected, pair)
<1>1. ASSUME NEW l \in ladders PROVE l \subseteq Hourly(L) /\ l \subseteq L.markets
  <2>1. l \in _group_ladders(Hourly(L))
    BY DEF live_hourly_ladders
  <2> QED
    BY <2>1, Generation DEF Hourly
<1>2. K \in L.markets /\ a \in L.markets /\ a # K
  BY DEF Pool, Hourly, Fifteen
<1>3. ASSUME NEW l \in ladders, NEW m \in {a, K}, m.ticker \in Tickers(l) PROVE m \in l
  <2>1. PICK k \in l : k.ticker = m.ticker
    BY <1>3 DEF Tickers
  <2>2. k = m
    BY <1>1, <1>2, <2>1, ListingsAssumption
  <2> QED
    BY <2>2
<1>4. Holding(a.ticker) = {}
  <2> SUFFICES ASSUME NEW l \in ladders, a.ticker \in Tickers(l) PROVE FALSE
    OBVIOUS
  <2>1. a \in Hourly(L)
    BY <1>1, <1>3
  <2> QED
    BY <2>1 DEF Hourly, Fifteen
<1>5. Holding(K.ticker) # {}
  <2>1. PICK l \in ladders : K \in l
    BY PoolIsLive
  <2> QED
    BY <2>1 DEF Tickers
<1>6. chosen \in Holding(K.ticker)
  BY <1>4, <1>5 DEF _chosen_hourly_leg
<1>7. chosen \in ladders /\ K \in chosen
  BY <1>3, <1>6
<1>8. chosen \in _group_ladders(Hourly(L)) /\ chosen \subseteq Pool(L)
  BY <1>7, PoolIsLive DEF live_hourly_ladders
<1>9. /\ \A m \in chosen : m.gen = GenOf(chosen)
      /\ \A m \in Hourly(L) : m.settles /\ m.gen = GenOf(chosen) => m \in chosen
  BY <1>8, Generation
<1>10. chosen = { k \in Pool(L) : k.gen = K.gen }
  BY <1>7, <1>8, <1>9 DEF Pool
<1> QED
  BY <1>1, <1>7, <1>10

\* The promise about a pair, of any listing and plan.
Vetted(L, p) ==
    LET Partner(m) == m.ticker \in {p.pair.high, p.pair.low}
        Ladder(m) == Strikes({ k \in Pool(L) : k.gen = m.gen })
    IN /\ {p.pair.high, p.pair.low} \subseteq p.sub
       /\ \E m \in Pool(L) :
            /\ Partner(m) /\ m.strike # None /\ m.strike # p.A
            /\ p.pair.high = m.ticker <=> m.strike > p.A
            /\ \A k \in Pool(L) \ {m} : k.strike # None => Away(k, p.A) > Away(m, p.A)
            /\ ~p.off => /\ Cardinality(Ladder(m)) > 1
                         /\ \A x \in Ladder(m) :
                              (\E y \in Ladder(m) : y > x) => x + expected_step(L.hour) \in Ladder(m)

\* A pair made of the anchor and the nearest strike keeps it.
LEMMA PairKeepsPromise ==
    ASSUME NEW L \in Listings, NEW a \in Fifteen(L), NEW A \in Nat, NEW pair, NEW p, NEW selected, NEW sub,
           LET made == fallback_pair(A, a.ticker, Pool(L)) IN
             made # NoPair /\ pair.high = made.high /\ pair.low = made.low,
           p.pair = pair, p.A = A, {pair.high, pair.low} \subseteq p.sub,
           ~p.off => _chosen_ladder_check(live_hourly_ladders(L), selected, pair, L.hour)
    PROVE  Vetted(L, p)
<1>1. nearest_hourly_strike(A, Pool(L)) # {}
  BY DEF fallback_pair
<1>2. PICK K \in Pool(L) :
        /\ nearest_hourly_strike(A, Pool(L)) = {K} /\ K.strike # None
        /\ \A k \in Pool(L) \ {K} : k.strike # None => Away(k, A) > Away(K, A)
  BY <1>1, NearestIsAlone
<1>3. (CHOOSE m \in nearest_hourly_strike(A, Pool(L)) : TRUE) = K
  BY <1>2
<1>4. /\ K.strike # A
      /\ pair.high = IF A > K.strike THEN a.ticker ELSE K.ticker
      /\ pair.low = IF A > K.strike THEN K.ticker ELSE a.ticker
  BY <1>1, <1>3 DEF fallback_pair
<1>5. /\ K \in L.markets /\ a \in L.markets /\ a # K
  BY DEF Pool, Hourly, Fifteen
<1>6. a.ticker # K.ticker /\ K.strike \in Nat
  BY <1>2, <1>5, ListingsAssumption
<1>7. pair.high = K.ticker <=> K.strike > A
  BY <1>4, <1>6
<1> DEFINE chosen == _chosen_hourly_leg(live_hourly_ladders(L), selected, pair)
           ladder == { k \in Pool(L) : k.gen = K.gen }
<1>8. chosen = ladder /\ chosen \subseteq L.markets
  BY <1>4, ChosenHoldsPartner
<1>9. IsFiniteSet(Strikes(ladder)) /\ Strikes(ladder) \subseteq Nat
  <2>1. IsFiniteSet(ladder)
    BY <1>8, FS_Subset, ListingsAssumption
  <2>2. IsFiniteSet({ m.strike : m \in ladder })
    <3> DEFINE strike == [m \in ladder |-> m.strike]
               T == { m.strike : m \in ladder }
    <3>1. strike \in Surjection(ladder, T)
      <4>1. strike \in [ladder -> T] /\ \A t \in T : \E m \in ladder : strike[m] = t
        OBVIOUS
      <4> HIDE DEF strike, T, ladder
      <4> QED
        BY <4>1, Fun_IsSurj
    <3> QED
      BY <2>1, <3>1, FS_Surjection
  <2>3. IsFiniteSet(Strikes(ladder))
    BY <2>2, FS_Subset DEF Strikes
  <2>4. Strikes(ladder) \subseteq Nat
    BY <1>8, ListingsAssumption DEF Strikes
  <2> QED
    BY <2>3, <2>4
<1>10. ASSUME ~p.off
       PROVE  /\ Cardinality(Strikes(ladder)) > 1
              /\ \A x \in Strikes(ladder) :
                   (\E y \in Strikes(ladder) : y > x) => x + expected_step(L.hour) \in Strikes(ladder)
  <2>1. ladder_check(ladder, L.hour)
    BY <1>8, <1>10 DEF _chosen_ladder_check
  <2>2. L.hour \in {"plain", "special", "friday"}
    BY ListingsAssumption
  <2> QED
    BY <1>9, <2>1, <2>2, CheckedLadder
<1> QED
  BY <1>2, <1>4, <1>7, <1>10 DEF Vetted

\* Until the anchor is known the plan is what the sweep made of the listing.
Planned ==
    /\ phase \in {"wake", "anchor"} => listing \in Listings
    /\ phase = "anchor" =>
         /\ plan.found = discover_legs(listing) /\ plan.found # StandDown
         /\ plan.ladders = live_hourly_ladders(listing)
    /\ phase = "paired" => Vetted(listing, plan)

\* Making the pair of the anchor keeps the promise.
LEMMA ResolveKeeps ==
    ASSUME Planned, phase = "anchor", _resolve_anchor
    PROVE  Planned'
<1>1. PICK A \in Anchors, tape \in BOOLEAN :
        LET pool == UNION plan.ladders
            pair == IF tape THEN compute_window_stats(A, Anchor, pool, TRUE)
                    ELSE fallback_pair(A, Anchor, pool)
        IN IF pair.high = None
           THEN phase' = "over" /\ UNCHANGED wake
           ELSE \E n \in Limits : _apply_outcome(A, pair, n) /\ phase' = "paired" /\ UNCHANGED listing
  BY DEF _resolve_anchor
<1> DEFINE made == fallback_pair(A, Anchor, UNION plan.ladders)
           pair == IF tape THEN compute_window_stats(A, Anchor, UNION plan.ladders, TRUE) ELSE made
<1>2. CASE pair.high = None
  BY <1>1, <1>2 DEF Planned
<1>3. CASE pair.high # None
  <2>1. PICK n \in Limits : _apply_outcome(A, pair, n) /\ phase' = "paired" /\ listing' = listing
    BY <1>1, <1>3
  <2>2. /\ listing \in Listings /\ plan.found = discover_legs(listing)
        /\ plan.found # StandDown /\ plan.ladders = live_hourly_ladders(listing)
    BY DEF Planned
  <2>3. PICK a \in Fifteen(listing) : a = CHOOSE m \in plan.found.fifteen : TRUE
    BY <2>2, FindsAQuarter
  <2>4. Anchor = a.ticker /\ UNION plan.ladders = Pool(listing)
    BY <2>2, <2>3, PoolIsLive DEF Anchor
  <2>5. made = NoPair \/ DOMAIN made = {"high", "low", "quintile"}
    BY DEF fallback_pair
  <2>6. pair.high = made.high /\ pair.low = made.low
    <3>1. DOMAIN made = {"high", "low", "quintile"}
      BY <2>5 DEF NoPair
    <3>2. CASE tape
      BY <3>1, <3>2 DEF compute_window_stats
    <3>3. CASE ~tape
      BY <3>3
    <3> QED
      BY <3>2, <3>3
  <2>7. made # NoPair
    <3> HIDE DEF pair, made
    <3> QED
      BY <1>3, <2>6 DEF NoPair
  <2>8. A \in Nat
    BY ListingsAssumption
  <2>9. /\ plan'.pair = pair /\ plan'.A = A /\ {pair.high, pair.low} \subseteq plan'.sub
        /\ ~plan'.off => _chosen_ladder_check(plan.ladders, plan.found.hourly, pair, listing.hour)
    <3> HIDE DEF pair
    <3> QED
      BY <2>1 DEF _apply_outcome, _subscription_tickers
  <2>10. Vetted(listing, plan')
    <3> HIDE DEF pair, made
    <3>1. fallback_pair(A, a.ticker, Pool(listing)) = made
      BY <2>4 DEF made
    <3> QED
      BY <2>2, <2>6, <2>7, <2>8, <2>9, <3>1, PairKeepsPromise
  <2> QED
    BY <2>1, <2>10 DEF Planned
<1> QED
  BY <1>2, <1>3

\* Initially and with every step.
LEMMA PlannedInvariant == Spec => []Planned
<1>1. Init => Planned
  BY DEF Init, Planned
<1>2. Planned /\ [Next]_vars => Planned'
  <2> SUFFICES ASSUME Planned, [Next]_vars PROVE Planned'
    OBVIOUS
  <2>1. CASE sweep
    BY <2>1 DEF sweep, Planned
  <2>2. CASE PollAnchor
    <3>1. phase = "anchor"
      BY <2>2 DEF PollAnchor
    <3>2. CASE _resolve_anchor
      BY <3>1, <3>2, ResolveKeeps
    <3>3. CASE _resolve_box_anchor \/ (phase' = "over" /\ UNCHANGED wake)
      BY <3>3 DEF _resolve_box_anchor, Planned
    <3> QED
      BY <2>2, <3>2, <3>3 DEF PollAnchor
  <2>3. CASE BuildRecorder \/ _await_connect_gate \/ HardStop
    BY <2>3 DEF BuildRecorder, _await_connect_gate, HardStop, Planned
  \* from here on the window is in its loop, or nothing of the plan changes
  <2>4. CASE Dial \/ DialEnds
    BY <2>4 DEF Dial, DialEnds, Planned
  <2>5. CASE Mint \/ connect \/ Supervise \/ Closed \/ WaitFor \/ BackoffEnds \/ on_message \/ LoseFrame
    <3>1. phase' = phase /\ UNCHANGED wake
      BY <2>5 DEF Mint, connect, Supervise, Closed, WaitFor, BackoffEnds, on_message, LoseFrame, run
    <3> QED
      BY <3>1 DEF wake, Planned
  <2>6. CASE Tick \/ UNCHANGED vars
    <3>1. phase' = phase /\ UNCHANGED wake
      BY <2>6 DEF Tick, vars, run
    <3> QED
      BY <3>1 DEF wake, Planned
  <2> QED
    BY <2>1, <2>2, <2>3, <2>4, <2>5, <2>6 DEF Next
<1> QED
  BY <1>1, <1>2, PTL DEF Spec

\* The pair is the anchor and the one strike nearest to it, both are subscribed, and the
\* strangle is traded on a vetted ladder only (nearest_hourly_strike,
\* _subscription_tickers, _chosen_ladder_check).
THEOREM PairIsVettedTheorem == Spec => []PairIsVetted
<1>1. Planned => PairIsVetted
  BY DEF Planned, Vetted, Pool, PairIsVetted
<1> QED
  BY <1>1, PlannedInvariant, PTL

=============================================================================
