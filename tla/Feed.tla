-------------------------------- MODULE Feed --------------------------------
(***************************************************************************)
(* One websocket of a window: the legs are found (Wake), the anchor is     *)
(* polled, the dial is held until the leg opens, and then the connection   *)
(* is dialled, supervised and dialled again until the deadline, while its  *)
(* frames fold into book mirrors and drive the decision                    *)
(* (ws_client.py, book.py, record_window.py, signal.py, box.py,            *)
(* run_window.py, run_v32.py).                                             *)
(*                                                                         *)
(* host says whose loop it is: run_recording for "record" (the V3 windows  *)
(* and the recorders, a hard stop armed), _dial_loop for "flip" (the       *)
(* corridor) and "box".  Leg 1 is the fifteen-minute market, leg 2 the     *)
(* hourly one.  A tick is about a second of the code's clock; the order of *)
(* its bounds (freshness, slack, grace) is kept, their lengths are not.    *)
(* The exchange's sequence numbers are modelled by what the client         *)
(* derives, whether a frame was skipped since the last one, and the lag    *)
(* and silence gauges by their verdict: a feed may be found stale at any   *)
(* tick of the supervisor, while it is dialled as well as when it is open. *)
(***************************************************************************)
EXTENDS Wake

CONSTANTS
  Hosts,        \* the loops of this instance
  Listings,     \* what the exchange may list: [markets, window, hour]
  Anchors,      \* strikes the fifteen-minute market may open with
  Limits,       \* --max-hourly-strikes
  OpenAt,       \* the leg opens; one tick before it the dial is allowed
  CloseAt,      \* settlement
  WindowLen,    \* a decision may fire at most so long before settlement
  CutOff,       \* and not later than this before it
  Fresh,        \* greatest age of a leg
  MaxLag,       \* bound: age of a frame when it is handled
  Grace, Slack, StopGrace,
  PollFor,      \* the anchor is polled so long
  MaxRedials    \* consecutive failures after which _dial_loop gives up

\* times are whole ticks, and None is none of them
ASSUME FeedAssumption ==
  /\ {OpenAt, CloseAt, WindowLen, CutOff, Fresh, MaxLag} \subseteq Nat
  /\ {Grace, Slack, StopGrace, PollFor, MaxRedials} \subseteq Nat
  /\ None \notin Int

\* a listing is finite, its tickers are unique, generations and windows are numbers and a
\* strike is a number of cents
ASSUME ListingsAssumption ==
  /\ Anchors \subseteq Nat
  /\ \A L \in Listings :
       /\ IsFiniteSet(L.markets) /\ L.hour \in {"plain", "special", "friday"}
       /\ \A m \in L.markets : /\ m.gen \in Nat /\ L.window[m.gen] \in Nat \cup {None}
                               /\ m.strike \in Nat \cup {None}
                               /\ \A k \in L.markets : k.ticker = m.ticker => k = m

Legs == 1..2
Deadline == CloseAt + Grace
StopAt == Deadline + StopGrace
Times == 0..StopAt

VARIABLES
  host, phase, clock,
  listing,    \* the listing the sweep read, None once the pair is made
  plan,       \* the sweep's ladders, the pair, the subscription, strangle off
  conn,       \* the connection of the current dial
  sup,        \* the supervisor task of the current dial
  failures,
  seq,        \* none seen, in step, or a frame skipped since
  books,      \* BookMirror: its suspect flag; hole: a change is missing (ghost)
  tops,       \* the age of the top the decision holds of a leg, None before the first
  missed,     \* ghost: for how long that top is known to miss a change
  st,         \* what the decision keeps: entered, standdown_emitted, skipped, ...
  fired       \* the decision taken, and for how long a change was known to be missing

run == <<host, phase, clock>>
link == <<conn, sup, failures>>
data == <<seq, books>>
decision == <<tops, missed, st, fired>>
wake == <<listing, plan>>
vars == <<run, link, data, decision, wake>>

\* ages are counted up to the first that is fresh for no frame; a suspect top has it too
Stale == Fresh + MaxLag + 1
Ages == 0..Stale
Older(age) == IF age = None \/ age = Stale THEN age ELSE age + 1

NoTop == [l \in Legs |-> None]
NoFire == [source |-> None, gap |-> None]

Init ==
  /\ host \in Hosts
  /\ phase = "wake" /\ clock = 0
  /\ listing \in Listings
  /\ plan = None
  /\ conn = "down" /\ sup = "none" /\ failures = 0
  /\ seq = "unseen"
  /\ books = [l \in Legs |-> [suspect |-> TRUE, hole |-> FALSE]]
  /\ tops = NoTop /\ missed = NoTop
  /\ st = [entered |-> FALSE, standdown |-> FALSE, skipped |-> FALSE, rescanned |-> FALSE]
  /\ fired = NoFire

Over == phase \in {"over", "stopped"}

-----------------------------------------------------------------------------
\* before the connection: sweep, anchor, pair, subscription, gate

\* wake.sweep, or discover_range_markets for a V3 window
sweep ==
  /\ phase = "wake"
  /\ IF host = "record"
     THEN LET live == discover_range_markets(listing) IN
          /\ plan' = None /\ listing' = None
          /\ phase' = IF live = {} THEN "over" ELSE "gate"
     ELSE LET found == discover_legs(listing) IN
          /\ plan' = [found |-> found, ladders |-> live_hourly_ladders(listing)]
          /\ phase' = IF found = StandDown THEN "over" ELSE "anchor"
          /\ UNCHANGED listing
  /\ UNCHANGED <<host, clock, link, data, decision>>

PollDeadline == IF OpenAt + PollFor < Deadline THEN OpenAt + PollFor ELSE Deadline

\* the plan of a paired window; without a quintile or against the ladder map of the
\* paired market's generation the strangle is off
_apply_outcome(A, pair, n) ==
  LET chosen == _chosen_hourly_leg(plan.ladders, plan.found.hourly, pair)
      vetted == _chosen_ladder_check(plan.ladders, plan.found.hourly, pair, listing.hour)
  IN plan' = [found |-> plan.found, ladders |-> plan.ladders, A |-> A, pair |-> pair,
              sub |-> _subscription_tickers(plan.found.fifteen, chosen, pair, n),
              off |-> ~vetted \/ ~pair.quintile]

Anchor == (CHOOSE m \in plan.found.fifteen : TRUE).ticker

\* the strike materialises some time after the open, with a trailing tape or without;
\* the pair is made over all live generations
_resolve_anchor ==
  \E A \in Anchors : \E tape \in BOOLEAN :
    LET pool == UNION plan.ladders
        pair == IF tape THEN compute_window_stats(A, Anchor, pool, TRUE)
                ELSE fallback_pair(A, Anchor, pool)
    IN IF pair.high = None
       THEN phase' = "over" /\ UNCHANGED wake
       ELSE \E n \in Limits : _apply_outcome(A, pair, n) /\ phase' = "paired" /\ UNCHANGED listing

\* the box takes the selected generation, whatever its step
_resolve_box_anchor ==
  /\ plan' = [off |-> TRUE] /\ listing' = None
  /\ phase' = IF Strikes(plan.found.hourly) = {} THEN "over" ELSE "gate"

\* at the poll deadline the window stands down
PollAnchor ==
  /\ phase = "anchor" /\ clock >= OpenAt
  /\ \/ host = "flip" /\ _resolve_anchor
     \/ host = "box" /\ _resolve_box_anchor
     \/ clock >= PollDeadline /\ phase' = "over" /\ UNCHANGED wake
  /\ UNCHANGED <<host, clock, link, data, decision>>

\* the recorder is built; of the plan only the strangle gate is read from here on
BuildRecorder ==
  /\ phase = "paired"
  /\ phase' = "gate"
  /\ plan' = [off |-> plan.off] /\ listing' = None
  /\ UNCHANGED <<host, clock, link, data, decision>>

\* the first dial waits until the leg is about to open
_await_connect_gate ==
  /\ phase = "gate" /\ clock >= OpenAt - 1
  /\ phase' = "loop"
  /\ UNCHANGED <<host, clock, link, data, decision, wake>>

-----------------------------------------------------------------------------
\* the dial loop

Forced == conn \in {"dialing", "open", "closing"}   \* the event loop is not blocked by the mint

\* a dial starts only before the deadline
Dial ==
  /\ phase = "loop" /\ conn = "down"
  /\ IF clock >= Deadline
     THEN phase' = "over" /\ UNCHANGED link
     ELSE /\ conn' = "minting" /\ sup' = "watch"
          /\ UNCHANGED <<phase, failures>>
  /\ UNCHANGED <<host, clock, data, decision, wake>>

\* ws_connect_params: a synchronous request that holds the event loop
Mint ==
  /\ conn = "minting" /\ phase = "loop"
  /\ \E ok \in BOOLEAN : conn' = IF ok THEN "dialing" ELSE "failed"
  /\ UNCHANGED <<run, sup, failures, data, decision, wake>>

connect ==
  /\ conn = "dialing" /\ phase = "loop"
  /\ \/ conn' = "open" /\ seq' = "unseen"
     \/ conn' = "failed" /\ UNCHANGED seq
  /\ UNCHANGED <<run, sup, failures, books, decision, wake>>

\* force_close: without a live socket nothing is closed
force_close == conn' = IF conn = "open" THEN "closing" ELSE conn

\* the deadline, else what the gauges make of the feed
watchdog_action == IF clock >= Deadline THEN {"deadline"} ELSE {"force_close", "continue"}

\* a tick of the supervisor.  run_recording keeps forcing the close until the dial
\* ends; _dial_loop's supervisor returns after the first try.
Supervise ==
  /\ phase = "loop" /\ Forced
  /\ \/ sup = "watch" /\ \E act \in watchdog_action : act # "continue"
     \/ sup = "forcing" /\ conn # "closing"
  /\ sup' = IF host = "record" THEN "forcing" ELSE "returned"
  /\ force_close
  /\ UNCHANGED <<run, failures, data, decision, wake>>

\* the close handshake ends, or the exchange drops the socket
Closed ==
  /\ conn \in {"closing", "open"} /\ phase = "loop"
  /\ conn' = "ended"
  /\ UNCHANGED <<run, sup, failures, data, decision, wake>>

\* asyncio.wait_for at deadline + slack (run_recording only)
WaitFor ==
  /\ host = "record" /\ phase = "loop" /\ Forced /\ clock >= Deadline + Slack
  /\ conn' = "failed"
  /\ UNCHANGED <<run, sup, failures, data, decision, wake>>

\* mutant: the books stay trusted over a reconnect
TrustBooks == UNCHANGED books

mark_all_suspect == books' = [l \in Legs |-> [books[l] EXCEPT !.suspect = TRUE]]

\* what the decision holds misses whatever changes while nothing is received
Outage == missed' = [l \in Legs |-> IF missed[l] = None /\ tops[l] # None THEN 0 ELSE missed[l]]

GivesUp(n) == n >= MaxRedials

\* the dial is over: its supervisor is awaited, the books are suspect, and the loop
\* dials again, waits (a failure in _dial_loop) or gives up
DialEnds ==
  /\ conn \in {"ended", "failed"} /\ phase = "loop"
  /\ sup' = "none" /\ Outage
  /\ IF clock >= Deadline
     THEN /\ phase' = (IF host = "record" THEN phase ELSE "over")
          /\ conn' = "down" /\ UNCHANGED <<books, failures>>
     ELSE /\ mark_all_suspect
          /\ IF host = "record" THEN conn' = "down" /\ UNCHANGED <<phase, failures>>
             ELSE IF conn = "ended" THEN conn' = "down" /\ failures' = 0 /\ UNCHANGED phase
             ELSE /\ failures' = failures + 1
                  /\ conn' = IF GivesUp(failures + 1) THEN "down" ELSE "backoff"
                  /\ phase' = IF GivesUp(failures + 1) THEN "over" ELSE phase
  /\ UNCHANGED <<host, clock, seq, tops, st, fired, wake>>

BackoffEnds ==
  /\ conn = "backoff" /\ phase = "loop"
  /\ conn' = "down"
  /\ UNCHANGED <<run, sup, failures, data, decision, wake>>

\* mutant: the hard stop runs in the event loop, which a blocked mint holds
StopInLoop ==
  /\ host = "record" /\ ~Over /\ clock >= StopAt /\ conn # "minting"
  /\ phase' = "stopped"
  /\ UNCHANGED <<host, clock, link, data, decision, wake>>

\* arm_hard_stop: a thread's timer, armed by the V3 windows only
HardStop ==
  /\ host = "record" /\ ~Over /\ clock >= StopAt
  /\ phase' = "stopped"
  /\ UNCHANGED <<host, clock, link, data, decision, wake>>

-----------------------------------------------------------------------------
\* frames

\* a forward skip of the sequence number is a gap; the first frame of a dial is none
_check_seq == [gap |-> seq = "skipped", seq |-> "instep"]

\* BookMirror.apply_snapshot heals; a delta that cannot be applied makes the book suspect
Folded(b, kind) ==
  CASE kind = "snapshot" -> [suspect |-> FALSE, hole |-> FALSE]
    [] kind = "malformed" -> [suspect |-> TRUE, hole |-> TRUE]
    [] OTHER -> b

\* judged at a frame that is lag ticks old
_leg_fresh(t, l, lag) == t[l] # None /\ t[l] < Stale /\ lag <= t[l] /\ t[l] - lag <= Fresh
_both_fresh(t, lag) == \A l \in Legs : _leg_fresh(t, l, lag)

Fires(lag, known, source) ==
  /\ st' = [st EXCEPT !.entered = TRUE]
  /\ fired' = LET since == { known[l] - lag : l \in { k \in Legs : known[k] # None } }
              IN [source |-> source, gap |-> IF since = {} THEN None ELSE Max(since)]

Waits == UNCHANGED <<st, fired>>
TooLate == st' = [st EXCEPT !.standdown = TRUE] /\ UNCHANGED fired
Left(lag) == CloseAt - (clock - lag)

\* signal.decide: one pair for each window, the sub-dollar flip first
decide(t, lag, known) ==
  IF st.entered THEN Waits
  ELSE IF Left(lag) < CutOff THEN TooLate
  ELSE IF Left(lag) > WindowLen \/ ~_both_fresh(t, lag) THEN Waits
  ELSE \/ Waits
       \/ Fires(lag, known, "sub_dollar")
       \/ ~plan.off /\ Fires(lag, known, "strangle")

\* box.decide_box: the first qualifying instant fires, or skips the hour below the
\* pin floor; after a skip one later instant is recorded as a rescan
decide_box(t, lag, known) ==
  \E v \in IF \A l \in Legs : t[l] # None THEN {"none", "low", "pinned"} ELSE {"none"} :
    LET inWindow == CutOff <= Left(lag) /\ Left(lag) <= WindowLen
        ripe == inWindow /\ v # "none" /\ _both_fresh(t, lag)
    IN IF st.skipped /\ ~st.rescanned
       THEN /\ st' = IF ripe /\ v = "pinned" THEN [st EXCEPT !.rescanned = TRUE] ELSE st
            /\ UNCHANGED fired
       ELSE IF st.entered THEN Waits
       ELSE IF Left(lag) < CutOff THEN TooLate
       ELSE IF ~ripe THEN Waits
       ELSE IF v = "low" THEN st' = [st EXCEPT !.entered = TRUE, !.skipped = TRUE] /\ UNCHANGED fired
       ELSE Fires(lag, known, "wide_box")

\* nothing more is decided: what the decision keeps of the books is dropped
Decided(s) == s.entered /\ (s.skipped => s.rescanned)

on_book_update(t, lag, known) ==
  IF host = "flip" THEN decide(t, lag, known) ELSE decide_box(t, lag, known)

\* the decision takes the mirror's top at the frame's server time
_drive(l, book, lag, known) ==
  IF Decided(st) THEN UNCHANGED decision
  ELSE LET t == [tops EXCEPT ![l] = IF book.suspect THEN Stale ELSE lag]
           lacks == [known EXCEPT ![l] = IF book.hole THEN @ ELSE None]
       IN /\ on_book_update(t, lag, lacks)
          /\ tops' = IF Decided(st') THEN NoTop ELSE t
          /\ missed' = IF Decided(st') THEN NoTop ELSE lacks

\* a frame without a server time is folded and drives nothing; nor does a V3 window's
\* drive anything here, whose decision is Ladder's
_drive_book(l, book, kind, lag, known) ==
  IF host = "record" THEN UNCHANGED decision
  ELSE IF kind = "unstamped"
  THEN /\ missed' = IF Decided(st) THEN missed ELSE known
       /\ UNCHANGED <<tops, st, fired>>
  ELSE _drive(l, book, lag, known)

\* handler and on_message: sequence, fold, drive; a gap closes afterwards
on_message ==
  /\ conn = "open" /\ phase = "loop"
  /\ \E l \in Legs, kind \in {"snapshot", "delta", "malformed", "unstamped"}, lag \in 0..MaxLag :
       LET gap == _check_seq.gap
           book == Folded(books[l], kind)
           seen == [books EXCEPT ![l] = book]
           Noticed(k) == missed[k] = None /\ (gap \/ kind = "malformed") /\ seen[k].hole
       IN /\ seq' = _check_seq.seq
          /\ conn' = IF gap THEN "closing" ELSE conn
          /\ books' = seen
          /\ _drive_book(l, book, kind, lag, [k \in Legs |-> IF Noticed(k) THEN 0 ELSE missed[k]])
  /\ UNCHANGED <<run, sup, failures, wake>>

\* a frame of the subscription is lost on the way
LoseFrame ==
  /\ conn = "open" /\ phase = "loop"
  /\ \E l \in Legs : books' = [books EXCEPT ![l].hole = TRUE]
  /\ seq' = IF seq = "unseen" THEN seq ELSE "skipped"
  /\ UNCHANGED <<run, link, decision, wake>>

\* time passes whatever the event loop does
Tick ==
  /\ clock < StopAt /\ ~Over /\ phase \notin {"wake", "paired"}
  /\ clock' = clock + 1
  /\ tops' = [l \in Legs |-> Older(tops[l])] /\ missed' = [l \in Legs |-> Older(missed[l])]
  /\ UNCHANGED <<host, phase, link, data, st, fired, wake>>

Next ==
  \/ sweep \/ PollAnchor \/ BuildRecorder \/ _await_connect_gate
  \/ Dial \/ Mint \/ connect \/ Supervise \/ Closed \/ WaitFor \/ DialEnds \/ BackoffEnds
  \/ HardStop \/ on_message \/ LoseFrame \/ Tick

Spec == Init /\ [][Next]_vars

\* The loop's own steps are scheduled, requests of the start-up are answered, a dial is
\* answered or times out, and a close handshake ends.  The mint, which may hang, the
\* exchange's frames and its dropping of the socket are not assumed to happen.
FairSpec ==
  /\ Spec
  /\ WF_vars(Tick) /\ WF_vars(HardStop)
  /\ WF_vars(sweep) /\ WF_vars(PollAnchor) /\ WF_vars(BuildRecorder)
  /\ WF_vars(_await_connect_gate) /\ WF_vars(Dial) /\ WF_vars(connect)
  /\ WF_vars(Supervise) /\ WF_vars(WaitFor) /\ WF_vars(DialEnds) /\ WF_vars(BackoffEnds)
  /\ WF_vars(conn = "closing" /\ Closed)

-----------------------------------------------------------------------------
TypeOK ==
  /\ host \in Hosts /\ clock \in Times
  /\ phase \in {"wake", "anchor", "paired", "gate", "loop", "over", "stopped"}
  /\ conn \in {"down", "minting", "dialing", "open", "closing", "ended", "failed", "backoff"}
  /\ sup \in {"none", "watch", "forcing", "returned"}
  /\ failures \in 0..MaxRedials
  /\ seq \in {"unseen", "instep", "skipped"}
  /\ books \in [Legs -> [suspect : BOOLEAN, hole : BOOLEAN]]
  /\ tops \in [Legs -> {None} \cup Ages] /\ missed \in [Legs -> {None} \cup Ages]
  \* a dial has its supervisor, and nothing supervises between two dials
  /\ (conn \in {"down", "backoff"}) = (sup = "none")

\* A change of the book that never arrived is not decided on for long: the gap closes the
\* connection, the books are suspect until their next snapshot, and what the decision
\* still holds of before grows stale (_check_seq, handler, mark_all_suspect,
\* apply_snapshot, _both_fresh, _leg_fresh).
HoleShortLived ==
  fired.gap # None => fired.gap <= Fresh

\* record_window.py:265: after a gap or a drop every book is suspect until a fresh snapshot,
\* so nothing is decided on what misses a change.
NoDecisionOverGap == fired.gap = None

\* A window of run_recording ends in time whatever happens to the socket, the dial or the
\* mint: supervisor, wait_for and hard stop together (the hang of 2026-09-23).
EndsInTime == [](host = "record" /\ phase = "loop" => <>Over)

\* run_window.py:2148: clean give-up at the deadline, for the V1 loop as well.
GivesUpAtDeadline == [](phase = "loop" => <>Over)

\* The pair is the anchor and the one strike nearest to it of all live generations that
\* settle together, both are subscribed under any cap, and the strangle is traded only if
\* the ladder of the paired market has the step of the hour (nearest_hourly_strike,
\* _subscription_tickers, _chosen_ladder_check).
PairIsVetted ==
  phase = "paired" =>
    LET pool == { m \in Hourly(listing) :
                    /\ m.settles /\ listing.window[m.gen] # None
                    /\ \E k \in Hourly(listing) : k.settles /\ k.gen = m.gen /\ ~k.dead }
        Partner(m) == m.ticker \in {plan.pair.high, plan.pair.low}
        Ladder(m) == Strikes({ k \in pool : k.gen = m.gen })
    IN /\ {plan.pair.high, plan.pair.low} \subseteq plan.sub
       /\ \E m \in pool :
            /\ Partner(m) /\ m.strike # None /\ m.strike # plan.A
            /\ plan.pair.high = m.ticker <=> m.strike > plan.A
            /\ \A k \in pool \ {m} : k.strike # None => Away(k, plan.A) > Away(m, plan.A)
            /\ ~plan.off => /\ Cardinality(Ladder(m)) > 1
                            /\ \A x \in Ladder(m) :
                                 (\E y \in Ladder(m) : y > x) => x + expected_step(listing.hour) \in Ladder(m)
=============================================================================
