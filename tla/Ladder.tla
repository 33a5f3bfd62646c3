------------------------------- MODULE Ladder -------------------------------
(***************************************************************************)
(* The V3.3 ladder at work: the pure core (LadderCore) driven by           *)
(* V33Driver, its order actions carried out concurrently by the executor,  *)
(* the exchange that rests, fills and cancels the orders, and the private  *)
(* fill feed.  Requests, responses and fill notices travel independently,  *)
(* so each kind is an unordered set.                                       *)
(*                                                                         *)
(* Simplifications: the exchange never refuses a DELETE and the executor   *)
(* never stands down; the executor's pre-place check of the resting list   *)
(* is left out, so what is shown here is what the core alone guarantees; a *)
(* notice of the fill feed may be late but is not lost.                    *)
(***************************************************************************)
EXTENDS LadderCore

CONSTANTS
  Contexts,     \* the market contexts a tick may bring
  Clocks,       \* what the timers may say when a decision is taken
  PollOn,       \* the order-status poll runs (armed belt-and-braces)
  Unreadable,   \* a cancel confirm may find the order status unreadable
  Crossing,     \* an amend may cross the book and fill as a taker
  Rejecting,    \* the exchange may reject a create or an amend
  MaxLots       \* bound on the lots filled at the exchange

ASSUME EnvironmentAssumption ==
  /\ Contexts \subseteq Context /\ Clocks \subseteq Now
  /\ PollOn \in BOOLEAN /\ Unreadable \in BOOLEAN /\ Crossing \in BOOLEAN
  /\ Rejecting \in BOOLEAN /\ MaxLots \in Nat

VARIABLES
  st,             \* V33State
  net,            \* order actions dispatched and not yet at the exchange
  resp,           \* responses of the exchange not yet seen by the executor
  inbox,          \* executor results not yet pumped into decide_v33
  cancel_pending, \* coids whose cancel waits for the create in flight
  rest_book,      \* price of each order the executor knows, by coid (RestBook)
  by_order_id,    \* order id -> current coid
  venue,          \* the exchange's orders, by order id (= the coid created with)
  ws,             \* fill notices not yet delivered
  polled          \* order ids an order-status poll under way asks about

exec == <<cancel_pending, rest_book, by_order_id>>
vars == <<st, net, resp, inbox, exec, venue, ws, polled>>

VenueOrder == [status : {"none", "resting", "gone"}, price : Int, left : Nat,
               filled : Nat, Sd : Buckets \cup {None}, coid : Coids \cup {None}]

NoOrder == [status |-> "none", price |-> 0, left |-> 0, filled |-> 0, Sd |-> None, coid |-> None]

OrderAck == [kind : {"ack"}, coid : Coids, oid : Coids]
OrderAmended == [kind : {"amended"}, oid : Coids, coid : Coids, price : Int, fill : Nat]
OrderCancelled == [kind : {"cancelled"}, oid : Coids \cup {None}, coid : Coids,
                   filled : Nat, price : Int, Sd : Buckets \cup {None}, via : Via]
FillNotice == [oid : Coids, coid : Coids, count : Nat, id : Nat, Sd : Buckets]

Init ==
  /\ st = NewState
  /\ net = {} /\ resp = {} /\ inbox = {} /\ ws = {}
  /\ cancel_pending = {} /\ polled = {}
  /\ rest_book = [c \in Coids |-> None]
  /\ by_order_id = [c \in Coids |-> None]
  /\ venue = [c \in Coids |-> NoOrder]

-----------------------------------------------------------------------------
(* The driver: one event pumped through decide_v33, its actions dispatched *)

_pump(s) ==
  /\ s.coid_seq <= MaxCoid
  /\ st' = [s EXCEPT !.out = {}, !.now = NewState.now]
  /\ net' = net \cup s.out

on_tick(c, now) ==
  /\ _pump(Tick([st EXCEPT !.now = now], c))
  /\ UNCHANGED <<resp, inbox, exec, venue, ws, polled>>

\* an executor result re-enters decide_v33
_ingest(e, now) ==
  /\ e \in inbox
  /\ inbox' = inbox \ {e}
  /\ LET s == [st EXCEPT !.now = now]
     IN \/ e.kind = "ack" /\ _pump(_apply_ack(s, e))
        \/ e.kind = "amended" /\ _pump(_apply_amended(s, e))
        \/ e.kind = "cancelled" /\ _pump(_apply_cancelled(s, e))
  /\ UNCHANGED <<resp, exec, venue, ws, polled>>

Owned(coid) == coid # None /\ rest_book[coid] # None

\* the RestBook record of a fill: by its coid, else by its order id
attribute(coid, oid) == IF Owned(coid) THEN coid ELSE by_order_id[oid]

FillOf(oid, coid, count, src, Sd) ==
  [oid |-> oid, coid |-> coid, count |-> count, src |-> src, price |-> rest_book[coid], Sd |-> Sd]

\* a private fill; one the executor cannot attribute is foreign and dropped
on_fill(m) ==
  /\ m \in ws
  /\ ws' = ws \ {m}
  /\ LET coid == attribute(m.coid, m.oid)
     IN IF coid = None THEN UNCHANGED <<st, net>>
        ELSE _pump(_apply_fill(st, FillOf(m.oid, coid, m.count, "ws", m.Sd)))
  /\ UNCHANGED <<resp, inbox, exec, venue, polled>>

\* _order_status_poll_v33: the ladder is read, then the exchange is asked
PollStarts ==
  /\ PollOn /\ polled = {}
  /\ polled' = { o.oid : o \in Acked(st.ladder) }
  /\ UNCHANGED <<st, net, resp, inbox, exec, venue, ws>>

\* the answer feeds what the exchange has filled beyond what is booked
on_poll_fill(oid) ==
  /\ oid \in polled
  /\ polled' = polled \ {oid}
  /\ LET coid == by_order_id[oid]
         delta == venue[oid].filled - st.booked[coid]
     IN IF delta <= 0 THEN UNCHANGED <<st, net>>
        ELSE _pump(_apply_fill(st, FillOf(oid, coid, delta, "poll", venue[oid].Sd)))
  /\ UNCHANGED <<resp, inbox, exec, venue, ws>>

\* the quoting window opens and closes
QuoteStarts == st.phase = "warmup" /\ st' = [st EXCEPT !.phase = "quoting"]
QuoteEnds == st.phase = "quoting" /\ st' = [st EXCEPT !.phase = "ended"]

Clock ==
  /\ QuoteStarts \/ QuoteEnds
  /\ UNCHANGED <<net, resp, inbox, exec, venue, ws, polled>>

-----------------------------------------------------------------------------
(* The executor and the exchange *)

NeverSent(coid) ==
  [kind |-> "cancelled", oid |-> None, coid |-> coid, filled |-> 0, price |-> None,
   Sd |-> None, via |-> "core"]

\* a create whose slot was cancelled meanwhile is not sent
SkipBeforePost(r) ==
  /\ r \in net /\ r.kind = "place" /\ r.coid \in cancel_pending
  /\ net' = net \ {r}
  /\ cancel_pending' = cancel_pending \ {r.coid}
  /\ inbox' = inbox \cup {NeverSent(r.coid)}
  /\ UNCHANGED <<st, resp, rest_book, by_order_id, venue, ws, polled>>

PostCreate(r) ==
  /\ r \in net /\ r.kind = "place" /\ r.coid \notin cancel_pending
  /\ net' = net \ {r}
  /\ venue' = [venue EXCEPT ![r.coid] = [status |-> "resting", price |-> r.price,
                 left |-> r.count, filled |-> 0, Sd |-> r.Sd, coid |-> r.coid]]
  /\ resp' = resp \cup {[kind |-> "ack", coid |-> r.coid, oid |-> r.coid]}
  /\ UNCHANGED <<st, inbox, exec, ws, polled>>

\* the exchange refuses the create; a deferred cancel has nothing to cancel
RejectCreate(r) ==
  /\ Rejecting
  /\ r \in net /\ r.kind = "place"
  /\ net' = net \ {r}
  /\ cancel_pending' = cancel_pending \ {r.coid}
  /\ inbox' = inbox \cup {NeverSent(r.coid)}
  /\ UNCHANGED <<st, resp, rest_book, by_order_id, venue, ws, polled>>

\* the executor learns of its create: it is owned from here; a cancel that was
\* deferred is sent now
CreateAcked(a) ==
  /\ a \in resp /\ a.kind = "ack"
  /\ resp' = resp \ {a}
  /\ rest_book' = [rest_book EXCEPT ![a.coid] = venue[a.oid].price]
  /\ by_order_id' = [by_order_id EXCEPT ![a.oid] = a.coid]
  /\ cancel_pending' = cancel_pending \ {a.coid}
  /\ IF a.coid \in cancel_pending
     THEN /\ net' = net \cup {[kind |-> "cancel", oid |-> a.oid, coid |-> a.coid, via |-> "ack"]}
          /\ UNCHANGED inbox    \* the ack of an order off the ladder changes nothing
     ELSE inbox' = inbox \cup {a} /\ UNCHANGED net
  /\ UNCHANGED <<st, venue, ws, polled>>

CreateInFlight(coid) ==
  \/ \E p \in net : p.kind = "place" /\ p.coid = coid
  \/ \E a \in resp : a.kind = "ack" /\ a.coid = coid

\* mutant: the cancel of a create in flight is reported done (the code before GATE C)
CancelUnackedNoop(r) ==
  /\ r \in net /\ r.kind = "cancel" /\ r.oid = None
  /\ net' = net \ {r}
  /\ inbox' = inbox \cup {NeverSent(r.coid)}
  /\ UNCHANGED <<st, resp, exec, venue, ws, polled>>

\* CANCEL_REST of an order the core has no id for: the executor may know it by
\* now, may still be creating it (the cancel waits), or may know nothing of it
CancelUnacked(r) ==
  /\ r \in net /\ r.kind = "cancel" /\ r.oid = None
  /\ \/ /\ Owned(r.coid)
        /\ net' = (net \ {r}) \cup
                    {[kind |-> "cancel", oid |-> r.coid, coid |-> r.coid, via |-> r.via]}
        /\ UNCHANGED <<inbox, cancel_pending>>
     \/ /\ ~Owned(r.coid) /\ CreateInFlight(r.coid)
        /\ net' = net \ {r}
        /\ cancel_pending' = cancel_pending \cup {r.coid}
        /\ UNCHANGED inbox
     \/ /\ ~Owned(r.coid) /\ ~CreateInFlight(r.coid)
        /\ net' = net \ {r}
        /\ inbox' = inbox \cup {NeverSent(r.coid)}
        /\ UNCHANGED cancel_pending
  /\ UNCHANGED <<st, resp, rest_book, by_order_id, venue, ws, polled>>

\* a DELETE resolved by status truth: the confirm carries the cumulative fill,
\* or 0 when the status of the order it took off the book cannot be read
Delete(r, readable) ==
  /\ r \in net /\ r.kind = "cancel" /\ r.oid # None
  /\ readable \/ (Unreadable /\ venue[r.oid].status = "resting")
  \* one slot lock per order id, held by an amend until its response
  /\ \A a \in resp : ~(a.kind = "amended" /\ a.oid = r.oid)
  /\ net' = net \ {r}
  /\ venue' = [venue EXCEPT ![r.oid].status = "gone", ![r.oid].left = 0]
  /\ inbox' = inbox \cup
       {[kind |-> "cancelled", oid |-> r.oid, coid |-> r.coid,
         filled |-> IF readable THEN venue[r.oid].filled ELSE 0,
         price |-> rest_book[r.coid], Sd |-> venue[r.oid].Sd, via |-> r.via]}
  /\ UNCHANGED <<st, resp, exec, ws, polled>>

\* a DELETE of an order that already has one in flight is not repeated
DuplicateDelete(r) ==
  /\ r \in net /\ r.kind = "cancel" /\ r.oid # None
  /\ \E q \in net \ {r} : q.kind = "cancel" /\ q.oid = r.oid
  /\ net' = net \ {r}
  /\ UNCHANGED <<st, resp, inbox, exec, venue, ws, polled>>

\* the exchange re-prices the order, perhaps crossing n lots as a taker
PostAmend(r, n) ==
  /\ r \in net /\ r.kind = "amend"
  /\ venue[r.oid].status = "resting" /\ n <= venue[r.oid].left
  /\ n = 0 \/ Crossing
  /\ net' = net \ {r}
  /\ venue' = [venue EXCEPT ![r.oid] =
       [venue[r.oid] EXCEPT !.price = r.price, !.coid = r.new, !.left = @ - n,
                            !.filled = @ + n, !.status = IF venue[r.oid].left = n THEN "gone" ELSE @]]
  /\ ws' = IF n = 0 THEN ws
           ELSE ws \cup {[oid |-> r.oid, coid |-> r.new, count |-> n,
                         id |-> venue[r.oid].filled + n, Sd |-> venue[r.oid].Sd]}
  /\ resp' = resp \cup
       {[kind |-> "amended", oid |-> r.oid, coid |-> r.new, price |-> r.price, fill |-> n]}
  /\ UNCHANGED <<st, inbox, exec, polled>>

\* the executor learns of its amend: the record moves to the new coid
AmendConfirmed(a) ==
  /\ a \in resp /\ a.kind = "amended"
  /\ resp' = resp \ {a}
  /\ rest_book' = [rest_book EXCEPT ![a.coid] = a.price]
  /\ by_order_id' = [by_order_id EXCEPT ![a.oid] = a.coid]
  /\ inbox' = inbox \cup {a}
  /\ UNCHANGED <<st, net, cancel_pending, venue, ws, polled>>

\* a failed amend falls back to a cancel (a gone order resolves by its status,
\* which is what the DELETE of a gone order does)
AmendFails(r) ==
  /\ r \in net /\ r.kind = "amend"
  /\ Rejecting \/ venue[r.oid].status # "resting"
  /\ net' = (net \ {r}) \cup {[kind |-> "cancel", oid |-> r.oid, coid |-> r.coid, via |-> "amend"]}
  /\ UNCHANGED <<st, resp, inbox, exec, venue, ws, polled>>

FilledLots == MapThenSumSet(LAMBDA oid : venue[oid].filled, Coids)

\* a taker hits a resting order
VenueFill(oid, n) ==
  /\ FilledLots + n <= MaxLots
  /\ venue[oid].status = "resting" /\ n <= venue[oid].left
  /\ venue' = [venue EXCEPT ![oid] =
       [venue[oid] EXCEPT !.left = @ - n, !.filled = @ + n,
                          !.status = IF venue[oid].left = n THEN "gone" ELSE @]]
  /\ ws' = ws \cup {[oid |-> oid, coid |-> venue[oid].coid, count |-> n,
                     id |-> venue[oid].filled + n, Sd |-> venue[oid].Sd]}
  /\ UNCHANGED <<st, net, resp, inbox, exec, polled>>

-----------------------------------------------------------------------------
MaxLot == Max({ RungLots[k] : k \in Rungs })

Executor ==
  \/ \E r \in net : \/ SkipBeforePost(r) \/ PostCreate(r) \/ RejectCreate(r)
                    \/ CancelUnacked(r) \/ AmendFails(r) \/ DuplicateDelete(r)
                    \/ \E readable \in BOOLEAN : Delete(r, readable)
                    \/ \E n \in 0..MaxLot : PostAmend(r, n)
  \/ \E a \in resp : CreateAcked(a) \/ AmendConfirmed(a)

Ticking == \E c \in Contexts, now \in Clocks : on_tick(c, now)

Ingesting == \E e \in inbox, now \in Clocks : _ingest(e, now)

Next ==
  \/ Ticking
  \/ Ingesting
  \/ \E m \in ws : on_fill(m)
  \/ PollStarts
  \/ \E oid \in polled : on_poll_fill(oid)
  \/ Clock
  \/ Executor
  \/ \E oid \in Coids, n \in 1..MaxLot : VenueFill(oid, n)

Spec == Init /\ [][Next]_vars

\* the clock moves on, the driver ticks with it, the executor's coroutines run to
\* their end (every HTTP call is bounded by a timeout) and their results are pumped
FairSpec ==
  Spec /\ WF_vars(Clock) /\ WF_vars(Ticking) /\ WF_vars(Ingesting) /\ WF_vars(Executor)

-----------------------------------------------------------------------------
(* Properties *)

\* Type invariant: every variable holds the records the code gives it; in
\* particular outstanding_cancels never goes below zero.
TypeOK ==
  /\ st \in State
  /\ net \subseteq Action
  /\ resp \subseteq OrderAck \cup OrderAmended
  /\ inbox \subseteq OrderAck \cup OrderAmended \cup OrderCancelled
  /\ cancel_pending \subseteq Coids /\ polled \subseteq Coids
  /\ rest_book \in [Coids -> Int]
  /\ by_order_id \in [Coids -> Coids \cup {None}]
  /\ venue \in [Coids -> VenueOrder]
  /\ ws \subseteq FillNotice

Resting == { oid \in Coids : venue[oid].status = "resting" }

OnLadder(oid) == \E o \in st.ladder : o.oid = oid \/ (o.oid = None /\ o.coid = oid)

CancelUnderWay(oid) ==
  \/ \E r \in net : r.kind = "cancel" /\ (r.oid = oid \/ r.coid = oid)
  \/ oid \in cancel_pending

\* No order rests unowned: what rests at the exchange is on the core's ladder or
\* has a cancel under way, even when the slot was cancelled while its create was
\* in flight (GATE C of the executor; the naked fill of 2026-10-03 02:00Z was two
\* rests owned by nobody).
NoUnownedRest == \A oid \in Resting : OnLadder(oid) \/ CancelUnderWay(oid)

\* A re-place waits over an empty ladder: while awaiting_replace is armed nothing
\* is quoted and nothing rolls (check_invariants: "rolls and bucket-change cannot
\* be in flight together").
AwaitingClear == st.awaiting_replace => st.ladder = {} /\ st.rolls = {}

\* check_invariants: never two rests of the ladder on one price.
LadderPriceUnique == \A x, y \in st.ladder : x # y => x.price # y.price

\* _cancel_all_then_replace (gate D): a create is never sent at the price of an
\* order of ours that the core has cancelled and that still rests.
CancelAllNotRaced ==
  \A r \in net : r.kind = "place" =>
    \A oid \in Resting : venue[oid].price = r.price /\ venue[oid].Sd = r.Sd => OnLadder(oid)

\* Once quoting has ended or the core has stood down, a decision never asks for a
\* create or an amend again: also not the re-place of a roll whose amend failed
\* (GATE C(iii) in _apply_cancelled).
NoQuoteAfterEnd ==
  [][st.phase = "ended" \/ st.stood_down =>
       \A r \in net' \ net : r.kind = "cancel"]_vars

FilledIn(b) == MapThenSumSet(LAMBDA oid : IF venue[oid].Sd = b THEN venue[oid].filled ELSE 0, Coids)

\* No lot is hedged twice, nor in a bucket it was not filled in: the private fill,
\* the poll and the cancel confirm may all report the same lots (DEDUPE in
\* _apply_orphan_fill, D1 in _book_rung_fill).
HedgedAtMostOnce == \A b \in Buckets : st.hedged[b] <= FilledIn(b)

Quiet == net = {} /\ resp = {} /\ inbox = {} /\ ws = {} /\ polled = {}

\* No naked fill: once the ladder is down and nothing is in flight, every lot
\* filled at the exchange has been handed to the wings, whichever report of it
\* came first or was dropped as foreign (GATE A of _apply_fill).
NoNakedFill == Quiet /\ st.ladder = {} => \A b \in Buckets : st.hedged[b] >= FilledIn(b)

\* The window ends flat: after quote end nothing of ours keeps resting.
EventuallyFlat == (st.phase = "ended") ~> [](Resting = {})

\* Every tracked cancel is accounted for in the end, so a re-place never waits
\* forever on outstanding_cancels.
OutstandingDrains == [](st.outstanding_cancels > 0 => <>(st.outstanding_cancels = 0))
=============================================================================
