----------------------------- MODULE RestProofs -----------------------------
(***************************************************************************)
(* Proofs about Rest: the single rest of the V3.2 strategy behaves as      *)
(* RestSlot says, the pump leaves no hold behind, and at an allotment of   *)
(* one lot no rest is forgotten and no fill is lost or booked twice -- for *)
(* every set of buckets and contexts, and any number of orders, ticks,     *)
(* rejects and faults.                                                     *)
(***************************************************************************)
EXTENDS Rest, TLAPS, FiniteSetTheorems, SequenceTheorems

Spots  == Buckets \cup {None}
Batch  == [n : Nat, taken : BOOLEAN, completed : BOOLEAN, one_legged : BOOLEAN,
           legs : [Sides -> {"none", "pending", "filled", "unfilled"}]]
Action == [kind : {"place", "cancel", "amend", "take"}, coid : Coids \cup {None},
           oid : Oids \cup {None}, count : Nat, new : Coids \cup {None}]

Take == {a \in Action : a.kind = "take"}

OrderEvent == [kind : {"ack", "amended", "cancelled", "fill"}, coid : Coids \cup {None},
               oid : Oids \cup {None}, n : Nat]
LateEvent  == [kind : {"late"}, coid : Coids, oid : Spots, n : Nat]
WingEvent  == [kind : {"wings"}, sent : SUBSET (Nat \X Sides), got : SUBSET (Nat \X Sides)]
AnyEvent   == OrderEvent \cup LateEvent \cup WingEvent

State ==
  [contracts : Nat \ {0}, remaining : Nat, phase : {"warmup", "window", "past", "cutoff"},
   live : Order, pending : Order, bucket : Spots, done : BOOLEAN, stood_down : BOOLEAN,
   amend : BOOLEAN, cancel : BOOLEAN, awaiting : BOOLEAN, booked : [Coids -> Nat],
   cancel_ctx : [Oids -> Coids \cup {None}], cross : [Oids -> Nat], batches : Seq(Batch),
   coid_seq : Nat, spot : Spots, wings : BOOLEAN, lock : BOOLEAN, out : Seq(Action)]

Record == [oid : Oids \cup {None}, count : Nat, bucket : Spots, confirmed : BOOLEAN,
           status : {"none", "live", "unknown", "filled", "amended", "cancelled", "cancel_failed"}]

Executor == [book : [Coids -> Record], by_oid : [Oids -> Coids \cup {None}],
             gone : Oids \cup {None}, rejects : Nat, down : BOOLEAN, swept : BOOLEAN]

VenueOrder == [coid : Coids \cup {None}, rem : Nat, filled : Nat, open : BOOLEAN]

RestTypeOK ==
  /\ mode \in {"armed", "dry"}
  /\ core \in State /\ core.out = <<>> /\ core.coid_seq <= MaxCoids
  /\ exec \in Executor
  /\ venue \in Seq(VenueOrder)
  /\ Len(venue) <= MaxOrders
  /\ notices \subseteq [coid : Coids, oid : DOMAIN venue, n : Nat \ {0}, id : Nat]
  /\ queue \in Seq(AnyEvent)
  /\ acts \in Seq(Action)
  /\ ticks \in Nat /\ faults \in Nat

-----------------------------------------------------------------------------
(* One request at a time *)

\* the order actions still to execute, and the order events still to decide
RequestsOf(s) == {a \in {s[i] : i \in DOMAIN s} : a.kind # "take"}
ReportsOf(q)  == {e \in {q[i] : i \in DOMAIN q} : e.kind # "wings"}
Requests == RequestsOf(acts)
Reports  == ReportsOf(queue)

\* a decision asks for wings first and for an order last; of the order events there is one
AskedLast(s) == \A i \in DOMAIN s : s[i].kind # "take" => i = Len(s)
OneReport(q) == \A i, j \in DOMAIN q : q[i].kind # "wings" /\ q[j].kind # "wings" => i = j

\* at most one of them is under way
OneRequest == AskedLast(acts) /\ OneReport(queue) /\ (Requests = {} \/ Reports = {})

\* nothing holds the quoting back
Clear == core.pending = NoOrder /\ ~core.cancel /\ ~core.amend

\* a create was decided on a book and a core that are free for it
Placing(a) ==
  /\ a.coid = core.coid_seq /\ a.coid # None /\ a.oid = None
  /\ core.pending = [coid |-> a.coid, oid |-> None, count |-> a.count]
  /\ core.live = NoOrder /\ ~core.cancel /\ ~core.amend
  /\ core.phase = "window" /\ ~core.stood_down /\ ~exec.down

\* the core has let go of an order whose cancel is sent
Cancelling(a) ==
  /\ core.pending = NoOrder /\ core.live = NoOrder /\ ~core.amend
  /\ a.coid # None /\ a.oid # None

Amending(a) ==
  /\ core.live.oid = a.oid /\ core.live.coid = a.coid /\ a.coid # None /\ a.oid # None
  /\ a.new = core.coid_seq /\ a.new # a.coid /\ a.new # None
  /\ core.pending = NoOrder /\ ~core.cancel

RequestFits ==
  \A a \in Requests :
    /\ a.kind = "place" => Placing(a)
    /\ a.kind = "cancel" => Cancelling(a)
    /\ a.kind = "amend" => Amending(a)

\* what an answer finds of its request
ReportFits ==
  \A e \in Reports :
    /\ e.kind = "ack" =>
         /\ core.pending.coid = e.coid /\ e.coid # None /\ e.oid # None /\ core.pending.oid = None
         /\ core.live = NoOrder /\ ~core.amend
    /\ e.kind = "cancelled" =>
         IF e.oid = None THEN core.pending.oid = None /\ core.live = NoOrder /\ e.n = 0
                         ELSE core.pending = NoOrder
    /\ e.kind = "amended" =>
         /\ core.pending = NoOrder /\ ~core.cancel /\ core.live.oid = e.oid
         /\ e.oid # None /\ e.coid # None /\ e.coid <= core.coid_seq
    /\ e.kind \in {"fill", "late"} => Clear

\* the allotment is filled once and for all, and the executor's latch reaches the core
Latched ==
  /\ core.done => /\ core.live = NoOrder /\ core.pending = NoOrder
                  /\ Requests = {} /\ \A e \in Reports : e.kind = "late"
  /\ exec.down /\ acts = <<>> => core.stood_down

HoldInv ==
  /\ OneRequest /\ RequestFits /\ ReportFits /\ Latched
  /\ Requests = {} /\ Reports = {} => Clear
  /\ core.live # NoOrder => core.live.oid # None /\ core.live.coid # None
  /\ core.live.coid <= core.coid_seq /\ core.pending.coid <= core.coid_seq

-----------------------------------------------------------------------------
(* Where an order of ours can be *)

\* an order of this process that rests, or one of the rest book whose end is not confirmed
Loose(o) ==
  \/ venue[o].open /\ venue[o].coid # None
  \/ exec.by_oid[o] # None /\ ~exec.book[exec.by_oid[o]].confirmed

\* the core knows it, is cancelling it or is about to hear of it, or quotes no more
Tracked(o) ==
  \/ o = core.live.oid \/ core.done \/ exec.down
  \/ \E a \in Requests : a.kind = "cancel" /\ a.oid = o
  \/ \E e \in Reports : e.kind = "ack" /\ e.oid = o

\* the client id that a create or an amend under way brings
Fresh(a) == IF a.kind = "place" THEN {a.coid} ELSE IF a.kind = "amend" THEN {a.new} ELSE {}

Booked ==
  /\ \A o \in Oids : exec.by_oid[o] <= core.coid_seq
  /\ \A o \in Oids \ DOMAIN venue : exec.by_oid[o] = None
  /\ \A o \in DOMAIN venue : exec.by_oid[o] # None => o \in Own
  /\ \A a \in Requests, o \in Oids : exec.by_oid[o] \notin Fresh(a)

\* an order that is spoken of is one of the exchange's, and of the rest book
Known ==
  /\ core.live # NoOrder => core.live.oid \in DOMAIN venue /\ exec.by_oid[core.live.oid] # None
  /\ \A a \in Requests : a.kind = "cancel" => a.oid \in DOMAIN venue /\ exec.by_oid[a.oid] # None
  /\ \A e \in Reports : e.kind = "ack" => e.oid \in DOMAIN venue /\ exec.by_oid[e.oid] # None

SlotInv ==
  IF mode = "dry" THEN venue = <<>> /\ notices = {}
  ELSE /\ Booked /\ Known
       /\ \A o, p \in Open \cap Own : o = p
       /\ \A o \in DOMAIN venue : Loose(o) => Tracked(o)
       /\ \A a \in Requests : a.kind = "place" => \A o \in DOMAIN venue : ~Loose(o)
       /\ \A e \in Reports : e.kind = "cancelled" /\ e.oid # None =>
            e.oid \in DOMAIN venue /\ (exec.down \/ ~Loose(e.oid))

IInv == RestTypeOK /\ HoldInv /\ SlotInv

-----------------------------------------------------------------------------
(* At an allotment of one lot *)

\* an order of this process that rests or was filled
Hot(o) == o \in Own /\ (venue[o].open \/ venue[o].filled = 1)

\* a lot is filled or not, and of the orders of this process at most one rests or was filled
OneLot ==
  /\ \A o \in Own : venue[o].filled + venue[o].rem = 1 /\ (venue[o].open => venue[o].filled = 0)
  /\ \A o, p \in DOMAIN venue : Hot(o) /\ Hot(p) => o = p
  /\ \A a \in Requests : a.kind = "place" => \A o \in DOMAIN venue : ~Hot(o)
  /\ \A c \in Coids : exec.book[c].count <= 1
  /\ \A m \in notices : m.n = 1 /\ m.oid \in Own /\ venue[m.oid].filled = 1
  /\ \A a \in Requests : a.kind \in {"place", "amend"} => a.count = 1

\* the lot was filled on an order of this process
Filled == \E o \in Own : venue[o].filled = 1

\* the core has booked it once, or not yet
Unbooked(s) ==
  /\ ~s.done /\ s.remaining = 1 /\ s.batches = <<>>
  /\ \A c \in Coids : s.booked[c] = 0
  /\ \A o \in Oids : s.cross[o] = 0

OneBooked(s) == s.done /\ Len(s.batches) = 1 /\ s.batches[1].n = 1

CoreBooked == (OneBooked(core) /\ Filled) \/ Unbooked(core)

\* a report counts the lot that was filled, and that of a cancel is about an order off the book
ReportLot(e) ==
  /\ e.n \in {0, 1} /\ (e.kind = "late" => e.n = 1) /\ (e.kind = "ack" => e.n = 0)
  /\ e.n = 1 => Filled
  /\ e.kind = "cancelled" /\ e.oid # None /\ ~exec.down =>
       e.oid \in Own /\ ~venue[e.oid].open /\ e.n = venue[e.oid].filled

\* a lot that was filled is booked, or its order is one that the core still asks about
Asked(o) ==
  \/ core.done \/ exec.down \/ o = core.live.oid
  \/ \E a \in Requests : a.kind = "cancel" /\ a.oid = o
  \/ \E e \in Reports : e.kind = "ack" /\ e.oid = o
  \/ \E e \in Reports : e.kind = "cancelled" /\ e.oid = o /\ e.n = 1 /\ core.cancel_ctx[o] # None

Lots ==
  /\ OneLot /\ CoreBooked
  /\ \A e \in Reports : ReportLot(e)
  /\ \A o \in Own : venue[o].filled = 1 => Asked(o)
  /\ \A a \in Requests : a.kind = "cancel" => core.cancel_ctx[a.oid] # None

\* a dry window books nothing
DryLots == Unbooked(core) /\ \A e \in Reports : e.kind # "late" /\ e.n = 0

LotInv == core.contracts = 1 => IF mode = "dry" THEN DryLots ELSE Lots

-----------------------------------------------------------------------------
(* The actions and the events, as sequences *)

\* An executed take leaves the requests as they are.
LEMMA TakeDone ==
  ASSUME NEW s \in Seq(Action), s # <<>>, AskedLast(s), Head(s).kind = "take"
  PROVE  Tail(s) \in Seq(Action) /\ AskedLast(Tail(s)) /\ RequestsOf(Tail(s)) = RequestsOf(s)
<1>1. /\ Tail(s) \in Seq(Action) /\ Len(s) \in Nat \ {0} /\ Len(Tail(s)) = Len(s) - 1
      /\ \A i \in 1..Len(s) - 1 : Tail(s)[i] = s[i + 1]
      /\ Head(s) = s[1] /\ DOMAIN s = 1..Len(s) /\ DOMAIN Tail(s) = 1..Len(s) - 1
  OBVIOUS
<1>2. AskedLast(Tail(s))
  BY <1>1 DEF AskedLast
<1>3. \A i \in 1..Len(s) : i # 1 => i - 1 \in 1..Len(s) - 1 /\ Tail(s)[i - 1] = s[i]
  BY <1>1
<1>4. \A i \in 1..Len(s) - 1 : i + 1 \in 1..Len(s) /\ Tail(s)[i] = s[i + 1]
  BY <1>1
<1>5. \A x : x \in RequestsOf(s) => x \in RequestsOf(Tail(s))
  <2> SUFFICES ASSUME NEW i \in DOMAIN s, s[i].kind # "take" PROVE s[i] \in RequestsOf(Tail(s))
    BY DEF RequestsOf
  <2>1. i - 1 \in DOMAIN Tail(s) /\ Tail(s)[i - 1] = s[i]
    BY <1>1, <1>3
  <2> QED
    BY <2>1 DEF RequestsOf
<1>6. \A x : x \in RequestsOf(Tail(s)) => x \in RequestsOf(s)
  BY <1>1, <1>4 DEF RequestsOf
<1> QED
  BY <1>1, <1>2, <1>5, <1>6

\* A request is the last action.
LEMMA RequestDone ==
  ASSUME NEW s \in Seq(Action), s # <<>>, AskedLast(s), Head(s).kind # "take"
  PROVE  Tail(s) = <<>> /\ RequestsOf(s) = {Head(s)}
<1>1. /\ Len(s) \in Nat \ {0} /\ Head(s) = s[1] /\ DOMAIN s = 1..Len(s)
  OBVIOUS
<1>2. Len(s) = 1
  BY <1>1 DEF AskedLast
<1>3. Tail(s) = <<>>
  <2>1. Tail(s) \in Seq(Action) /\ Len(Tail(s)) = 0
    BY <1>2
  <2> QED
    BY <2>1, EmptySeq
<1>4. {s[i] : i \in DOMAIN s} = {Head(s)}
  BY <1>1, <1>2
<1> QED
  BY <1>3, <1>4 DEF RequestsOf

\* Takes are no requests.
LEMMA TakesOnly ==
  ASSUME NEW s \in Seq(Take)
  PROVE  s \in Seq(Action) /\ AskedLast(s) /\ RequestsOf(s) = {}
<1>1. \A i \in DOMAIN s : s[i] \in Take
  OBVIOUS
<1>2. s \in Seq(Action)
  BY DEF Take
<1> QED
  BY <1>1, <1>2 DEF AskedLast, RequestsOf, Take

\* A decision that asks for an order asks for it last.
LEMMA RequestLast ==
  ASSUME NEW s \in Seq(Take), NEW a \in Action, a.kind # "take"
  PROVE  Append(s, a) \in Seq(Action) /\ AskedLast(Append(s, a)) /\ RequestsOf(Append(s, a)) = {a}
<1> DEFINE t == Append(s, a)
<1>1. s \in Seq(Action) /\ \A i \in DOMAIN s : s[i].kind = "take"
  BY DEF Take
<1>2. /\ t \in Seq(Action) /\ Len(t) = Len(s) + 1 /\ Len(s) \in Nat /\ DOMAIN t = 1..Len(s) + 1
      /\ t[Len(s) + 1] = a /\ \A i \in 1..Len(s) : t[i] = s[i]
  BY <1>1
<1>3. \A i \in DOMAIN t : i = Len(s) + 1 \/ t[i].kind = "take"
  BY <1>1, <1>2
<1> HIDE DEF t
<1>4. AskedLast(t) /\ RequestsOf(t) = {a}
  BY <1>2, <1>3 DEF AskedLast, RequestsOf
<1> QED
  BY <1>2, <1>4 DEF t

\* Deciding a wing event leaves the reports as they are.
LEMMA WingsHeard ==
  ASSUME NEW q \in Seq(AnyEvent), q # <<>>, OneReport(q), Head(q).kind = "wings"
  PROVE  Tail(q) \in Seq(AnyEvent) /\ OneReport(Tail(q)) /\ ReportsOf(Tail(q)) = ReportsOf(q)
<1>1. /\ Tail(q) \in Seq(AnyEvent) /\ Len(q) \in Nat \ {0} /\ Len(Tail(q)) = Len(q) - 1
      /\ \A i \in 1..Len(q) - 1 : Tail(q)[i] = q[i + 1]
      /\ Head(q) = q[1] /\ DOMAIN q = 1..Len(q) /\ DOMAIN Tail(q) = 1..Len(q) - 1
  OBVIOUS
<1>2. OneReport(Tail(q))
  <2> SUFFICES ASSUME NEW i \in DOMAIN Tail(q), NEW j \in DOMAIN Tail(q),
                      Tail(q)[i].kind # "wings", Tail(q)[j].kind # "wings"
               PROVE  i = j
    BY DEF OneReport
  <2>1. i + 1 \in DOMAIN q /\ j + 1 \in DOMAIN q /\ q[i + 1].kind # "wings" /\ q[j + 1].kind # "wings"
    BY <1>1
  <2>2. i + 1 = j + 1
    BY <2>1 DEF OneReport
  <2> QED
    BY <1>1, <2>2
<1>3. \A i \in 1..Len(q) : i # 1 => i - 1 \in 1..Len(q) - 1 /\ Tail(q)[i - 1] = q[i]
  BY <1>1
<1>4. \A i \in 1..Len(q) - 1 : i + 1 \in 1..Len(q) /\ Tail(q)[i] = q[i + 1]
  BY <1>1
<1>5. \A x : x \in ReportsOf(q) => x \in ReportsOf(Tail(q))
  <2> SUFFICES ASSUME NEW i \in DOMAIN q, q[i].kind # "wings" PROVE q[i] \in ReportsOf(Tail(q))
    BY DEF ReportsOf
  <2>1. i - 1 \in DOMAIN Tail(q) /\ Tail(q)[i - 1] = q[i]
    BY <1>1, <1>3
  <2> QED
    BY <2>1 DEF ReportsOf
<1>6. \A x : x \in ReportsOf(Tail(q)) => x \in ReportsOf(q)
  BY <1>1, <1>4 DEF ReportsOf
<1> QED
  BY <1>1, <1>2, <1>5, <1>6

\* The report is decided: there is none left.
LEMMA ReportHeard ==
  ASSUME NEW q \in Seq(AnyEvent), q # <<>>, OneReport(q), Head(q).kind # "wings"
  PROVE  /\ Tail(q) \in Seq(AnyEvent) /\ OneReport(Tail(q))
         /\ ReportsOf(q) = {Head(q)} /\ ReportsOf(Tail(q)) = {}
<1>1. /\ Tail(q) \in Seq(AnyEvent) /\ Len(q) \in Nat \ {0} /\ Len(Tail(q)) = Len(q) - 1
      /\ \A i \in 1..Len(q) - 1 : Tail(q)[i] = q[i + 1]
      /\ Head(q) = q[1] /\ DOMAIN q = 1..Len(q) /\ DOMAIN Tail(q) = 1..Len(q) - 1
  OBVIOUS
<1>2. \A i \in DOMAIN q : q[i].kind # "wings" => i = 1
  BY <1>1 DEF OneReport
<1>3. \A i \in DOMAIN Tail(q) : Tail(q)[i].kind = "wings"
  <2> SUFFICES ASSUME NEW i \in DOMAIN Tail(q), Tail(q)[i].kind # "wings" PROVE FALSE
    OBVIOUS
  <2>1. i + 1 \in DOMAIN q /\ q[i + 1].kind # "wings" /\ i + 1 # 1
    BY <1>1
  <2> QED
    BY <1>2, <2>1
<1>4. ReportsOf(Tail(q)) = {}
  BY <1>3 DEF ReportsOf
<1>5. ReportsOf(q) = {Head(q)}
  <2>1. \A e \in ReportsOf(q) : e = Head(q)
    BY <1>1, <1>2 DEF ReportsOf
  <2>2. Head(q) \in ReportsOf(q)
    BY <1>1 DEF ReportsOf
  <2> QED
    BY <2>1, <2>2
<1> QED
  BY <1>1, <1>3, <1>4, <1>5 DEF OneReport

\* An event joins the queue.
LEMMA Queued ==
  ASSUME NEW q \in Seq(AnyEvent), OneReport(q), NEW e \in AnyEvent,
         e.kind = "wings" \/ ReportsOf(q) = {}
  PROVE  /\ q \o <<e>> \in Seq(AnyEvent) /\ OneReport(q \o <<e>>)
         /\ ReportsOf(q \o <<e>>) = IF e.kind = "wings" THEN ReportsOf(q) ELSE {e}
<1> DEFINE t == q \o <<e>>
<1>1. /\ t \in Seq(AnyEvent) /\ Len(q) \in Nat /\ DOMAIN t = 1..Len(q) + 1 /\ DOMAIN q = 1..Len(q)
      /\ t[Len(q) + 1] = e /\ \A i \in 1..Len(q) : t[i] = q[i]
  OBVIOUS
<1> HIDE DEF t
<1>2. ReportsOf(t) = ReportsOf(q) \cup (IF e.kind = "wings" THEN {} ELSE {e})
  <2>1. \A i \in 1..Len(q) : i \in DOMAIN t
    BY <1>1
  <2>2. \A i \in DOMAIN t : i \in 1..Len(q) \/ i = Len(q) + 1
    BY <1>1
  <2>3. Len(q) + 1 \in DOMAIN t
    BY <1>1
  <2> QED
    BY <1>1, <2>1, <2>2, <2>3 DEF ReportsOf
<1>3. ReportsOf(q) = {} => \A i \in 1..Len(q) : q[i].kind = "wings"
  BY <1>1 DEF ReportsOf
<1>4. OneReport(t)
  BY <1>1, <1>3 DEF OneReport
<1> QED
  BY <1>1, <1>2, <1>4 DEF t

\* One event is the queue.
LEMMA FirstQueued ==
  ASSUME NEW e \in AnyEvent, e.kind # "wings"
  PROVE  <<e>> \in Seq(AnyEvent) /\ OneReport(<<e>>) /\ ReportsOf(<<e>>) = {e}
<1>1. <<e>> \in Seq(AnyEvent) /\ DOMAIN <<e>> = {1} /\ <<e>>[1] = e
  OBVIOUS
<1> QED
  BY <1>1 DEF OneReport, ReportsOf

-----------------------------------------------------------------------------
(* The decisions *)

\* t is s with some wings sent: nothing else of the batches has changed than their legs
Winged(s, t) ==
  \E B \in Seq(Batch), T \in Seq(Take) :
    /\ Len(B) = Len(s.batches) /\ \A i \in 1..Len(B) : B[i].n = s.batches[i].n
    /\ t = [s EXCEPT !.batches = B, !.out = s.out \o T]

\* The order identifiers are finitely many, and the client ids are among them.
LEMMA Identifiers ==
  /\ Max({MaxOrders, MaxCoids}) \in Nat /\ MaxOrders <= Max({MaxOrders, MaxCoids})
  /\ MaxCoids <= Max({MaxOrders, MaxCoids})
  /\ Coids \subseteq Oids /\ Coids \subseteq Nat \ {0} /\ Oids \subseteq Nat \ {0}
  /\ None \notin Coids /\ None \notin Oids
<1>1. \E x \in {MaxOrders, MaxCoids} : \A y \in {MaxOrders, MaxCoids} : x >= y
  BY RestAssumption
<1>2. /\ Max({MaxOrders, MaxCoids}) \in {MaxOrders, MaxCoids}
      /\ \A y \in {MaxOrders, MaxCoids} : Max({MaxOrders, MaxCoids}) >= y
  BY <1>1 DEF Max
<1> QED
  BY <1>2, RestAssumption DEF Coids, Oids, None

\* An identifier is a number.
LEMMA IdentifierTypes ==
  /\ \A c \in Coids \cup {None} : c \in Nat
  /\ \A o \in Oids \cup {None} : o \in Nat
BY Identifiers DEF None

\* The orders of the core and NoOrder are typed.
LEMMA NoOrderType == NoOrder \in Order /\ NoOrder.coid = None /\ NoOrder.oid = None
BY DEF NoOrder, Order

\* Sending wings sends a number of takes (_take_batch, _retry_batch).
LEMMA TakesSent ==
  ASSUME NEW s \in State, NEW lock \in BOOLEAN
  PROVE  [i \in 1..Cardinality(AllSends(s.batches, lock)) |-> Act("take", NoOrder, 0, None)] \in Seq(Take)
<1> DEFINE W == (1..Len(s.batches)) \X (Sides \cup {"both"})
<1>1. s.batches \in Seq(Batch) /\ Len(s.batches) \in Nat /\ DOMAIN s.batches = 1..Len(s.batches)
  BY DEF State
<1>2. \A b \in Batch : Sends(b, lock) \subseteq Sides \cup {"both"}
  BY DEF Sends, Batch
<1>3. \A i \in 1..Len(s.batches) : s.batches[i] \in Batch
  BY <1>1
<1>4. AllSends(s.batches, lock) \subseteq W
  BY <1>1, <1>2, <1>3 DEF AllSends
<1>5. IsFiniteSet(W)
  <2>1. IsFiniteSet(1..Len(s.batches))
    BY <1>1, FS_Interval
  <2>2. IsFiniteSet(Sides \cup {"both"})
    <3>1. Sides \cup {"both"} = {"yes", "no", "both"}
      BY DEF Sides
    <3>2. IsFiniteSet({"yes"} \cup {"no"}) /\ IsFiniteSet({"both"})
      BY FS_Singleton, FS_Union
    <3>3. {"yes", "no", "both"} = ({"yes"} \cup {"no"}) \cup {"both"}
      OBVIOUS
    <3> QED
      BY <3>1, <3>2, <3>3, FS_Union
  <2> QED
    BY <2>1, <2>2, FS_Product
<1>6. Cardinality(AllSends(s.batches, lock)) \in Nat
  BY <1>4, <1>5, FS_Subset, FS_CardinalityType
<1>7. Act("take", NoOrder, 0, None) \in Take
  BY NoOrderType DEF Act, Take, Action, Order
<1> HIDE DEF W
<1> QED
  BY <1>6, <1>7

\* A list is a function.
LEMMA FunctionIsList ==
  ASSUME NEW n \in Nat, NEW S, NEW f \in [1..n -> S]
  PROVE  f \in Seq(S) /\ Len(f) = n
OBVIOUS

\* The wing step of a decision sends wings and does nothing else.
LEMMA WingStep ==
  ASSUME NEW s \in State, NEW now, now.wings \in BOOLEAN, now.lock \in BOOLEAN
  PROVE  Winged(s, _wing_step(s, now))
<1>1. s.batches \in Seq(Batch) /\ s.out \in Seq(Action) /\ Len(s.batches) \in Nat
      /\ DOMAIN s.batches = 1..Len(s.batches) /\ \A i \in 1..Len(s.batches) : s.batches[i] \in Batch
  BY DEF State
<1>2. CASE s.phase = "cutoff"
  <2> DEFINE B == [i \in DOMAIN s.batches |-> GiveUp(s.batches[i])]
  <2>1. \A i \in 1..Len(s.batches) : B[i] \in Batch /\ B[i].n = s.batches[i].n
    BY <1>1 DEF Batch, GiveUp
  <2>2. B \in Seq(Batch) /\ Len(B) = Len(s.batches)
    <3>1. B \in [1..Len(s.batches) -> Batch]
      BY <1>1, <2>1
    <3> QED
      BY <1>1, <3>1, FunctionIsList
  <2>3. _wing_step(s, now) = [s EXCEPT !.batches = B]
    BY <1>2 DEF _wing_step
  <2>4. s.out = s.out \o <<>> /\ <<>> \in Seq(Take)
    BY <1>1, ConcatEmptySeq
  <2>5. [s EXCEPT !.batches = B] = [s EXCEPT !.batches = B, !.out = s.out \o <<>>]
    BY <2>4 DEF State
  <2> HIDE DEF B
  <2> QED
    BY <2>1, <2>2, <2>3, <2>4, <2>5 DEF Winged
<1>3. CASE s.phase # "cutoff" /\ ~now.wings
  <2>1. _wing_step(s, now) = s
    BY <1>3 DEF _wing_step
  <2>2. s.out = s.out \o <<>> /\ <<>> \in Seq(Take)
    BY <1>1, ConcatEmptySeq
  <2>3. s = [s EXCEPT !.batches = s.batches, !.out = s.out \o <<>>]
    BY <2>2 DEF State
  <2> QED
    BY <1>1, <2>1, <2>2, <2>3 DEF Winged
<1>4. CASE s.phase # "cutoff" /\ now.wings
  <2> DEFINE step(b) == CASE b.completed -> b
                          [] ~b.completed /\ ~b.taken -> _take_batch(b)
                          [] ~b.completed /\ b.taken -> IF now.lock THEN _retry_batch(b) ELSE b
             B == [i \in 1..Len(s.batches) |-> step(s.batches[i])]
             T == [i \in 1..Cardinality(AllSends(s.batches, now.lock)) |-> Act("take", NoOrder, 0, None)]
  <2>1. \A b \in Batch : step(b) \in Batch /\ step(b).n = b.n
    BY DEF Batch, _take_batch, _retry_batch
  <2>2. \A i \in 1..Len(s.batches) : B[i] \in Batch /\ B[i].n = s.batches[i].n
    BY <1>1, <2>1
  <2>3. B \in Seq(Batch) /\ Len(B) = Len(s.batches)
    <3>1. B \in [1..Len(s.batches) -> Batch]
      BY <2>2
    <3> QED
      BY <1>1, <3>1, FunctionIsList
  <2>4. T \in Seq(Take)
    BY TakesSent
  <2>5. _wing_step(s, now) = [s EXCEPT !.batches = B, !.out = s.out \o T]
    BY <1>1, <1>4 DEF _wing_step
  <2> HIDE DEF B, T
  <2> QED
    BY <2>2, <2>3, <2>4, <2>5 DEF Winged
<1> QED
  BY <1>2, <1>3, <1>4

\* Only the legs of the batches and the actions differ.
LEMMA WingedFields ==
  ASSUME NEW s \in State, s.out = <<>>, NEW t, Winged(s, t)
  PROVE  /\ t \in State /\ t.out \in Seq(Take)
         /\ t.contracts = s.contracts /\ t.remaining = s.remaining /\ t.phase = s.phase
         /\ t.live = s.live /\ t.pending = s.pending /\ t.bucket = s.bucket /\ t.done = s.done
         /\ t.stood_down = s.stood_down /\ t.amend = s.amend /\ t.cancel = s.cancel
         /\ t.awaiting = s.awaiting /\ t.booked = s.booked /\ t.cancel_ctx = s.cancel_ctx
         /\ t.cross = s.cross /\ t.coid_seq = s.coid_seq /\ t.spot = s.spot
         /\ Len(t.batches) = Len(s.batches)
         /\ \A i \in 1..Len(s.batches) : t.batches[i].n = s.batches[i].n
<1>1. PICK B \in Seq(Batch), T \in Seq(Take) :
        /\ Len(B) = Len(s.batches) /\ \A i \in 1..Len(B) : B[i].n = s.batches[i].n
        /\ t = [s EXCEPT !.batches = B, !.out = s.out \o T]
  BY DEF Winged
<1>2. s.out \o T = T /\ T \in Seq(Action)
  BY TakesOnly, ConcatEmptySeq
<1>3. t = [s EXCEPT !.batches = B, !.out = T]
  BY <1>1, <1>2
<1>4. t \in State
  BY <1>2, <1>3 DEF State
<1>5. /\ t.out = T /\ t.batches = B
      /\ t.contracts = s.contracts /\ t.remaining = s.remaining /\ t.phase = s.phase
      /\ t.live = s.live /\ t.pending = s.pending /\ t.bucket = s.bucket /\ t.done = s.done
      /\ t.stood_down = s.stood_down /\ t.amend = s.amend /\ t.cancel = s.cancel
      /\ t.awaiting = s.awaiting /\ t.booked = s.booked /\ t.cancel_ctx = s.cancel_ctx
      /\ t.cross = s.cross /\ t.coid_seq = s.coid_seq /\ t.spot = s.spot
  BY <1>3 DEF State
<1>6. /\ Len(t.batches) = Len(s.batches)
      /\ \A i \in 1..Len(s.batches) : t.batches[i].n = s.batches[i].n
  <2>1. t.batches = B
    BY <1>5
  <2> QED
    BY <1>1, <2>1
<1>7. t.out \in Seq(Take)
  BY <1>5
<1> QED
  BY <1>4, <1>5, <1>6, <1>7

\* The wings of a decision on the last event are to be read as they were, or as missing.
LEMMA NowType ==
  ASSUME core \in State, NEW now \in Nows
  PROVE  now.wings \in BOOLEAN /\ now.lock \in BOOLEAN
<1>1. core.wings \in BOOLEAN /\ core.lock \in BOOLEAN
  BY DEF State
<1>2. PICK w \in {FALSE, core.wings} : now = [wings |-> w, lock |-> core.lock]
  BY DEF Nows
<1>3. now.wings = w /\ now.lock = core.lock
  BY <1>2
<1>4. w \in BOOLEAN
  BY <1>1
<1> QED
  BY <1>1, <1>3, <1>4

\* what one more batch of n lots, booked for order coid, makes of s
BooksLots(s, coid, n, t) ==
  /\ t \in State /\ t.out \in Seq(Take)
  /\ t.contracts = s.contracts /\ t.phase = s.phase /\ t.stood_down = s.stood_down
  /\ t.cancel_ctx = s.cancel_ctx /\ t.cross = s.cross /\ t.coid_seq = s.coid_seq
  /\ t.remaining = Left(s, n) /\ t.booked = [s.booked EXCEPT ![coid] = @ + n]
  /\ Len(t.batches) = Len(s.batches) + 1 /\ t.batches[Len(s.batches) + 1].n = n
  /\ IF Left(s, n) = 0
     THEN t.done /\ t.live = NoOrder /\ t.pending = NoOrder /\ ~t.cancel /\ ~t.amend
     ELSE /\ t.done = s.done /\ t.pending = s.pending /\ t.cancel = s.cancel /\ t.amend = s.amend
          /\ t.live.oid = s.live.oid /\ t.live.coid = s.live.coid
          /\ s.live = NoOrder <=> t.live = NoOrder

\* A booked fill is a batch of its own (_book_rest_delta).
LEMMA BookDelta ==
  ASSUME NEW s \in State, s.out = <<>>, NEW coid \in Coids, NEW n \in Nat,
         NEW now, now.wings \in BOOLEAN, now.lock \in BOOLEAN
  PROVE  BooksLots(s, coid, n, _book_rest_delta(s, coid, n, now))
<1> DEFINE left == Left(s, n)
           t == [s EXCEPT !.batches = Append(@, NewBatch(n)), !.booked[coid] = @ + n,
                          !.remaining = left]
           u == IF left = 0
                THEN [t EXCEPT !.done = TRUE, !.live = NoOrder, !.pending = NoOrder, !.cancel = FALSE,
                               !.amend = FALSE]
                ELSE IF t.live.coid = coid THEN [t EXCEPT !.live.count = left] ELSE t
           v == _wing_step(u, now)
<1>1. left \in Nat
  BY DEF Left, State
<1>2. NewBatch(n) \in Batch /\ NewBatch(n).n = n
  BY DEF NewBatch, Batch
<1>3. /\ Append(s.batches, NewBatch(n)) \in Seq(Batch)
      /\ Len(Append(s.batches, NewBatch(n))) = Len(s.batches) + 1
      /\ Append(s.batches, NewBatch(n))[Len(s.batches) + 1] = NewBatch(n)
      /\ Len(s.batches) \in Nat
  BY <1>2 DEF State
<1>4. [s.booked EXCEPT ![coid] = @ + n] \in [Coids -> Nat]
  BY DEF State
<1>5. /\ t \in State /\ t.live = s.live /\ t.pending = s.pending /\ t.out = <<>>
      /\ t.booked = [s.booked EXCEPT ![coid] = @ + n] /\ t.remaining = left
      /\ t.batches = Append(s.batches, NewBatch(n))
      /\ t.contracts = s.contracts /\ t.phase = s.phase /\ t.stood_down = s.stood_down
      /\ t.cancel_ctx = s.cancel_ctx /\ t.cross = s.cross /\ t.coid_seq = s.coid_seq
      /\ t.done = s.done /\ t.cancel = s.cancel /\ t.amend = s.amend
  <2> HIDE DEF left
  <2> QED
    BY <1>1, <1>3, <1>4 DEF State
<1> HIDE DEF t
<1>6. /\ u \in State /\ u.out = <<>> /\ u.booked = t.booked /\ u.remaining = t.remaining
      /\ u.batches = t.batches /\ u.contracts = t.contracts /\ u.phase = t.phase
      /\ u.stood_down = t.stood_down /\ u.cancel_ctx = t.cancel_ctx /\ u.cross = t.cross
      /\ u.coid_seq = t.coid_seq
      /\ IF left = 0
         THEN u.done /\ u.live = NoOrder /\ u.pending = NoOrder /\ ~u.cancel /\ ~u.amend
         ELSE /\ u.done = s.done /\ u.pending = s.pending /\ u.cancel = s.cancel /\ u.amend = s.amend
              /\ u.live.oid = s.live.oid /\ u.live.coid = s.live.coid
              /\ s.live = NoOrder <=> u.live = NoOrder
  <2> HIDE DEF left
  <2>1. CASE left = 0
    BY <1>5, <2>1, NoOrderType DEF State
  <2>2. CASE left # 0 /\ t.live.coid = coid
    <3>1. [t.live EXCEPT !.count = left] \in Order
      BY <1>1, <1>5 DEF State, Order
    <3>2. u = [t EXCEPT !.live = [t.live EXCEPT !.count = left]]
      BY <1>5, <2>2 DEF State
    <3>3. [t.live EXCEPT !.count = left].coid = coid /\ [t.live EXCEPT !.count = left].oid = s.live.oid
      BY <1>5, <2>2 DEF State, Order
    <3>4. coid # None
      BY Identifiers
    <3> QED
      BY <1>5, <2>2, <3>1, <3>2, <3>3, <3>4, NoOrderType DEF State
  <2>3. CASE left # 0 /\ t.live.coid # coid
    BY <1>5, <2>3
  <2> QED
    BY <2>1, <2>2, <2>3
<1> HIDE DEF u
<1>7. Winged(u, v)
  BY <1>6, WingStep
<1> HIDE DEF v
<1>8. /\ v \in State /\ v.out \in Seq(Take)
      /\ v.contracts = u.contracts /\ v.remaining = u.remaining /\ v.phase = u.phase
      /\ v.live = u.live /\ v.pending = u.pending /\ v.done = u.done
      /\ v.stood_down = u.stood_down /\ v.amend = u.amend /\ v.cancel = u.cancel
      /\ v.booked = u.booked /\ v.cancel_ctx = u.cancel_ctx
      /\ v.cross = u.cross /\ v.coid_seq = u.coid_seq
      /\ Len(v.batches) = Len(u.batches)
      /\ \A i \in 1..Len(u.batches) : v.batches[i].n = u.batches[i].n
  BY <1>6, <1>7, WingedFields
<1>9. Len(v.batches) = Len(s.batches) + 1 /\ v.batches[Len(s.batches) + 1].n = n
  BY <1>2, <1>3, <1>5, <1>6, <1>8
<1>10. _book_rest_delta(s, coid, n, now) = v
  BY DEF _book_rest_delta, v, u, t
<1> QED
  BY <1>5, <1>6, <1>8, <1>9, <1>10 DEF BooksLots

\* what the decision of the report e makes of the core: nothing is under way any more, and the live
\* order is the one it was, the one acknowledged, or gone
Settles(e, t) ==
  /\ t \in State /\ t.out \in Seq(Take)
  /\ t.pending = NoOrder /\ ~t.cancel /\ ~t.amend
  /\ t.contracts = core.contracts /\ t.phase = core.phase /\ t.stood_down = core.stood_down
  /\ t.coid_seq = core.coid_seq
  /\ core.done => t.done
  /\ t.done => t.live = NoOrder
  /\ t.live # NoOrder => /\ t.live.oid # None /\ t.live.coid # None
                         /\ t.live.oid = (IF e.kind = "ack" THEN e.oid ELSE core.live.oid)
                         /\ t.live.coid = (IF e.kind \in {"ack", "amended"} THEN e.coid
                                           ELSE core.live.coid)
  /\ \/ t.done \/ core.live = NoOrder \/ t.live.oid = core.live.oid
     \/ e.kind = "cancelled" /\ e.oid = core.live.oid
  /\ e.kind = "ack" => t.live.oid = e.oid

\* what the decision of the report e makes of an allotment of one lot
LotSettles(e, t) ==
  Unbooked(core) /\ e.n \in {0, 1} /\ (e.kind = "late" => e.n = 1) =>
    /\ Unbooked(t) \/ (e.n = 1 /\ OneBooked(t))
    /\ e.kind = "cancelled" /\ e.n = 1 /\ e.oid # None
         /\ (e.oid = core.live.oid \/ core.cancel_ctx[e.oid] # None) => OneBooked(t)

\* The acknowledged order is the live one (_apply_ack).
LEMMA AckSettles ==
  ASSUME IInv, NEW e \in Reports, e \in OrderEvent, e.kind = "ack", NEW now \in Nows
  PROVE  Settles(e, decide_v32(core, e, now)) /\ LotSettles(e, decide_v32(core, e, now))
<1>1. /\ core.pending.coid = e.coid /\ e.coid # None /\ e.oid # None
      /\ core.live = NoOrder /\ ~core.amend /\ ~core.done
  BY DEF IInv, HoldInv, ReportFits, Latched
<1>2. core \in State /\ core.out = <<>> /\ core.pending \in Order /\ e.oid \in Oids \cup {None}
  BY DEF IInv, RestTypeOK, State, OrderEvent
<1> DEFINE l == [core.pending EXCEPT !.oid = e.oid]
           t == [core EXCEPT !.live = l, !.pending = NoOrder, !.cancel = FALSE]
<1>3. l \in Order /\ l.oid = e.oid /\ l.coid = e.coid
  BY <1>1, <1>2 DEF Order
<1>4. decide_v32(core, e, now) = t
  BY <1>1 DEF decide_v32, _apply_ack
<1> HIDE DEF l
<1>5. t \in State
  BY <1>2, <1>3, NoOrderType DEF State
<1>6. /\ t.live = l /\ t.pending = NoOrder /\ ~t.cancel /\ t.amend = core.amend /\ t.out = <<>>
      /\ t.contracts = core.contracts /\ t.phase = core.phase /\ t.stood_down = core.stood_down
      /\ t.coid_seq = core.coid_seq /\ t.done = core.done /\ t.remaining = core.remaining
      /\ t.batches = core.batches /\ t.booked = core.booked /\ t.cross = core.cross
  BY <1>2 DEF State
<1>7. <<>> \in Seq(Take)
  OBVIOUS
<1> HIDE DEF t
<1>8. Settles(e, t)
  BY <1>1, <1>3, <1>5, <1>6, <1>7 DEF Settles
<1>9. LotSettles(e, t)
  BY <1>6 DEF LotSettles, Unbooked
<1> QED
  BY <1>4, <1>8, <1>9

\* The live order is gone, or the pending one that never was; the lots above those booked for the
\* order are a fill (_apply_cancelled).
LEMMA CancelledSettles ==
  ASSUME IInv, NEW e \in Reports, e \in OrderEvent, e.kind = "cancelled", NEW now \in Nows
  PROVE  Settles(e, decide_v32(core, e, now)) /\ LotSettles(e, decide_v32(core, e, now))
<1>1. /\ IF e.oid = None THEN core.pending.oid = None /\ core.live = NoOrder /\ e.n = 0
                          ELSE core.pending = NoOrder
      /\ ~core.done
      /\ core.live # NoOrder => core.live.oid # None /\ core.live.coid # None
  BY DEF IInv, HoldInv, ReportFits, Latched
<1>2. /\ core \in State /\ core.out = <<>> /\ core.pending \in Order /\ core.live \in Order
      /\ e.oid \in Oids \cup {None} /\ e.n \in Nat /\ core.cancel_ctx \in [Oids -> Coids \cup {None}]
      /\ core.booked \in [Coids -> Nat]
  BY DEF IInv, RestTypeOK, State, OrderEvent
<1> DEFINE hitLive == core.live # NoOrder /\ core.live.oid = e.oid
           hitPending == ~hitLive /\ core.pending # NoOrder /\ core.pending.oid = e.oid
           coid == CancelledCoid(core, e)
           t == [core EXCEPT !.live = IF hitLive THEN NoOrder ELSE @,
                             !.pending = IF hitPending THEN NoOrder ELSE @,
                             !.cancel = FALSE, !.amend = FALSE]
           u == _book_rest_delta(t, coid, e.n - t.booked[coid], now)
<1>3. /\ t \in State /\ t.out = <<>> /\ t.pending = NoOrder /\ ~t.cancel /\ ~t.amend
      /\ t.live = (IF hitLive THEN NoOrder ELSE core.live)
      /\ t.contracts = core.contracts /\ t.phase = core.phase /\ t.stood_down = core.stood_down
      /\ t.coid_seq = core.coid_seq /\ t.done = core.done /\ t.remaining = core.remaining
      /\ t.batches = core.batches /\ t.booked = core.booked /\ t.cross = core.cross
  <2>1. core.pending = NoOrder \/ hitPending
    BY <1>1
  <2>2. /\ (IF hitLive THEN NoOrder ELSE core.live) \in Order
        /\ (IF hitPending THEN NoOrder ELSE core.pending) = NoOrder
    BY <1>2, <2>1, NoOrderType
  <2>3. t = [core EXCEPT !.live = IF hitLive THEN NoOrder ELSE core.live, !.pending = NoOrder,
                         !.cancel = FALSE, !.amend = FALSE]
    BY <1>2, <2>2 DEF State
  <2> HIDE DEF hitLive, hitPending, t
  <2>4. t \in State
    BY <1>2, <2>2, <2>3, NoOrderType DEF State
  <2> QED
    BY <1>2, <2>3, <2>4 DEF State
<1>4. coid \in Coids \cup {None}
  <2>1. core.live.coid \in Coids \cup {None} /\ core.pending.coid \in Coids \cup {None}
    BY <1>2 DEF Order
  <2>2. e.oid # None => core.cancel_ctx[e.oid] \in Coids \cup {None}
    BY <1>2
  <2> QED
    BY <2>1, <2>2 DEF CancelledCoid
<1>5. decide_v32(core, e, now) = IF coid # None /\ e.n > t.booked[coid] THEN u ELSE t
  BY DEF decide_v32, _apply_cancelled
<1>6. /\ t.live # NoOrder => /\ t.live.oid # None /\ t.live.coid # None
                             /\ t.live.oid = core.live.oid /\ t.live.coid = core.live.coid
      /\ core.live = NoOrder \/ t.live.oid = core.live.oid \/ e.oid = core.live.oid
  BY <1>1, <1>3
<1>7. e.kind = "cancelled" /\ e.kind # "ack" /\ e.kind # "amended" /\ e.kind # "late"
  OBVIOUS
<1>8. e.oid # None /\ (e.oid = core.live.oid \/ core.cancel_ctx[e.oid] # None) => coid # None
  <2>1. e.oid # None => core.pending = NoOrder
    BY <1>1
  <2>2. e.oid # None /\ e.oid = core.live.oid => core.live # NoOrder
    BY NoOrderType
  <2> QED
    BY <1>1, <2>1, <2>2 DEF CancelledCoid
<1> HIDE DEF t, coid
<1>9. CASE ~(coid # None /\ e.n > t.booked[coid])
  <2>1. decide_v32(core, e, now) = t
    BY <1>5, <1>9
  <2>2. <<>> \in Seq(Take)
    OBVIOUS
  <2>3. Settles(e, t)
    BY <1>1, <1>3, <1>6, <1>7, <2>2 DEF Settles
  <2>4. LotSettles(e, t)
    <3>1. SUFFICES ASSUME Unbooked(core), e.n \in {0, 1}
                   PROVE  /\ Unbooked(t)
                          /\ ~(e.n = 1 /\ coid # None)
      BY <1>7, <1>8 DEF LotSettles
    <3>2. coid # None => t.booked[coid] = 0
      BY <1>3, <1>4, <3>1 DEF Unbooked
    <3> QED
      BY <1>3, <1>9, <3>1, <3>2 DEF Unbooked
  <2> QED
    BY <2>1, <2>3, <2>4
<1>10. CASE coid # None /\ e.n > t.booked[coid]
  <2>1. coid \in Coids /\ e.n - t.booked[coid] \in Nat
    BY <1>2, <1>3, <1>4, <1>10
  <2>2. BooksLots(t, coid, e.n - t.booked[coid], u)
    BY <1>2, <1>3, <2>1, BookDelta, NowType
  <2>3. decide_v32(core, e, now) = u
    BY <1>5, <1>10
  <2> HIDE DEF u
  <2>4. Settles(e, u)
    <3>1. CASE Left(t, e.n - t.booked[coid]) = 0
      BY <1>3, <1>7, <2>2, <3>1 DEF Settles, BooksLots
    <3>2. CASE Left(t, e.n - t.booked[coid]) # 0
      BY <1>1, <1>3, <1>6, <1>7, <2>2, <3>2 DEF Settles, BooksLots
    <3> QED
      BY <3>1, <3>2
  <2>5. LotSettles(e, u)
    <3>1. SUFFICES ASSUME Unbooked(core), e.n \in {0, 1} PROVE e.n = 1 /\ OneBooked(u)
      BY <1>7 DEF LotSettles
    <3>2. t.booked[coid] = 0 /\ t.remaining = 1 /\ t.batches = <<>> /\ Len(t.batches) = 0
      BY <1>3, <2>1, <3>1 DEF Unbooked
    <3>3. e.n = 1 /\ Left(t, e.n - t.booked[coid]) = 0
      BY <1>10, <3>1, <3>2 DEF Left
    <3> QED
      BY <2>2, <3>2, <3>3 DEF BooksLots, OneBooked
  <2> QED
    BY <2>3, <2>4, <2>5
<1> QED
  BY <1>9, <1>10

\* The order id persists, the client id rotates; what crossed is a fill (_apply_amended).
LEMMA AmendedSettles ==
  ASSUME IInv, NEW e \in Reports, e \in OrderEvent, e.kind = "amended", NEW now \in Nows
  PROVE  Settles(e, decide_v32(core, e, now)) /\ LotSettles(e, decide_v32(core, e, now))
<1>1. /\ core.pending = NoOrder /\ ~core.cancel /\ core.live.oid = e.oid
      /\ e.oid # None /\ e.coid # None /\ ~core.done
      /\ core.live # NoOrder /\ core.live.coid # None
  BY NoOrderType DEF IInv, HoldInv, ReportFits, Latched
<1>2. /\ core \in State /\ core.out = <<>> /\ core.live \in Order /\ e.n \in Nat
      /\ e.oid \in Oids /\ e.coid \in Coids /\ core.live.coid \in Coids
      /\ core.booked \in [Coids -> Nat] /\ core.cross \in [Oids -> Nat]
  BY <1>1 DEF IInv, RestTypeOK, State, OrderEvent, Order
<1> DEFINE old == core.live.coid
           l == [core.live EXCEPT !.coid = e.coid]
           b == [core.booked EXCEPT ![e.coid] = @ + core.booked[old], ![old] = 0]
           t == [core EXCEPT !.live.coid = e.coid, !.amend = FALSE,
                             !.booked = b]
           u == _book_rest_delta(t, e.coid, e.n, now)
           v == [u EXCEPT !.cross[e.oid] = @ + e.n]
<1>3. l \in Order /\ l.oid = e.oid /\ l.coid = e.coid /\ b \in [Coids -> Nat]
  BY <1>1, <1>2 DEF Order
<1>4. t = [core EXCEPT !.live = l, !.amend = FALSE, !.booked = b]
  BY <1>2 DEF State
<1>5. decide_v32(core, e, now) = IF e.n = 0 THEN t ELSE IF u.live = NoOrder THEN u ELSE v
  BY <1>1 DEF decide_v32, _apply_amended
<1> HIDE DEF l
<1>6. (\A c \in Coids : core.booked[c] = 0) => (\A c \in Coids : b[c] = 0)
  BY <1>2
<1> HIDE DEF b, t
<1>7. /\ t \in State /\ t.out = <<>> /\ t.pending = NoOrder /\ ~t.cancel /\ ~t.amend
      /\ t.live = l
      /\ t.contracts = core.contracts /\ t.phase = core.phase /\ t.stood_down = core.stood_down
      /\ t.coid_seq = core.coid_seq /\ t.done = core.done /\ t.remaining = core.remaining
      /\ t.batches = core.batches /\ t.booked = b /\ t.cross = core.cross
  <2>1. t \in State
    BY <1>2, <1>3, <1>4 DEF State
  <2> QED
    BY <1>1, <1>2, <1>4, <2>1 DEF State
<1>8. /\ t.live # NoOrder /\ t.live.oid # None /\ t.live.coid # None
      /\ t.live.oid = core.live.oid /\ t.live.coid = e.coid
  BY <1>1, <1>3, <1>7, NoOrderType
<1>9. e.kind # "ack" /\ e.kind # "cancelled" /\ e.kind # "late" /\ e.kind \in {"ack", "amended"}
  OBVIOUS
<1>10. CASE e.n = 0
  <2>1. decide_v32(core, e, now) = t /\ <<>> \in Seq(Take)
    BY <1>5, <1>10
  <2>2. Settles(e, t)
    BY <1>1, <1>7, <1>8, <1>9, <2>1 DEF Settles
  <2>3. LotSettles(e, t)
    BY <1>6, <1>7, <1>9 DEF LotSettles, Unbooked
  <2> QED
    BY <2>1, <2>2, <2>3
<1>11. CASE e.n # 0
  <2>1. BooksLots(t, e.coid, e.n, u)
    BY <1>2, <1>7, BookDelta, NowType
  <2> HIDE DEF u
  <2>2. u \in State /\ u.cross \in [Oids -> Nat]
    BY <2>1 DEF BooksLots, State
  <2>3. v.cross \in [Oids -> Nat] /\ v \in State
    <3>1. [u.cross EXCEPT ![e.oid] = @ + e.n] \in [Oids -> Nat]
      BY <1>2, <2>2
    <3> QED
      BY <2>2, <3>1 DEF State
  <2>4. /\ v.out = u.out /\ v.pending = u.pending /\ v.cancel = u.cancel /\ v.amend = u.amend
        /\ v.live = u.live /\ v.contracts = u.contracts /\ v.phase = u.phase
        /\ v.stood_down = u.stood_down /\ v.coid_seq = u.coid_seq /\ v.done = u.done
    BY <2>2 DEF State
  <2> HIDE DEF v
  <2>5. Settles(e, u)
    <3>1. CASE Left(t, e.n) = 0
      BY <1>7, <1>9, <2>1, <3>1, NoOrderType DEF Settles, BooksLots
    <3>2. CASE Left(t, e.n) # 0
      BY <1>1, <1>7, <1>8, <1>9, <2>1, <3>2 DEF Settles, BooksLots
    <3> QED
      BY <3>1, <3>2
  <2>6. Settles(e, v)
    BY <2>3, <2>4, <2>5 DEF Settles
  <2>7. Unbooked(core) /\ e.n \in {0, 1} => e.n = 1 /\ OneBooked(u) /\ u.live = NoOrder
    <3>1. SUFFICES ASSUME Unbooked(core), e.n = 1 PROVE OneBooked(u) /\ u.live = NoOrder
      BY <1>11
    <3>2. Left(t, e.n) = 0 /\ Len(t.batches) = 0
      BY <1>7, <3>1 DEF Left, Unbooked
    <3> QED
      BY <2>1, <3>1, <3>2 DEF BooksLots, OneBooked
  <2>8. decide_v32(core, e, now) = IF u.live = NoOrder THEN u ELSE v
    BY <1>5, <1>11
  <2> QED
    BY <1>9, <2>5, <2>6, <2>7, <2>8 DEF LotSettles
<1> QED
  BY <1>10, <1>11

\* The smaller of two numbers.
LEMMA MinOfTwo ==
  ASSUME NEW m \in Nat, NEW n \in Nat
  PROVE  Min({m, n}) \in {m, n} /\ Min({m, n}) <= m /\ Min({m, n}) <= n
<1>1. \E x \in {m, n} : \A y \in {m, n} : x <= y
  <2>1. m <= n \/ n <= m
    OBVIOUS
  <2> QED
    BY <2>1
<1>2. Min({m, n}) \in {m, n} /\ \A y \in {m, n} : Min({m, n}) <= y
  BY <1>1 DEF Min
<1> QED
  BY <1>2

\* The larger of zero and a number.
LEMMA MaxWithZero ==
  ASSUME NEW n \in Int
  PROVE  Max({0, n}) \in Nat /\ Max({0, n}) \in {0, n} /\ Max({0, n}) >= n
<1>1. \E x \in {0, n} : \A y \in {0, n} : x >= y
  OBVIOUS
<1>2. Max({0, n}) \in {0, n} /\ \A y \in {0, n} : Max({0, n}) >= y
  BY <1>1 DEF Max
<1> QED
  BY <1>2

\* A fill of the live order leaves it live unless it was the last lot (_apply_fill).
LEMMA FillSettles ==
  ASSUME IInv, NEW e \in Reports, e \in OrderEvent, e.kind = "fill", NEW now \in Nows
  PROVE  Settles(e, decide_v32(core, e, now)) /\ LotSettles(e, decide_v32(core, e, now))
<1>1. /\ core.pending = NoOrder /\ ~core.cancel /\ ~core.amend /\ ~core.done
      /\ core.live # NoOrder => core.live.oid # None /\ core.live.coid # None
  BY DEF IInv, HoldInv, ReportFits, Latched, Clear
<1>2. /\ core \in State /\ core.out = <<>> /\ core.live \in Order /\ e.n \in Nat
      /\ e.oid \in Oids \cup {None} /\ e.coid \in Coids \cup {None}
      /\ core.cross \in [Oids -> Nat]
  BY DEF IInv, RestTypeOK, State, OrderEvent
<1> DEFINE order == IF core.live.coid = e.coid THEN core.live
                    ELSE IF core.pending.coid = e.coid THEN core.pending ELSE NoOrder
           oid == IF order.oid = None THEN e.oid ELSE order.oid
           skip == IF oid = None THEN 0 ELSE Min({core.cross[oid], e.n})
           t == IF oid = None THEN core ELSE [core EXCEPT !.cross[oid] = @ - skip]
           u == _book_rest_delta(t, order.coid, e.n - skip, now)
<1>3. decide_v32(core, e, now) = IF order = NoOrder THEN core ELSE IF e.n > skip THEN u ELSE t
  BY DEF decide_v32, _apply_fill
<1>4. order = NoOrder \/ (order = core.live /\ core.live # NoOrder)
  BY <1>1
<1>5. order # NoOrder => order.coid \in Coids
  BY <1>1, <1>2, <1>4 DEF Order
<1>6. oid \in Oids \cup {None}
  BY <1>2, <1>4, NoOrderType DEF Order
<1> HIDE DEF order, oid
<1>7. skip \in Nat /\ skip <= e.n /\ (oid # None => skip <= core.cross[oid])
  BY <1>2, <1>6, MinOfTwo
<1>8. Unbooked(core) => skip = 0
  BY <1>6, <1>7 DEF Unbooked
<1> HIDE DEF skip
<1>9. /\ t \in State /\ t.out = <<>> /\ t.pending = NoOrder /\ ~t.cancel /\ ~t.amend
      /\ t.live = core.live
      /\ t.contracts = core.contracts /\ t.phase = core.phase /\ t.stood_down = core.stood_down
      /\ t.coid_seq = core.coid_seq /\ t.done = core.done /\ t.remaining = core.remaining
      /\ t.batches = core.batches /\ t.booked = core.booked
      /\ \A o \in Oids : core.cross[o] = 0 /\ skip = 0 => t.cross[o] = 0
  <2>1. CASE oid = None
    BY <1>1, <1>2, <2>1
  <2>2. CASE oid # None
    <3>1. [core.cross EXCEPT ![oid] = @ - skip] \in [Oids -> Nat]
      BY <1>2, <1>6, <1>7, <2>2
    <3>2. t = [core EXCEPT !.cross = [core.cross EXCEPT ![oid] = @ - skip]]
      BY <1>2, <2>2 DEF State
    <3>3. \A o \in Oids : core.cross[o] = 0 /\ skip = 0 => [core.cross EXCEPT ![oid] = @ - skip][o] = 0
      BY <1>2
    <3> HIDE DEF t
    <3>4. t \in State
      BY <1>2, <3>1, <3>2 DEF State
    <3> QED
      BY <1>1, <1>2, <3>2, <3>3, <3>4 DEF State
  <2> QED
    BY <2>1, <2>2
<1> HIDE DEF t
<1>10. <<>> \in Seq(Take)
  OBVIOUS
<1>11. e.kind # "ack" /\ e.kind # "cancelled" /\ e.kind # "amended" /\ e.kind # "late"
  OBVIOUS
<1>12. Settles(e, core) /\ LotSettles(e, core)
  BY <1>1, <1>2, <1>10, <1>11 DEF Settles, LotSettles
<1>13. Settles(e, t)
  BY <1>1, <1>9, <1>10, <1>11 DEF Settles
<1>14. LotSettles(e, t)
  BY <1>8, <1>9, <1>11 DEF LotSettles, Unbooked
<1>15. CASE order # NoOrder /\ e.n > skip
  <2>1. BooksLots(t, order.coid, e.n - skip, u)
    BY <1>2, <1>5, <1>7, <1>9, <1>15, BookDelta, NowType
  <2> HIDE DEF u
  <2>2. Settles(e, u)
    <3>1. CASE Left(t, e.n - skip) = 0
      BY <1>9, <1>11, <2>1, <3>1, NoOrderType DEF Settles, BooksLots
    <3>2. CASE Left(t, e.n - skip) # 0
      BY <1>1, <1>9, <1>11, <2>1, <3>2 DEF Settles, BooksLots
    <3> QED
      BY <3>1, <3>2
  <2>3. LotSettles(e, u)
    <3>1. SUFFICES ASSUME Unbooked(core), e.n \in {0, 1} PROVE e.n = 1 /\ OneBooked(u)
      BY <1>11 DEF LotSettles
    <3>2. e.n = 1 /\ Left(t, e.n - skip) = 0 /\ Len(t.batches) = 0
      BY <1>8, <1>9, <1>15, <3>1 DEF Left, Unbooked
    <3> QED
      BY <2>1, <1>8, <3>1, <3>2 DEF BooksLots, OneBooked
  <2> QED
    BY <1>3, <1>15, <2>2, <2>3
<1> QED
  BY <1>3, <1>12, <1>13, <1>14, <1>15

\* The first fill that the core no longer tracks ends the allotment (book_late_rest_fill).
LEMMA LateSettles ==
  ASSUME IInv, NEW e \in Reports, e \in LateEvent, NEW now \in Nows
  PROVE  /\ Settles(e, decide_v32(core, e, now)) /\ LotSettles(e, decide_v32(core, e, now))
         /\ core.batches # <<>> => decide_v32(core, e, now) = core
<1>1. /\ core.pending = NoOrder /\ ~core.cancel /\ ~core.amend /\ e.kind = "late"
      /\ core.live # NoOrder => core.live.oid # None /\ core.live.coid # None
      /\ core.done => core.live = NoOrder
  BY DEF IInv, HoldInv, ReportFits, Latched, Clear, LateEvent
<1>2. core \in State /\ core.out = <<>> /\ e.n \in Nat /\ e.oid \in Spots
  BY DEF IInv, RestTypeOK, LateEvent
<1>3. decide_v32(core, e, now) = book_late_rest_fill(core, e, now)
  BY <1>1 DEF decide_v32
<1>4. <<>> \in Seq(Take)
  OBVIOUS
<1>5. CASE core.batches # <<>>
  <2>1. decide_v32(core, e, now) = core
    BY <1>3, <1>5 DEF book_late_rest_fill
  <2>2. Settles(e, core)
    BY <1>1, <1>2, <1>4 DEF Settles
  <2>3. LotSettles(e, core)
    BY <1>1, <1>5 DEF LotSettles, Unbooked
  <2> QED
    BY <2>1, <2>2, <2>3
<1>6. CASE core.batches = <<>>
  <2> DEFINE B == Append(core.batches, NewBatch(e.n))
             t == [core EXCEPT !.batches = B, !.done = TRUE,
                               !.live = NoOrder, !.pending = NoOrder, !.cancel = FALSE,
                               !.spot = IF e.oid = None THEN @ ELSE e.oid]
             u == _wing_step(t, now)
  <2>1. decide_v32(core, e, now) = u
    BY <1>3, <1>6 DEF book_late_rest_fill
  <2>2. NewBatch(e.n) \in Batch /\ NewBatch(e.n).n = e.n
    BY <1>2 DEF NewBatch, Batch
  <2>3. B \in Seq(Batch) /\ Len(B) = 1 /\ B[1] = NewBatch(e.n)
    BY <1>2, <1>6, <2>2 DEF State
  <2> HIDE DEF B
  <2>4. /\ t \in State /\ t.out = <<>> /\ t.live = NoOrder /\ t.pending = NoOrder /\ ~t.cancel
        /\ t.amend = core.amend /\ t.done /\ t.batches = B
        /\ t.contracts = core.contracts /\ t.phase = core.phase /\ t.stood_down = core.stood_down
        /\ t.coid_seq = core.coid_seq
    <3>1. (IF e.oid = None THEN core.spot ELSE e.oid) \in Spots
      BY <1>2 DEF State
    <3>2. t \in State
      BY <1>2, <2>3, <3>1, NoOrderType DEF State
    <3> QED
      BY <1>2, <3>2 DEF State
  <2> HIDE DEF t
  <2>5. Winged(t, u)
    BY <2>4, WingStep, NowType, <1>2
  <2> HIDE DEF u
  <2>6. /\ u \in State /\ u.out \in Seq(Take) /\ u.live = NoOrder /\ u.pending = NoOrder /\ ~u.cancel
        /\ u.amend = core.amend /\ u.done
        /\ u.contracts = core.contracts /\ u.phase = core.phase /\ u.stood_down = core.stood_down
        /\ u.coid_seq = core.coid_seq
        /\ Len(u.batches) = 1 /\ u.batches[1].n = e.n
    BY <2>2, <2>3, <2>4, <2>5, WingedFields
  <2>7. Settles(e, u)
    BY <1>1, <2>6 DEF Settles
  <2>8. LotSettles(e, u)
    BY <1>1, <2>6 DEF LotSettles, OneBooked
  <2> QED
    BY <1>6, <2>1, <2>7, <2>8
<1> QED
  BY <1>5, <1>6

-----------------------------------------------------------------------------
(* The tick *)

\* t is s with at most its orders, holds and actions changed
Alike(s, t) ==
  /\ t \in State
  /\ t.contracts = s.contracts /\ t.remaining = s.remaining /\ t.phase = s.phase
  /\ t.done = s.done /\ t.booked = s.booked /\ t.cross = s.cross /\ t.batches = s.batches
  /\ s.stood_down => t.stood_down

LeavesAlone(s, t) ==
  /\ t.live = s.live /\ t.pending = NoOrder /\ ~t.cancel /\ ~t.amend
  /\ t.coid_seq = s.coid_seq /\ t.out = s.out

AsksCancel(s, t) ==
  /\ s.live # NoOrder /\ t.live = NoOrder /\ t.pending = NoOrder /\ ~t.amend
  /\ t.coid_seq = s.coid_seq /\ t.cancel_ctx[s.live.oid] = s.live.coid
  /\ t.out = Append(s.out, Act("cancel", s.live, 0, None))

AsksPlace(s, t) ==
  /\ s.live = NoOrder /\ t.live = NoOrder /\ ~t.cancel /\ ~t.amend
  /\ t.phase = "window" /\ ~t.stood_down /\ ~t.done
  /\ t.coid_seq = s.coid_seq + 1
  /\ t.pending = [coid |-> s.coid_seq + 1, oid |-> None, count |-> s.remaining]
  /\ t.out = Append(s.out, Act("place", t.pending, s.remaining, None))

AsksAmend(s, t) ==
  /\ s.live # NoOrder /\ t.live = s.live /\ t.pending = NoOrder /\ ~t.cancel /\ ~t.done
  /\ t.coid_seq = s.coid_seq + 1
  /\ t.out = Append(s.out, Act("amend", s.live, s.remaining, s.coid_seq + 1))

Asks(s, t) ==
  /\ Alike(s, t)
  /\ LeavesAlone(s, t) \/ AsksCancel(s, t) \/ AsksPlace(s, t) \/ AsksAmend(s, t)

\* a core on which nothing is under way
Settled(s) ==
  /\ s \in State /\ s.out \in Seq(Take) /\ s.pending = NoOrder /\ ~s.cancel /\ ~s.amend
  /\ s.live # NoOrder => s.live.oid # None /\ s.live.coid # None
  /\ s.coid_seq < MaxCoids

\* A request is an action.
LEMMA RequestType ==
  ASSUME NEW order \in Order, NEW kind \in {"place", "cancel", "amend", "take"},
         NEW count \in Nat, NEW new \in Coids \cup {None}
  PROVE  Act(kind, order, count, new) \in Action
BY DEF Act, Order, Action

\* What rests is cancelled, once (_cancel_live_if_any).
LEMMA CancelLive ==
  ASSUME NEW s, Settled(s)
  PROVE  /\ Asks(s, _cancel_live_if_any(s))
         /\ LET t == _cancel_live_if_any(s)
            IN \/ LeavesAlone(s, t) /\ t = s /\ t.live = NoOrder
               \/ AsksCancel(s, t) /\ t.out # s.out
<1>1. s \in State /\ s.out \in Seq(Action) /\ s.live \in Order /\ s.cancel_ctx \in [Oids -> Coids \cup {None}]
  BY DEF Settled, State
<1>2. CASE s.live = NoOrder
  <2>1. _cancel_live_if_any(s) = s
    BY <1>2 DEF Settled, _cancel_live_if_any
  <2>2. LeavesAlone(s, s) /\ Alike(s, s)
    BY <1>1 DEF Settled, LeavesAlone, Alike
  <2> QED
    BY <1>2, <2>1, <2>2 DEF Asks
<1>3. CASE s.live # NoOrder
  <2> DEFINE a == Act("cancel", s.live, 0, None)
             x == [s.cancel_ctx EXCEPT ![s.live.oid] = s.live.coid]
             t == [s EXCEPT !.out = Append(s.out, a), !.cancel_ctx = x, !.live = NoOrder, !.cancel = TRUE]
  <2>1. s.live.oid \in Oids /\ s.live.oid # None /\ s.live.coid \in Coids
    BY <1>1, <1>3 DEF Settled, Order
  <2>2. a \in Action
    BY <1>1, RequestType
  <2>3. x \in [Oids -> Coids \cup {None}] /\ x[s.live.oid] = s.live.coid
    BY <1>1, <2>1
  <2>4. Append(s.out, a) \in Seq(Action) /\ Append(s.out, a) # s.out
    <3>1. Append(s.out, a) \in Seq(Action) /\ Len(Append(s.out, a)) = Len(s.out) + 1 /\ Len(s.out) \in Nat
      BY <1>1, <2>2
    <3> QED
      BY <3>1
  <2> DEFINE e == Emit(s, a)
             y == [e EXCEPT !.cancel_ctx = IF s.live.oid = None THEN @ ELSE [@ EXCEPT ![s.live.oid] = s.live.coid],
                            !.live = NoOrder, !.cancel = TRUE]
  <2>5. y = t
    <3>1. e = [s EXCEPT !.out = Append(s.out, a)]
      BY DEF Emit
    <3>2. e.cancel_ctx = s.cancel_ctx
      BY <1>1, <3>1 DEF State
    <3>3. (IF s.live.oid = None THEN e.cancel_ctx ELSE [e.cancel_ctx EXCEPT ![s.live.oid] = s.live.coid]) = x
      BY <2>1, <3>2
    <3>4. y = [e EXCEPT !.cancel_ctx = x, !.live = NoOrder, !.cancel = TRUE]
      BY <3>3
    <3> HIDE DEF x, y, e
    <3> QED
      BY <1>1, <3>1, <3>4 DEF State
  <2>6. t.pending = NoOrder
    BY <1>1 DEF Settled, State
  <2>7. _cancel_live_if_any(s) = t
    BY <1>3, <2>5, <2>6 DEF Settled, _cancel_live_if_any
  <2> HIDE DEF a, x, t
  <2>8. t \in State
    BY <1>1, <2>3, <2>4, NoOrderType DEF State, t
  <2>9. /\ t.out = Append(s.out, a) /\ t.cancel_ctx = x /\ t.live = NoOrder /\ t.amend = s.amend
        /\ t.contracts = s.contracts /\ t.remaining = s.remaining /\ t.phase = s.phase
        /\ t.done = s.done /\ t.booked = s.booked /\ t.cross = s.cross /\ t.batches = s.batches
        /\ t.stood_down = s.stood_down /\ t.coid_seq = s.coid_seq
    BY <1>1 DEF State, t
  <2>10. AsksCancel(s, t)
    BY <1>3, <2>3, <2>6, <2>9 DEF AsksCancel, Settled, a
  <2>11. Alike(s, t)
    BY <2>8, <2>9 DEF Alike
  <2> QED
    BY <2>4, <2>7, <2>9, <2>10, <2>11 DEF Asks
<1> QED
  BY <1>2, <1>3

\* A decision on a settled core asks for at most one order (_requote).
LEMMA Requote ==
  ASSUME NEW s, Settled(s), NEW ctx \in Context
  PROVE  Asks(s, _requote(s, ctx))
<1> DEFINE c == _cancel_live_if_any(s)
<1>1. /\ s \in State /\ s.out \in Seq(Action) /\ s.live \in Order
      /\ s.coid_seq \in Nat /\ s.remaining \in Nat /\ s.spot \in Spots
      /\ s.phase \in {"warmup", "window", "past", "cutoff"}
  BY DEF Settled, State
<1>2. s.pending = NoOrder /\ ~s.cancel /\ ~s.amend
  BY DEF Settled
<1>3. s.coid_seq + 1 \in Coids
  BY <1>1, RestAssumption DEF Settled, Coids
<1>4. /\ Asks(s, c)
      /\ \/ LeavesAlone(s, c) /\ c = s /\ c.live = NoOrder
         \/ AsksCancel(s, c) /\ c.out # s.out
  BY CancelLive
<1> HIDE DEF c
<1>5. LeavesAlone(s, s) /\ Alike(s, s)
  BY <1>1, <1>2 DEF LeavesAlone, Alike
<1>6. Asks(s, [c EXCEPT !.stood_down = TRUE])
  <2> DEFINE t == [c EXCEPT !.stood_down = TRUE]
  <2>1. c \in State
    BY <1>4 DEF Asks, Alike
  <2>2. /\ t \in State /\ t.stood_down
        /\ t.out = c.out /\ t.cancel_ctx = c.cancel_ctx /\ t.live = c.live /\ t.amend = c.amend
        /\ t.cancel = c.cancel /\ t.pending = c.pending
        /\ t.contracts = c.contracts /\ t.remaining = c.remaining /\ t.phase = c.phase
        /\ t.done = c.done /\ t.booked = c.booked /\ t.cross = c.cross /\ t.batches = c.batches
        /\ t.coid_seq = c.coid_seq
    BY <2>1 DEF State
  <2> HIDE DEF t
  <2>3. Alike(s, t)
    BY <1>4, <2>2 DEF Asks, Alike
  <2>4. LeavesAlone(s, t) \/ AsksCancel(s, t)
    BY <1>4, <2>2 DEF LeavesAlone, AsksCancel
  <2> QED
    BY <2>3, <2>4 DEF Asks, t
<1>7. Asks(s, LeaveBucket(s))
  <2> DEFINE t == [c EXCEPT !.cancel = @ \/ c.out # s.out, !.live = NoOrder, !.awaiting = TRUE,
                            !.bucket = None]
  <2>1. c \in State /\ None \in Spots
    BY <1>4 DEF Asks, Alike, Spots
  <2>2. /\ t \in State /\ t.stood_down = c.stood_down
        /\ t.out = c.out /\ t.cancel_ctx = c.cancel_ctx /\ t.live = NoOrder /\ t.amend = c.amend
        /\ t.cancel = (c.cancel \/ c.out # s.out) /\ t.pending = c.pending
        /\ t.contracts = c.contracts /\ t.remaining = c.remaining /\ t.phase = c.phase
        /\ t.done = c.done /\ t.booked = c.booked /\ t.cross = c.cross /\ t.batches = c.batches
        /\ t.coid_seq = c.coid_seq
    <3>1. (c.cancel \/ c.out # s.out) \in BOOLEAN
      OBVIOUS
    <3>2. t \in State
      BY <2>1, <3>1, NoOrderType DEF State
    <3> QED
      BY <2>1, <3>2 DEF State
  <2>3. LeaveBucket(s) = t
    BY DEF LeaveBucket, c
  <2> HIDE DEF t
  <2>4. Alike(s, t)
    BY <1>4, <2>2 DEF Asks, Alike
  <2>5. LeavesAlone(s, t) \/ AsksCancel(s, t)
    <3>1. CASE LeavesAlone(s, c) /\ c = s /\ c.live = NoOrder
      BY <1>2, <2>2, <3>1 DEF LeavesAlone
    <3>2. CASE AsksCancel(s, c)
      BY <2>2, <3>2 DEF AsksCancel
    <3> QED
      BY <1>4, <3>1, <3>2
  <2> QED
    BY <2>3, <2>4, <2>5 DEF Asks
<1>8. ASSUME s.live = NoOrder, s.phase = "window", ~s.stood_down, ~s.done
      PROVE  Asks(s, _emit_place([s EXCEPT !.awaiting = FALSE]))
  <2> DEFINE w == [s EXCEPT !.awaiting = FALSE]
             order == [coid |-> s.coid_seq + 1, oid |-> None, count |-> s.remaining]
             a == Act("place", order, s.remaining, None)
             t == [w EXCEPT !.out = Append(s.out, a), !.coid_seq = s.coid_seq + 1, !.pending = order,
                            !.bucket = s.spot]
  <2>1. order \in Order /\ a \in Action
    <3>1. order \in Order
      BY <1>1, <1>3 DEF Order
    <3> QED
      BY <1>1, <3>1, RequestType
  <2>2. /\ w \in State /\ w.coid_seq = s.coid_seq /\ w.remaining = s.remaining /\ w.spot = s.spot
        /\ w.out = s.out
    BY <1>1 DEF State
  <2>3. _emit_place(w) = t
    BY <2>2 DEF _emit_place, Emit, State
  <2>4. Append(s.out, a) \in Seq(Action) /\ s.coid_seq + 1 \in Nat
    BY <1>1, <2>1
  <2> HIDE DEF a, order
  <2>5. /\ t \in State
        /\ t.out = Append(s.out, a) /\ t.live = s.live /\ t.amend = s.amend
        /\ t.cancel = s.cancel /\ t.pending = order /\ t.stood_down = s.stood_down
        /\ t.contracts = s.contracts /\ t.remaining = s.remaining /\ t.phase = s.phase
        /\ t.done = s.done /\ t.booked = s.booked /\ t.cross = s.cross /\ t.batches = s.batches
        /\ t.coid_seq = s.coid_seq + 1
    <3>1. t \in State
      BY <1>1, <2>1, <2>2, <2>4 DEF State
    <3> QED
      BY <1>1, <3>1 DEF State
  <2> HIDE DEF t, w
  <2>6. Alike(s, t)
    BY <2>5 DEF Alike
  <2>7. AsksPlace(s, t)
    BY <1>2, <1>8, <2>5 DEF AsksPlace, a, order
  <2> QED
    BY <2>3, <2>6, <2>7 DEF Asks, w
<1>9. ASSUME s.live # NoOrder, ~s.done
      PROVE  Asks(s, _emit_amend(s))
  <2> DEFINE a == Act("amend", s.live, s.remaining, s.coid_seq + 1)
             t == [s EXCEPT !.out = Append(s.out, a), !.coid_seq = s.coid_seq + 1, !.amend = TRUE]
  <2>1. a \in Action
    BY <1>1, <1>3, RequestType
  <2>2. _emit_amend(s) = t
    BY <1>1 DEF _emit_amend, Emit, State
  <2>3. Append(s.out, a) \in Seq(Action) /\ s.coid_seq + 1 \in Nat
    BY <1>1, <2>1
  <2> HIDE DEF a
  <2>4. /\ t \in State
        /\ t.out = Append(s.out, a) /\ t.live = s.live
        /\ t.cancel = s.cancel /\ t.pending = s.pending /\ t.stood_down = s.stood_down
        /\ t.contracts = s.contracts /\ t.remaining = s.remaining /\ t.phase = s.phase
        /\ t.done = s.done /\ t.booked = s.booked /\ t.cross = s.cross /\ t.batches = s.batches
        /\ t.coid_seq = s.coid_seq + 1
    <3>1. t \in State
      BY <1>1, <2>3 DEF State
    <3> QED
      BY <1>1, <3>1 DEF State
  <2> HIDE DEF t
  <2>5. Alike(s, t)
    BY <2>4 DEF Alike
  <2>6. AsksAmend(s, t)
    BY <1>2, <1>9, <2>4 DEF AsksAmend, a
  <2> QED
    BY <2>2, <2>5, <2>6 DEF Asks
<1>10. Asks(s, s)
  BY <1>5 DEF Asks
<1>11. CASE s.done
  BY <1>4, <1>11 DEF _requote, c
<1>12. CASE ~s.done /\ ctx.alarm /\ ~s.stood_down
  BY <1>6, <1>12 DEF _requote, c
<1>13. CASE ~s.done /\ ~(ctx.alarm /\ ~s.stood_down)
  <2>1. CASE s.stood_down \/ s.phase \in {"past", "cutoff"}
    BY <1>4, <1>13, <2>1 DEF _requote, c
  <2>2. CASE ~(s.stood_down \/ s.phase \in {"past", "cutoff"})
    <3>1. s.phase = "window" \/ s.phase = "warmup"
      BY <1>1, <2>2
    <3>2. _requote(s, ctx) =
            IF s.phase = "warmup" THEN s
            ELSE IF ~ctx.quote THEN c
            ELSE IF s.bucket \notin {None, s.spot} /\ ~s.amend THEN LeaveBucket(s)
            ELSE IF s.pending # NoOrder \/ (s.awaiting /\ s.cancel) \/ s.amend \/ s.remaining < 1 THEN s
            ELSE IF s.live = NoOrder THEN _emit_place([s EXCEPT !.awaiting = FALSE])
            ELSE IF ctx.moved THEN _emit_amend(s)
            ELSE s
      BY <1>13, <2>2 DEF _requote, c
    <3>3. Asks(s, IF s.live = NoOrder THEN _emit_place([s EXCEPT !.awaiting = FALSE])
                  ELSE IF ctx.moved THEN _emit_amend(s) ELSE s)
          \/ s.phase = "warmup"
      BY <1>8, <1>9, <1>10, <1>13, <2>2, <3>1
    <3> QED
      BY <1>4, <1>7, <1>10, <3>2, <3>3
  <2> QED
    BY <2>1, <2>2
<1> QED
  BY <1>11, <1>12, <1>13

-----------------------------------------------------------------------------
(* The invariant is kept: the decisions *)

\* t is s after its actions were taken out, and perhaps stood down
Like(s, t) ==
  /\ t \in State /\ t.out = <<>>
  /\ t.contracts = s.contracts /\ t.remaining = s.remaining /\ t.phase = s.phase
  /\ t.live = s.live /\ t.pending = s.pending /\ t.done = s.done
  /\ t.amend = s.amend /\ t.cancel = s.cancel /\ t.booked = s.booked
  /\ t.cancel_ctx = s.cancel_ctx /\ t.cross = s.cross /\ t.batches = s.batches
  /\ t.coid_seq = s.coid_seq

\* The executor's latch reaches the core with the last action (_apply_executor_standdown).
LEMMA StandDown ==
  ASSUME NEW s \in State, NEW d \in BOOLEAN, NEW l,
         NEW t, t = _apply_executor_standdown([s EXCEPT !.out = <<>>], d, l)
  PROVE  Like(s, t) /\ (t.stood_down <=> s.stood_down \/ (l = <<>> /\ d))
<1> DEFINE r == [s EXCEPT !.out = <<>>]
<1>1. r \in State /\ Like(s, r) /\ r.stood_down = s.stood_down /\ s.stood_down \in BOOLEAN
  <2>1. r \in State
    <3>1. <<>> \in Seq(Action)
      OBVIOUS
    <3> QED
      BY <3>1 DEF State
  <2>2. /\ r.out = <<>> /\ r.contracts = s.contracts /\ r.remaining = s.remaining /\ r.phase = s.phase
        /\ r.live = s.live /\ r.pending = s.pending /\ r.done = s.done
        /\ r.amend = s.amend /\ r.cancel = s.cancel /\ r.booked = s.booked
        /\ r.cancel_ctx = s.cancel_ctx /\ r.cross = s.cross /\ r.batches = s.batches
        /\ r.coid_seq = s.coid_seq /\ r.stood_down = s.stood_down
    BY DEF State
  <2>3. s.stood_down \in BOOLEAN
    BY DEF State
  <2> HIDE DEF r
  <2> QED
    BY <2>1, <2>2, <2>3 DEF Like
<1> HIDE DEF r
<1>2. CASE l = <<>> /\ d
  <2>1. t = [r EXCEPT !.stood_down = TRUE]
    BY <1>2 DEF _apply_executor_standdown, r
  <2>2. t \in State
    BY <1>1, <2>1 DEF State
  <2>3. r.out = <<>>
    BY <1>1 DEF Like
  <2>4. /\ t.out = <<>> /\ t.stood_down
        /\ t.contracts = r.contracts /\ t.remaining = r.remaining /\ t.phase = r.phase
        /\ t.live = r.live /\ t.pending = r.pending /\ t.done = r.done
        /\ t.amend = r.amend /\ t.cancel = r.cancel /\ t.booked = r.booked
        /\ t.cancel_ctx = r.cancel_ctx /\ t.cross = r.cross /\ t.batches = r.batches
        /\ t.coid_seq = r.coid_seq
    BY <1>1, <2>1, <2>3 DEF State
  <2> QED
    BY <1>1, <1>2, <2>2, <2>4 DEF Like
<1>3. CASE ~(l = <<>> /\ d)
  <2>1. t = r
    BY <1>3 DEF _apply_executor_standdown, r
  <2> QED
    BY <1>1, <1>3, <2>1
<1> QED
  BY <1>2, <1>3

\* The actions of a decision are executed next (_pump, OnTick).
LEMMA Decides ==
  ASSUME RestTypeOK, NEW t \in State, Decided(t)
  PROVE  /\ Like(t, core') /\ (core'.stood_down <=> t.stood_down \/ (t.out = <<>> /\ exec.down))
         /\ acts' = t.out
<1>1. exec.down \in BOOLEAN
  BY DEF RestTypeOK, Executor
<1> QED
  BY <1>1, StandDown DEF Decided

\* A core that has nothing to emit is not changed by taking its actions out.
LEMMA Emptied ==
  ASSUME core \in State, core.out = <<>>
  PROVE  [core EXCEPT !.out = <<>>] = core
BY DEF State

\* The answers of the wings change the legs of the batches (_apply_wings).
LEMMA WingsSettle ==
  ASSUME core \in State, NEW e \in WingEvent
  PROVE  LET t == _apply_wings(core, e)
         IN /\ t \in State /\ t.out = core.out
            /\ t.contracts = core.contracts /\ t.remaining = core.remaining /\ t.phase = core.phase
            /\ t.live = core.live /\ t.pending = core.pending /\ t.done = core.done
            /\ t.amend = core.amend /\ t.cancel = core.cancel /\ t.booked = core.booked
            /\ t.cancel_ctx = core.cancel_ctx /\ t.cross = core.cross
            /\ t.coid_seq = core.coid_seq /\ t.stood_down = core.stood_down
            /\ Len(t.batches) = Len(core.batches)
            /\ \A i \in 1..Len(core.batches) : t.batches[i].n = core.batches[i].n
<1> DEFINE B == [i \in DOMAIN core.batches |-> _maybe_close_set(Answered(core, e, i))]
           t == [core EXCEPT !.batches = B]
<1>1. core.batches \in Seq(Batch) /\ Len(core.batches) \in Nat
      /\ DOMAIN core.batches = 1..Len(core.batches)
      /\ \A i \in 1..Len(core.batches) : core.batches[i] \in Batch
  BY DEF State
<1>2. ASSUME NEW i \in 1..Len(core.batches)
      PROVE  B[i] \in Batch /\ B[i].n = core.batches[i].n
  <2> DEFINE legs == [d \in Sides |-> IF <<i, d>> \notin e.sent THEN core.batches[i].legs[d]
                                      ELSE IF <<i, d>> \in e.got THEN "filled" ELSE "unfilled"]
             b == [core.batches[i] EXCEPT !.legs = legs]
  <2>1. core.batches[i] \in Batch /\ core.batches[i].legs \in [Sides -> {"none", "pending", "filled", "unfilled"}]
    BY <1>1 DEF Batch
  <2>2. legs \in [Sides -> {"none", "pending", "filled", "unfilled"}]
    BY <2>1
  <2>3. Answered(core, e, i) = b
    BY DEF Answered
  <2> HIDE DEF legs
  <2>4. b \in Batch /\ b.n = core.batches[i].n
    BY <2>1, <2>2 DEF Batch
  <2> HIDE DEF b
  <2>5. _maybe_close_set(b) \in Batch /\ _maybe_close_set(b).n = b.n
    BY <2>4 DEF _maybe_close_set, Batch
  <2>6. B[i] = _maybe_close_set(b)
    BY <1>1, <2>3
  <2> QED
    BY <2>4, <2>5, <2>6
<1>3. B \in Seq(Batch) /\ Len(B) = Len(core.batches)
  <2>1. B \in [1..Len(core.batches) -> Batch]
    BY <1>1, <1>2
  <2> QED
    BY <1>1, <2>1, FunctionIsList
<1>4. _apply_wings(core, e) = t
  BY DEF _apply_wings
<1> HIDE DEF B
<1>5. t \in State
  BY <1>3 DEF State
<1>6. /\ t.out = core.out /\ t.batches = B
      /\ t.contracts = core.contracts /\ t.remaining = core.remaining /\ t.phase = core.phase
      /\ t.live = core.live /\ t.pending = core.pending /\ t.done = core.done
      /\ t.amend = core.amend /\ t.cancel = core.cancel /\ t.booked = core.booked
      /\ t.cancel_ctx = core.cancel_ctx /\ t.cross = core.cross
      /\ t.coid_seq = core.coid_seq /\ t.stood_down = core.stood_down
  BY DEF State
<1> HIDE DEF t
<1> QED
  BY <1>2, <1>3, <1>4, <1>5, <1>6

\* A report is decided: HoldInv and SlotInv are kept (_pump).
LEMMA ReportKeeps ==
  ASSUME IInv, acts = <<>>, queue # <<>>, Head(queue).kind # "wings", NEW now \in Nows,
         Decided(decide_v32(core, Head(queue), now)), queue' = Tail(queue),
         UNCHANGED <<mode, exec, venue, notices, ticks, faults>>
  PROVE  IInv'
<1> DEFINE e == Head(queue)
           t == decide_v32(core, e, now)
<1>1. RestTypeOK /\ HoldInv /\ SlotInv
  BY DEF IInv
<1>2. Requests = {} /\ queue \in Seq(AnyEvent) /\ OneReport(queue)
  BY <1>1 DEF Requests, RequestsOf, RestTypeOK, HoldInv, OneRequest
<1>3. /\ queue' \in Seq(AnyEvent) /\ OneReport(queue') /\ Reports = {e} /\ Reports' = {}
  BY <1>2, ReportHeard DEF Reports
<1>4. e \in AnyEvent /\ e \in Reports
  <2>1. e \in AnyEvent
    BY <1>2
  <2> QED
    BY <1>3, <2>1
<1>5. (e \in OrderEvent /\ e.kind \in {"ack", "amended", "cancelled", "fill"}) \/ e \in LateEvent
  BY <1>4 DEF AnyEvent, OrderEvent, WingEvent
<1>6. Settles(e, t)
  BY <1>4, <1>5, AckSettles, CancelledSettles, AmendedSettles, FillSettles, LateSettles
<1> HIDE DEF e, t
<1>7. t \in State /\ t.out \in Seq(Take)
  BY <1>6 DEF Settles
<1>8. /\ Like(t, core') /\ (core'.stood_down <=> t.stood_down \/ (t.out = <<>> /\ exec.down))
      /\ acts' = t.out
  BY <1>1, <1>7, Decides DEF e, t
<1>9. acts' \in Seq(Action) /\ AskedLast(acts') /\ Requests' = {}
  BY <1>7, <1>8, TakesOnly DEF Requests
<1>10. /\ core' \in State /\ core'.out = <<>> /\ core'.coid_seq = core.coid_seq
       /\ core'.live = t.live /\ core'.pending = NoOrder /\ ~core'.cancel /\ ~core'.amend
       /\ core'.done = t.done
  BY <1>6, <1>8 DEF Like, Settles
<1>11. RestTypeOK'
  BY <1>1, <1>3, <1>9, <1>10 DEF RestTypeOK
<1>12. HoldInv'
  <2>1. OneRequest'
    BY <1>3, <1>9 DEF OneRequest
  <2>2. RequestFits'
    BY <1>9 DEF RequestFits
  <2>3. ReportFits'
    BY <1>3 DEF ReportFits
  <2>4. Latched'
    BY <1>3, <1>6, <1>8, <1>9, <1>10 DEF Latched, Settles
  <2>5. Clear'
    BY <1>10 DEF Clear
  <2>6. core'.live # NoOrder => core'.live.oid # None /\ core'.live.coid # None
    BY <1>6, <1>10 DEF Settles
  <2>7. core'.live.coid <= core'.coid_seq /\ core'.pending.coid <= core'.coid_seq
    <3>1. core.coid_seq \in Nat /\ core.live.coid <= core.coid_seq /\ core.pending.coid <= core.coid_seq
      BY <1>1 DEF RestTypeOK, State, HoldInv
    <3>2. e.kind \in {"ack", "amended"} => e.coid <= core.coid_seq
      BY <1>1, <1>4, <3>1 DEF HoldInv, ReportFits
    <3>3. t.live # NoOrder => t.live.coid <= core.coid_seq
      BY <1>6, <3>1, <3>2 DEF Settles
    <3> QED
      BY <1>10, <3>1, <3>3, NoOrderType DEF None
  <2> QED
    BY <2>1, <2>2, <2>3, <2>4, <2>5, <2>6, <2>7 DEF HoldInv
<1>13. SlotInv'
  <2>1. CASE mode = "dry"
    BY <1>1, <2>1 DEF SlotInv
  <2>2. CASE mode # "dry"
    <3>1. /\ Booked /\ Known
          /\ \A o, p \in Open \cap Own : o = p
          /\ \A o \in DOMAIN venue : Loose(o) => Tracked(o)
          /\ \A x \in Reports : x.kind = "cancelled" /\ x.oid # None =>
               x.oid \in DOMAIN venue /\ (exec.down \/ ~Loose(x.oid))
      BY <1>1, <2>2 DEF SlotInv
    <3>2. Booked'
      BY <1>9, <1>10, <3>1 DEF Booked, Own
    <3>3. Known'
      <4>1. t.live # NoOrder => t.live.oid \in DOMAIN venue /\ exec.by_oid[t.live.oid] # None
        <5>1. CASE e.kind = "ack"
          BY <1>4, <1>6, <3>1, <5>1 DEF Settles, Known
        <5>2. CASE e.kind # "ack"
          <6>1. t.live # NoOrder => t.live.oid = core.live.oid /\ core.live # NoOrder
            BY <1>6, <5>2, NoOrderType DEF Settles
          <6> QED
            BY <3>1, <6>1 DEF Known
        <5> QED
          BY <5>1, <5>2
      <4> QED
        BY <1>3, <1>9, <1>10, <4>1 DEF Known
    <3>4. ASSUME NEW o \in DOMAIN venue, Loose(o) PROVE Tracked(o)'
      <4>1. o \in Oids /\ o # None
        <5>1. o \in 1..MaxOrders
          BY <1>1, RestAssumption DEF RestTypeOK
        <5> QED
          BY <5>1, Identifiers, RestAssumption DEF Oids
      <4>2. Tracked(o)
        BY <3>1, <3>4
      <4>3. o = core.live.oid \/ core.done \/ exec.down \/ (e.kind = "ack" /\ e.oid = o)
        BY <1>2, <1>3, <4>2 DEF Tracked
      <4>4. CASE o = core.live.oid
        <5>1. core.live # NoOrder
          BY <4>1, <4>4, NoOrderType
        <5>2. t.done \/ t.live.oid = o \/ exec.down
          BY <1>4, <1>6, <3>1, <3>4, <4>1, <4>4, <5>1 DEF Settles
        <5> QED
          BY <1>10, <5>2 DEF Tracked
      <4>5. CASE core.done
        BY <1>6, <1>10, <4>5 DEF Settles, Tracked
      <4>6. CASE exec.down
        BY <4>6 DEF Tracked
      <4>7. CASE e.kind = "ack" /\ e.oid = o
        BY <1>6, <1>10, <4>7 DEF Settles, Tracked
      <4> QED
        BY <4>3, <4>4, <4>5, <4>6, <4>7
    <3>5. \A o \in DOMAIN venue' : Loose(o)' => Tracked(o)'
      BY <3>4 DEF Loose
    <3>6. \A o, p \in (Open \cap Own)' : o = p
      BY <3>1 DEF Open, Own
    <3> QED
      BY <1>3, <1>9, <2>2, <3>2, <3>3, <3>5, <3>6 DEF SlotInv
  <2> QED
    BY <2>1, <2>2
<1> QED
  BY <1>11, <1>12, <1>13 DEF IInv

\* An event of the wings touches neither the orders nor the holds.
LEMMA WingsKeep ==
  ASSUME IInv, acts = <<>>, queue # <<>>, Head(queue).kind = "wings", NEW now \in Nows,
         Decided(decide_v32(core, Head(queue), now)), queue' = Tail(queue),
         UNCHANGED <<mode, exec, venue, notices, ticks, faults>>
  PROVE  IInv'
<1> DEFINE e == Head(queue)
           t == decide_v32(core, e, now)
<1>1. RestTypeOK /\ HoldInv /\ SlotInv
  BY DEF IInv
<1>2. Requests = {} /\ queue \in Seq(AnyEvent) /\ OneReport(queue) /\ core \in State /\ core.out = <<>>
  BY <1>1 DEF Requests, RequestsOf, RestTypeOK, HoldInv, OneRequest
<1>3. queue' \in Seq(AnyEvent) /\ OneReport(queue') /\ Reports' = Reports
  BY <1>2, WingsHeard DEF Reports
<1>4. e \in WingEvent
  <2>1. e \in AnyEvent
    BY <1>2
  <2> QED
    BY <2>1 DEF AnyEvent, OrderEvent, LateEvent
<1>5. t = _apply_wings(core, e)
  BY DEF decide_v32
<1> HIDE DEF e, t
<1>6. /\ t \in State /\ t.out = <<>>
      /\ t.contracts = core.contracts /\ t.phase = core.phase
      /\ t.live = core.live /\ t.pending = core.pending /\ t.done = core.done
      /\ t.amend = core.amend /\ t.cancel = core.cancel
      /\ t.coid_seq = core.coid_seq /\ t.stood_down = core.stood_down
  BY <1>2, <1>4, <1>5, WingsSettle
<1>7. /\ Like(t, core') /\ (core'.stood_down <=> t.stood_down \/ (t.out = <<>> /\ exec.down))
      /\ acts' = t.out
  BY <1>1, <1>6, Decides DEF e, t
<1>8. acts' = <<>> /\ acts' \in Seq(Action) /\ AskedLast(acts') /\ Requests' = {}
  BY <1>6, <1>7 DEF AskedLast, Requests, RequestsOf
<1>9. /\ core' \in State /\ core'.out = <<>> /\ core'.coid_seq = core.coid_seq
      /\ core'.live = core.live /\ core'.pending = core.pending /\ core'.cancel = core.cancel
      /\ core'.amend = core.amend /\ core'.done = core.done
      /\ exec.down => core'.stood_down
  BY <1>6, <1>7 DEF Like
<1>10. RestTypeOK'
  BY <1>1, <1>3, <1>8, <1>9 DEF RestTypeOK
<1>11. HoldInv'
  <2>1. OneRequest'
    BY <1>3, <1>8 DEF OneRequest
  <2>2. RequestFits'
    BY <1>8 DEF RequestFits
  <2>3. ReportFits'
    BY <1>1, <1>3, <1>9 DEF HoldInv, ReportFits, Clear
  <2>4. Latched'
    BY <1>1, <1>3, <1>8, <1>9 DEF HoldInv, Latched
  <2>5. Requests' = {} /\ Reports' = {} => Clear'
    BY <1>1, <1>2, <1>3, <1>9 DEF HoldInv, Clear
  <2>6. /\ core'.live # NoOrder => core'.live.oid # None /\ core'.live.coid # None
        /\ core'.live.coid <= core'.coid_seq /\ core'.pending.coid <= core'.coid_seq
    BY <1>1, <1>9 DEF HoldInv
  <2> QED
    BY <2>1, <2>2, <2>3, <2>4, <2>5, <2>6 DEF HoldInv
<1>12. SlotInv'
  <2>1. CASE mode = "dry"
    BY <1>1, <2>1 DEF SlotInv
  <2>2. CASE mode # "dry"
    <3>1. /\ Booked /\ Known
          /\ \A o, p \in Open \cap Own : o = p
          /\ \A o \in DOMAIN venue : Loose(o) => Tracked(o)
          /\ \A x \in Reports : x.kind = "cancelled" /\ x.oid # None =>
               x.oid \in DOMAIN venue /\ (exec.down \/ ~Loose(x.oid))
      BY <1>1, <2>2 DEF SlotInv
    <3>2. Booked'
      BY <1>8, <1>9, <3>1 DEF Booked, Own
    <3>3. Known'
      BY <1>3, <1>8, <1>9, <3>1 DEF Known
    <3>4. \A o \in DOMAIN venue' : Loose(o)' => Tracked(o)'
      BY <1>2, <1>3, <1>8, <1>9, <3>1 DEF Loose, Tracked
    <3>5. \A o, p \in (Open \cap Own)' : o = p
      BY <3>1 DEF Open, Own
    <3>6. \A x \in Reports' : x.kind = "cancelled" /\ x.oid # None =>
               x.oid \in DOMAIN venue' /\ (exec'.down \/ ~Loose(x.oid)')
      BY <1>3, <3>1 DEF Loose
    <3> QED
      BY <1>8, <2>2, <3>2, <3>3, <3>4, <3>5, <3>6 DEF SlotInv
  <2> QED
    BY <2>1, <2>2
<1> QED
  BY <1>10, <1>11, <1>12 DEF IInv

\* The pump keeps the invariant (_pump).
LEMMA PumpKeeps == IInv /\ _pump => IInv'
BY ReportKeeps, WingsKeep DEF _pump

\* what a tick makes of the core: s is the core with the books as they are now, its wings sent
TickedFrom(s) ==
  /\ Settled(s)
  /\ s.contracts = core.contracts /\ s.remaining = core.remaining
  /\ s.live = core.live /\ s.done = core.done /\ s.stood_down = core.stood_down
  /\ s.booked = core.booked /\ s.cross = core.cross /\ s.coid_seq = core.coid_seq
  /\ Len(s.batches) = Len(core.batches)
  /\ \A i \in 1..Len(core.batches) : s.batches[i].n = core.batches[i].n

TickTakes(s, t) ==
  /\ TickedFrom(s) /\ Asks(s, t) /\ Like(t, core') /\ acts' = t.out
  /\ core'.stood_down = t.stood_down
  /\ Later(core.phase, t.phase)

\* A tick decides on a core on which nothing is under way (OnTick).
LEMMA TickDecides ==
  ASSUME IInv, OnTick
  PROVE  \E s, t : TickTakes(s, t)
<1>1. PICK ctx \in Contexts :
        core.coid_seq < MaxCoids /\ Decided(Tick(core, ctx)) /\ Later(core.phase, ctx.phase)
  BY DEF OnTick
<1>2. ctx \in Context /\ ctx.wings \in BOOLEAN /\ ctx.lock \in BOOLEAN
  <2>1. ctx \in Context
    BY RestAssumption
  <2> QED
    BY <2>1 DEF Context
<1>3. queue = <<>> /\ acts = <<>> /\ RestTypeOK /\ HoldInv
  BY DEF OnTick, Quiet, IInv
<1>4. Requests = {} /\ Reports = {}
  BY <1>3 DEF Requests, Reports, RequestsOf, ReportsOf
<1>5. /\ Clear /\ (exec.down => core.stood_down) /\ core \in State /\ core.out = <<>>
      /\ core.live # NoOrder => core.live.oid # None /\ core.live.coid # None
  BY <1>3, <1>4 DEF HoldInv, Latched, RestTypeOK
<1> DEFINE r == [core EXCEPT !.spot = ctx.spot, !.wings = ctx.wings, !.lock = ctx.lock,
                             !.phase = ctx.phase]
           s == _wing_step(r, ctx)
           t == _requote(s, ctx)
<1>6. /\ r \in State /\ r.out = <<>> /\ r.phase = ctx.phase
      /\ r.contracts = core.contracts /\ r.remaining = core.remaining
      /\ r.live = core.live /\ r.pending = core.pending /\ r.done = core.done
      /\ r.stood_down = core.stood_down /\ r.amend = core.amend /\ r.cancel = core.cancel
      /\ r.booked = core.booked /\ r.cross = core.cross /\ r.coid_seq = core.coid_seq
      /\ r.batches = core.batches
  <2>1. ctx.spot \in Spots /\ ctx.phase \in {"warmup", "window", "past", "cutoff"}
    BY <1>2 DEF Context, Spots
  <2>2. r \in State
    BY <1>2, <1>5, <2>1 DEF State
  <2> QED
    BY <1>5, <2>2 DEF State
<1>7. Tick(core, ctx) = t
  BY DEF Tick
<1> HIDE DEF r
<1>8. Winged(r, s)
  BY <1>2, <1>6, WingStep
<1> HIDE DEF s
<1>9. /\ s \in State /\ s.out \in Seq(Take) /\ s.phase = r.phase
      /\ s.contracts = r.contracts /\ s.remaining = r.remaining
      /\ s.live = r.live /\ s.pending = r.pending /\ s.done = r.done
      /\ s.stood_down = r.stood_down /\ s.amend = r.amend /\ s.cancel = r.cancel
      /\ s.booked = r.booked /\ s.cross = r.cross /\ s.coid_seq = r.coid_seq
      /\ Len(s.batches) = Len(r.batches)
      /\ \A i \in 1..Len(r.batches) : s.batches[i].n = r.batches[i].n
  BY <1>6, <1>8, WingedFields
<1>10. Settled(s)
  BY <1>1, <1>5, <1>6, <1>9 DEF Settled, Clear
<1>11. TickedFrom(s)
  BY <1>6, <1>9, <1>10 DEF TickedFrom
<1>12. Asks(s, t)
  BY <1>2, <1>10, Requote
<1> HIDE DEF t
<1>13. t \in State /\ (s.stood_down => t.stood_down) /\ t.phase = ctx.phase
  BY <1>6, <1>9, <1>12 DEF Asks, Alike
<1>14. /\ Like(t, core') /\ (core'.stood_down <=> t.stood_down \/ (t.out = <<>> /\ exec.down))
       /\ acts' = t.out
  BY <1>1, <1>3, <1>7, <1>13, Decides
<1>15. core'.stood_down = t.stood_down
  <2>1. core'.stood_down \in BOOLEAN /\ t.stood_down \in BOOLEAN
    BY <1>13, <1>14 DEF Like, State
  <2> QED
    BY <1>5, <1>6, <1>9, <1>13, <1>14, <2>1
<1>16. TickTakes(s, t)
  BY <1>1, <1>11, <1>12, <1>13, <1>14, <1>15 DEF TickTakes
<1> QED
  BY <1>16

\* A tick asks for nothing, or for one order (OnTick).
LEMMA TickAsks ==
  ASSUME IInv, NEW s, TickedFrom(s), NEW t, Asks(s, t), Like(t, core'), acts' = t.out
  PROVE  /\ acts' \in Seq(Action) /\ AskedLast(acts')
         /\ \/ LeavesAlone(s, t) /\ Requests' = {}
            \/ /\ AsksCancel(s, t)
               /\ Requests' = {Act("cancel", s.live, 0, None)}
            \/ /\ AsksPlace(s, t)
               /\ Requests' = {Act("place", t.pending, s.remaining, None)}
            \/ /\ AsksAmend(s, t)
               /\ Requests' = {Act("amend", s.live, s.remaining, s.coid_seq + 1)}
<1>1. /\ s \in State /\ s.out \in Seq(Take) /\ t \in State /\ s.live \in Order /\ t.pending \in Order
      /\ s.remaining \in Nat /\ s.coid_seq + 1 \in Coids
  <2>1. s \in State /\ s.out \in Seq(Take) /\ t \in State /\ s.coid_seq < MaxCoids
    BY DEF TickedFrom, Settled, Asks, Alike
  <2>2. s.live \in Order /\ t.pending \in Order /\ s.remaining \in Nat /\ s.coid_seq \in Nat
    BY <2>1 DEF State
  <2>3. s.coid_seq + 1 \in Coids
    BY <2>1, <2>2, RestAssumption DEF Coids
  <2> QED
    BY <2>1, <2>2, <2>3
<1>2. CASE LeavesAlone(s, t)
  BY <1>1, <1>2, TakesOnly DEF LeavesAlone, Requests
<1>3. CASE AsksCancel(s, t)
  <2>1. Act("cancel", s.live, 0, None) \in Action /\ Act("cancel", s.live, 0, None).kind # "take"
    BY <1>1, RequestType DEF Act
  <2> QED
    BY <1>1, <1>3, <2>1, RequestLast DEF AsksCancel, Requests
<1>4. CASE AsksPlace(s, t)
  <2>1. Act("place", t.pending, s.remaining, None) \in Action
        /\ Act("place", t.pending, s.remaining, None).kind # "take"
    BY <1>1, RequestType DEF Act
  <2> QED
    BY <1>1, <1>4, <2>1, RequestLast DEF AsksPlace, Requests
<1>5. CASE AsksAmend(s, t)
  <2>1. Act("amend", s.live, s.remaining, s.coid_seq + 1) \in Action
        /\ Act("amend", s.live, s.remaining, s.coid_seq + 1).kind # "take"
    BY <1>1, RequestType DEF Act
  <2> QED
    BY <1>1, <1>5, <2>1, RequestLast DEF AsksAmend, Requests
<1> QED
  BY <1>2, <1>3, <1>4, <1>5 DEF Asks

\* An order id of the exchange is one of the order ids.
LEMMA VenueIds == RestTypeOK => DOMAIN venue \subseteq Oids /\ None \notin DOMAIN venue
<1> SUFFICES ASSUME RestTypeOK PROVE DOMAIN venue \subseteq 1..MaxOrders
  BY Identifiers, RestAssumption DEF Oids, None
<1> QED
  BY RestAssumption DEF RestTypeOK

\* OnTick keeps the invariant.
LEMMA TickKeeps == IInv /\ OnTick => IInv'
<1> SUFFICES ASSUME IInv, OnTick PROVE IInv'
  OBVIOUS
<1>0. PICK s, t : TickTakes(s, t)
  BY TickDecides
<1>1. /\ TickedFrom(s) /\ Asks(s, t) /\ Like(t, core') /\ acts' = t.out
      /\ core'.stood_down = t.stood_down
  BY <1>0 DEF TickTakes
<1>2. /\ acts' \in Seq(Action) /\ AskedLast(acts')
      /\ \/ LeavesAlone(s, t) /\ Requests' = {}
         \/ /\ AsksCancel(s, t)
            /\ Requests' = {Act("cancel", s.live, 0, None)}
         \/ /\ AsksPlace(s, t)
            /\ Requests' = {Act("place", t.pending, s.remaining, None)}
         \/ /\ AsksAmend(s, t)
            /\ Requests' = {Act("amend", s.live, s.remaining, s.coid_seq + 1)}
  BY <1>1, TickAsks
<1>3. RestTypeOK /\ HoldInv /\ SlotInv /\ queue = <<>> /\ acts = <<>>
      /\ UNCHANGED <<mode, exec, venue, notices, queue, faults>> /\ ticks' = ticks + 1
  BY DEF IInv, OnTick, Quiet
<1>4. Requests = {} /\ Reports = {} /\ Reports' = {}
  BY <1>3 DEF Requests, Reports, RequestsOf, ReportsOf
<1>5. /\ exec.down => core.stood_down
      /\ core.done => core.live = NoOrder
      /\ core.live # NoOrder => core.live.oid # None /\ core.live.coid # None
  BY <1>3, <1>4 DEF HoldInv, Latched
<1>6. /\ s.live = core.live /\ s.done = core.done /\ s.stood_down = core.stood_down
      /\ s.coid_seq = core.coid_seq /\ core.coid_seq < MaxCoids /\ core.coid_seq \in Nat
      /\ s.live \in Order
  BY <1>1, <1>3 DEF TickedFrom, Settled, RestTypeOK, State
<1>7. /\ t.done = s.done /\ (s.stood_down => t.stood_down)
      /\ core' \in State /\ core'.out = <<>> /\ core'.live = t.live /\ core'.pending = t.pending
      /\ core'.cancel = t.cancel /\ core'.amend = t.amend /\ core'.done = t.done
      /\ core'.phase = t.phase /\ core'.coid_seq = t.coid_seq
  BY <1>1 DEF Asks, Alike, Like
<1>8. core'.coid_seq <= MaxCoids /\ core.coid_seq <= core'.coid_seq /\ core'.coid_seq \in Nat
      /\ (core'.coid_seq # None \/ core'.coid_seq = core.coid_seq)
  BY <1>2, <1>6, <1>7, RestAssumption DEF LeavesAlone, AsksCancel, AsksPlace, AsksAmend, None
<1>9. RestTypeOK'
  BY <1>2, <1>3, <1>7, <1>8 DEF RestTypeOK
<1>10. HoldInv'
  <2>1. OneRequest'
    BY <1>2, <1>3, <1>4 DEF OneRequest, OneReport
  <2>2. RequestFits'
    <3>1. CASE LeavesAlone(s, t) /\ Requests' = {}
      BY <3>1 DEF RequestFits
    <3>2. CASE AsksCancel(s, t) /\ Requests' = {Act("cancel", s.live, 0, None)}
      <4> DEFINE a == Act("cancel", s.live, 0, None)
      <4>1. a.kind = "cancel" /\ a.coid = s.live.coid /\ a.oid = s.live.oid
        BY DEF Act
      <4> HIDE DEF a
      <4>2. Cancelling(a)'
        BY <1>5, <1>6, <1>7, <3>2, <4>1 DEF AsksCancel, Cancelling
      <4> QED
        BY <3>2, <4>1, <4>2 DEF RequestFits, a
    <3>3. CASE AsksPlace(s, t) /\ Requests' = {Act("place", t.pending, s.remaining, None)}
      <4> DEFINE a == Act("place", t.pending, s.remaining, None)
      <4>1. a.kind = "place" /\ a.coid = t.pending.coid /\ a.oid = t.pending.oid /\ a.count = s.remaining
        BY DEF Act
      <4> HIDE DEF a
      <4>2. t.pending.coid = t.coid_seq /\ t.coid_seq # None /\ t.pending.oid = None
            /\ t.pending = [coid |-> t.coid_seq, oid |-> None, count |-> s.remaining]
        BY <1>6, <3>3 DEF AsksPlace, None
      <4>3. Placing(a)'
        BY <1>1, <1>3, <1>5, <1>6, <1>7, <3>3, <4>1, <4>2 DEF AsksPlace, Placing
      <4> QED
        BY <3>3, <4>1, <4>3 DEF RequestFits, a
    <3>4. CASE AsksAmend(s, t) /\ Requests' = {Act("amend", s.live, s.remaining, s.coid_seq + 1)}
      <4> DEFINE a == Act("amend", s.live, s.remaining, s.coid_seq + 1)
      <4>1. a.kind = "amend" /\ a.coid = s.live.coid /\ a.oid = s.live.oid /\ a.new = s.coid_seq + 1
        BY DEF Act
      <4> HIDE DEF a
      <4>2. s.coid_seq + 1 # s.live.coid /\ s.coid_seq + 1 # None
        BY <1>3, <1>6 DEF HoldInv, None
      <4>3. Amending(a)'
        BY <1>5, <1>6, <1>7, <3>4, <4>1, <4>2 DEF AsksAmend, Amending
      <4> QED
        BY <3>4, <4>1, <4>3 DEF RequestFits, a
    <3> QED
      BY <1>2, <3>1, <3>2, <3>3, <3>4
  <2>3. ReportFits'
    BY <1>4 DEF ReportFits
  <2>4. Latched'
    <3>1. t.done => t.live = NoOrder /\ t.pending = NoOrder /\ Requests' = {}
      BY <1>2, <1>5, <1>6, <1>7 DEF LeavesAlone, AsksCancel, AsksPlace, AsksAmend
    <3> QED
      BY <1>1, <1>3, <1>4, <1>5, <1>6, <1>7, <3>1 DEF Latched
  <2>5. Requests' = {} /\ Reports' = {} => Clear'
    BY <1>2, <1>7 DEF Clear, LeavesAlone
  <2>6. core'.live # NoOrder => core'.live.oid # None /\ core'.live.coid # None
    BY <1>2, <1>5, <1>6, <1>7 DEF LeavesAlone, AsksCancel, AsksPlace, AsksAmend
  <2>7. core'.live.coid <= core'.coid_seq /\ core'.pending.coid <= core'.coid_seq
    <3>1. core.live.coid <= core.coid_seq /\ core.live.coid \in Nat
      <4>1. core.live.coid \in Coids \cup {None}
        BY <1>6 DEF Order
      <4>2. core.live.coid <= core.coid_seq
        BY <1>3 DEF HoldInv
      <4> QED
        BY <4>1, <4>2, IdentifierTypes
    <3>2. t.live = NoOrder \/ t.live = core.live
      BY <1>2, <1>6 DEF LeavesAlone, AsksCancel, AsksPlace, AsksAmend
    <3>3. t.pending.coid = None \/ t.pending.coid = t.coid_seq
      BY <1>2, <1>6, NoOrderType DEF LeavesAlone, AsksCancel, AsksPlace, AsksAmend
    <3> QED
      BY <1>6, <1>7, <1>8, <3>1, <3>2, <3>3, NoOrderType DEF None
  <2> QED
    BY <2>1, <2>2, <2>3, <2>4, <2>5, <2>6, <2>7 DEF HoldInv
<1>11. SlotInv'
  <2>1. CASE mode = "dry"
    BY <1>3, <2>1 DEF SlotInv
  <2>2. CASE mode # "dry"
    <3>1. /\ Booked /\ Known
          /\ \A o, p \in Open \cap Own : o = p
          /\ \A o \in DOMAIN venue : Loose(o) => Tracked(o)
      BY <1>3, <2>2 DEF SlotInv
    <3>2. \A o \in DOMAIN venue : Loose(o) => o = core.live.oid \/ core.done \/ exec.down
      BY <1>4, <3>1 DEF Tracked
    <3>3. \A o \in DOMAIN venue : o # None /\ o \in Oids
      BY <1>3, VenueIds
    <3>4. \A o \in Oids : exec.by_oid[o] <= core.coid_seq /\ exec.by_oid[o] \in Nat
      <4>1. \A o \in Oids : exec.by_oid[o] \in Coids \cup {None}
        BY <1>3 DEF RestTypeOK, Executor
      <4> QED
        BY <3>1, <4>1, IdentifierTypes DEF Booked
    <3>5. Booked'
      <4>1. \A o \in Oids : exec'.by_oid[o] <= core'.coid_seq
        BY <1>3, <1>6, <1>8, <3>4
      <4>2. \A a \in Requests', o \in Oids : exec'.by_oid[o] \notin Fresh(a)
        <5>1. \A a \in Requests' : \A c \in Fresh(a) : c = core.coid_seq + 1
          BY <1>2, <1>6 DEF Fresh, Act, AsksPlace
        <5> QED
          BY <1>3, <1>6, <3>4, <5>1
      <4> QED
        BY <1>3, <3>1, <4>1, <4>2 DEF Booked, Own
    <3>6. Known'
      <4>1. t.live # NoOrder => t.live = core.live
        BY <1>2, <1>6 DEF LeavesAlone, AsksCancel, AsksPlace, AsksAmend
      <4>2. \A a \in Requests' : a.kind = "cancel" => a.oid = core.live.oid /\ core.live # NoOrder
        BY <1>2, <1>6 DEF Act, AsksCancel
      <4> QED
        BY <1>3, <1>4, <1>7, <3>1, <4>1, <4>2 DEF Known
    <3>7. ASSUME NEW o \in DOMAIN venue, Loose(o) PROVE Tracked(o)'
      <4>1. CASE core.done \/ exec.down
        BY <1>3, <1>6, <1>7, <4>1 DEF Tracked
      <4>2. CASE o = core.live.oid /\ t.live = core.live
        BY <1>7, <4>2 DEF Tracked
      <4>3. CASE o = core.live.oid /\ Requests' = {Act("cancel", s.live, 0, None)}
        BY <1>6, <4>3 DEF Tracked, Act
      <4>4. o = core.live.oid => core.live # NoOrder
        BY <3>3, NoOrderType
      <4> QED
        BY <1>2, <1>6, <3>2, <3>7, <4>1, <4>2, <4>3, <4>4
           DEF LeavesAlone, AsksCancel, AsksPlace, AsksAmend
    <3>8. \A o \in DOMAIN venue' : Loose(o)' => Tracked(o)'
      BY <1>3, <3>7 DEF Loose
    <3>9. \A a \in Requests' : a.kind = "place" => \A o \in DOMAIN venue' : ~Loose(o)'
      <4>1. SUFFICES ASSUME NEW a \in Requests', a.kind = "place", NEW o \in DOMAIN venue
                     PROVE  ~Loose(o)
        BY <1>3 DEF Loose
      <4>2. AsksPlace(s, t)
        BY <1>2, <4>1 DEF Act
      <4>3. core.live.oid = None /\ ~core.done /\ ~core.stood_down
        BY <1>6, <1>7, <4>2, NoOrderType DEF AsksPlace
      <4> QED
        BY <1>5, <3>2, <3>3, <4>3
    <3>10. \A o, p \in (Open \cap Own)' : o = p
      BY <1>3, <3>1 DEF Open, Own
    <3> QED
      BY <1>3, <1>4, <2>2, <3>5, <3>6, <3>8, <3>9, <3>10 DEF SlotInv
  <2> QED
    BY <2>1, <2>2
<1> QED
  BY <1>9, <1>10, <1>11 DEF IInv

-----------------------------------------------------------------------------
(* The invariant is kept: the exchange and the driver's polls *)

\* One order of the list is replaced.
LEMMA OrderReplaced ==
  ASSUME RestTypeOK, NEW o \in DOMAIN venue, NEW r \in VenueOrder
  PROVE  /\ [venue EXCEPT ![o] = r] \in Seq(VenueOrder)
         /\ Len([venue EXCEPT ![o] = r]) = Len(venue)
         /\ DOMAIN [venue EXCEPT ![o] = r] = DOMAIN venue
BY DEF RestTypeOK

\* The holds depend on the core, the actions, the events and the executor's latch.
LEMMA HoldKept ==
  ASSUME HoldInv, UNCHANGED <<core, queue, acts>>, exec'.down = exec.down
  PROVE  HoldInv'
<1>1. Requests' = Requests /\ Reports' = Reports /\ (AskedLast(acts') <=> AskedLast(acts))
      /\ (OneReport(queue') <=> OneReport(queue)) /\ (Clear' <=> Clear)
  BY DEF Requests, Reports, Clear
<1>2. OneRequest'
  BY <1>1 DEF HoldInv, OneRequest
<1>3. RequestFits'
  BY <1>1 DEF HoldInv, RequestFits, Placing, Cancelling, Amending
<1>4. ReportFits'
  BY <1>1 DEF HoldInv, ReportFits
<1>5. Latched'
  BY <1>1 DEF HoldInv, Latched
<1> QED
  BY <1>1, <1>2, <1>3, <1>4, <1>5 DEF HoldInv

\* The orders stay as sound when some leave the book and no order is lost sight of.
LEMMA SlotKept ==
  ASSUME SlotInv, core' = core, mode' = mode, Requests' = Requests, Reports \subseteq Reports',
         \A e \in Reports' : e \in Reports \/ e.kind \in {"fill", "late"},
         exec'.by_oid = exec.by_oid, exec'.down = exec.down, DOMAIN venue' = DOMAIN venue,
         \A o \in DOMAIN venue : venue'[o].coid = venue[o].coid /\ (venue'[o].open => venue[o].open),
         \A c \in Coids : exec.book[c].confirmed => exec'.book[c].confirmed,
         exec.by_oid \in [Oids -> Coids \cup {None}], DOMAIN venue \subseteq Oids,
         mode = "dry" => venue' = <<>> /\ notices' = {}
  PROVE  SlotInv'
<1>1. CASE mode = "dry"
  BY <1>1 DEF SlotInv
<1>2. CASE mode # "dry"
  <2>1. /\ Booked /\ Known
        /\ \A o, p \in Open \cap Own : o = p
        /\ \A o \in DOMAIN venue : Loose(o) => Tracked(o)
        /\ \A a \in Requests : a.kind = "place" => \A o \in DOMAIN venue : ~Loose(o)
        /\ \A e \in Reports : e.kind = "cancelled" /\ e.oid # None =>
             e.oid \in DOMAIN venue /\ (exec.down \/ ~Loose(e.oid))
    BY <1>2 DEF SlotInv
  <2>2. \A o \in DOMAIN venue : Loose(o)' => Loose(o)
    <3>1. SUFFICES ASSUME NEW o \in DOMAIN venue, Loose(o)' PROVE Loose(o)
      OBVIOUS
    <3>2. CASE venue'[o].open /\ venue'[o].coid # None
      BY <3>2 DEF Loose
    <3>3. CASE exec.by_oid[o] # None /\ ~exec'.book[exec.by_oid[o]].confirmed
      <4>1. exec.by_oid[o] \in Coids
        BY <3>3
      <4> QED
        BY <3>3, <4>1 DEF Loose
    <3> QED
      BY <3>1, <3>2, <3>3 DEF Loose
  <2>3. Own' = Own /\ Open' \subseteq Open
    BY DEF Own, Open
  <2>4. Booked'
    BY <2>1, <2>3 DEF Booked
  <2>5. Known'
    BY <2>1 DEF Known
  <2>6. \A o \in DOMAIN venue : Tracked(o) => Tracked(o)'
    BY DEF Tracked
  <2>7. \A o, p \in (Open \cap Own)' : o = p
    BY <2>1, <2>3
  <2>8. \A o \in DOMAIN venue' : Loose(o)' => Tracked(o)'
    BY <2>1, <2>2, <2>6
  <2>9. \A a \in Requests' : a.kind = "place" => \A o \in DOMAIN venue' : ~Loose(o)'
    BY <2>1, <2>2
  <2>10. \A e \in Reports' : e.kind = "cancelled" /\ e.oid # None =>
             e.oid \in DOMAIN venue' /\ (exec'.down \/ ~Loose(e.oid)')
    <3>1. SUFFICES ASSUME NEW e \in Reports, e.kind = "cancelled", e.oid # None
                   PROVE  e.oid \in DOMAIN venue /\ (exec.down \/ ~Loose(e.oid)')
      OBVIOUS
    <3>2. e.oid \in DOMAIN venue /\ (exec.down \/ ~Loose(e.oid))
      BY <2>1, <3>1
    <3>3. Loose(e.oid)' => Loose(e.oid)
      BY <2>2, <3>2
    <3> QED
      BY <3>2, <3>3
  <2> QED
    BY <1>2, <2>4, <2>5, <2>7, <2>8, <2>9, <2>10 DEF SlotInv
<1> QED
  BY <1>1, <1>2

\* What leaves core, queue, actions and rest book alone, and only takes orders off the book.
LEMMA BookMoves ==
  ASSUME IInv, UNCHANGED <<mode, core, exec, queue, acts>>, RestTypeOK',
         DOMAIN venue' = DOMAIN venue,
         \A o \in DOMAIN venue : venue'[o].coid = venue[o].coid /\ (venue'[o].open => venue[o].open),
         mode = "dry" => venue' = <<>> /\ notices' = {}
  PROVE  IInv'
<1>1. RestTypeOK /\ HoldInv /\ SlotInv
  BY DEF IInv
<1>2. HoldInv'
  BY <1>1, HoldKept
<1>3. Requests' = Requests /\ Reports' = Reports
  BY DEF Requests, Reports
<1>4. exec.by_oid \in [Oids -> Coids \cup {None}] /\ DOMAIN venue \subseteq Oids
  BY <1>1, VenueIds DEF RestTypeOK, Executor
<1>5. SlotInv'
  BY <1>1, <1>3, <1>4, SlotKept
<1> QED
  BY <1>2, <1>5 DEF IInv

\* VenueFill keeps the invariant.
LEMMA VenueFillKeeps == IInv /\ VenueFill => IInv'
<1> SUFFICES ASSUME IInv, VenueFill PROVE IInv'
  OBVIOUS
<1>1. RestTypeOK /\ SlotInv /\ UNCHANGED <<mode, core, exec, queue, acts, ticks, faults>>
  BY DEF IInv, VenueFill
<1>2. PICK o \in Open : \E n \in 1..venue[o].rem :
       /\ venue' = [venue EXCEPT ![o] =
            [venue[o] EXCEPT !.rem = @ - n, !.filled = @ + n, !.open = venue[o].rem > n]]
       /\ notices' = IF venue[o].coid = None THEN notices
                     ELSE notices \cup {[coid |-> venue[o].coid, oid |-> o, n |-> n,
                                         id |-> venue[o].filled + n]}
  BY DEF VenueFill
<1> PICK n \in 1..venue[o].rem :
       /\ venue' = [venue EXCEPT ![o] =
            [venue[o] EXCEPT !.rem = @ - n, !.filled = @ + n, !.open = venue[o].rem > n]]
       /\ notices' = IF venue[o].coid = None THEN notices
                     ELSE notices \cup {[coid |-> venue[o].coid, oid |-> o, n |-> n,
                                         id |-> venue[o].filled + n]}
  BY <1>2
<1>3. o \in DOMAIN venue /\ venue[o] \in VenueOrder /\ venue[o].open
  BY <1>1 DEF Open, RestTypeOK
<1>4. venue[o].rem \in Nat /\ n \in Nat \ {0} /\ n <= venue[o].rem /\ venue[o].filled \in Nat
      /\ venue[o].coid \in Coids \cup {None}
  BY <1>3 DEF VenueOrder
<1> DEFINE x == venue[o].rem - n
           y == venue[o].filled + n
           z == venue[o].rem > n
           r == [venue[o] EXCEPT !.rem = x, !.filled = y, !.open = z]
<1>5. r \in VenueOrder /\ r.coid = venue[o].coid
  <2>1. x \in Nat /\ y \in Nat /\ z \in BOOLEAN
    BY <1>4
  <2> HIDE DEF x, y, z
  <2> QED
    BY <1>3, <1>4, <2>1 DEF VenueOrder
<1>6. venue' = [venue EXCEPT ![o] = r]
  OBVIOUS
<1> HIDE DEF r
<1>7. venue' \in Seq(VenueOrder) /\ Len(venue') = Len(venue) /\ DOMAIN venue' = DOMAIN venue
  BY <1>1, <1>3, <1>5, <1>6, OrderReplaced
<1>8. \A p \in DOMAIN venue : venue'[p].coid = venue[p].coid /\ (venue'[p].open => venue[p].open)
  BY <1>3, <1>5, <1>6
<1>9. notices' \subseteq [coid : Coids, oid : DOMAIN venue', n : Nat \ {0}, id : Nat]
  <2>1. notices \subseteq [coid : Coids, oid : DOMAIN venue', n : Nat \ {0}, id : Nat]
    BY <1>1, <1>7 DEF RestTypeOK
  <2>2. venue[o].coid # None => [coid |-> venue[o].coid, oid |-> o, n |-> n, id |-> venue[o].filled + n]
          \in [coid : Coids, oid : DOMAIN venue', n : Nat \ {0}, id : Nat]
    BY <1>3, <1>4, <1>7
  <2> QED
    BY <1>2, <2>1, <2>2
<1>10. RestTypeOK'
  BY <1>1, <1>7, <1>9 DEF RestTypeOK
<1>11. mode # "dry"
  BY <1>1, <1>3 DEF SlotInv
<1> QED
  BY <1>1, <1>7, <1>8, <1>10, <1>11, BookMoves

\* VenueExpire keeps the invariant.
LEMMA VenueExpireKeeps == IInv /\ VenueExpire => IInv'
<1> SUFFICES ASSUME IInv, VenueExpire PROVE IInv'
  OBVIOUS
<1>1. RestTypeOK /\ SlotInv /\ UNCHANGED <<mode, core, exec, notices, queue, acts, ticks, faults>>
  BY DEF IInv, VenueExpire
<1>2. PICK o \in Open : venue' = [venue EXCEPT ![o].open = FALSE]
  BY DEF VenueExpire
<1>3. o \in DOMAIN venue /\ venue[o] \in VenueOrder
  BY <1>1 DEF Open, RestTypeOK
<1> DEFINE r == [venue[o] EXCEPT !.open = FALSE]
<1>4. r \in VenueOrder /\ r.coid = venue[o].coid /\ ~r.open
  BY <1>3 DEF VenueOrder
<1>5. venue' = [venue EXCEPT ![o] = r]
  BY <1>1, <1>2, <1>3 DEF RestTypeOK
<1> HIDE DEF r
<1>6. venue' \in Seq(VenueOrder) /\ Len(venue') = Len(venue) /\ DOMAIN venue' = DOMAIN venue
  BY <1>1, <1>3, <1>4, <1>5, OrderReplaced
<1>7. \A p \in DOMAIN venue : venue'[p].coid = venue[p].coid /\ (venue'[p].open => venue[p].open)
  BY <1>3, <1>4, <1>5
<1>8. RestTypeOK'
  BY <1>1, <1>6 DEF RestTypeOK
<1>9. mode # "dry"
  BY <1>1, <1>3 DEF SlotInv
<1> QED
  BY <1>1, <1>6, <1>7, <1>8, <1>9, BookMoves

\* NoticeLost keeps the invariant.
LEMMA NoticeLostKeeps == IInv /\ NoticeLost => IInv'
<1> SUFFICES ASSUME IInv, NoticeLost PROVE IInv'
  OBVIOUS
<1>1. RestTypeOK /\ SlotInv /\ UNCHANGED <<mode, core, exec, venue, queue, acts, ticks>>
      /\ notices' \subseteq notices /\ faults' = faults + 1
  BY DEF IInv, NoticeLost, Fault
<1>2. RestTypeOK'
  BY <1>1 DEF RestTypeOK
<1>3. mode = "dry" => venue' = <<>> /\ notices' = {}
  BY <1>1 DEF SlotInv
<1> QED
  BY <1>1, <1>2, <1>3, BookMoves

\* Every order of the list is taken off the book, or those of a set.
LEMMA OrdersTakenOff ==
  ASSUME RestTypeOK, NEW f, f = [o \in DOMAIN venue |-> f[o]],
         \A o \in DOMAIN venue : f[o] \in VenueOrder
  PROVE  f \in Seq(VenueOrder) /\ Len(f) = Len(venue) /\ DOMAIN f = DOMAIN venue
<1>1. Len(venue) \in Nat /\ DOMAIN venue = 1..Len(venue)
  BY DEF RestTypeOK
<1>2. f \in [1..Len(venue) -> VenueOrder]
  BY <1>1
<1>3. f \in Seq(VenueOrder) /\ Len(f) = Len(venue)
  BY <1>1, <1>2, FunctionIsList
<1>4. DOMAIN f = DOMAIN venue
  BY <1>1, <1>2
<1> QED
  BY <1>3, <1>4

\* cancel_stale_open_orders keeps the invariant.
LEMMA SweepKeeps == IInv /\ cancel_stale_open_orders => IInv'
<1> SUFFICES ASSUME IInv, cancel_stale_open_orders PROVE IInv'
  OBVIOUS
<1>1. RestTypeOK /\ HoldInv /\ SlotInv /\ UNCHANGED <<mode, core, notices, queue, acts, ticks>>
      /\ exec' = [exec EXCEPT !.swept = TRUE] /\ (faults' = faults \/ faults' = faults + 1)
      /\ (venue' = venue \/ venue' = [o \in DOMAIN venue |-> [venue[o] EXCEPT !.open = FALSE]])
  BY DEF IInv, cancel_stale_open_orders, NoFault, Fault
<1>2. exec' \in Executor /\ exec'.by_oid = exec.by_oid /\ exec'.book = exec.book /\ exec'.down = exec.down
  <2>1. exec \in Executor
    BY <1>1 DEF RestTypeOK
  <2> QED
    BY <1>1, <2>1 DEF Executor
<1>3. /\ venue' \in Seq(VenueOrder) /\ Len(venue') = Len(venue) /\ DOMAIN venue' = DOMAIN venue
      /\ \A p \in DOMAIN venue : venue'[p].coid = venue[p].coid /\ (venue'[p].open => venue[p].open)
  <2>1. CASE venue' = venue
    BY <1>1, <2>1 DEF RestTypeOK
  <2>2. CASE venue' = [o \in DOMAIN venue |-> [venue[o] EXCEPT !.open = FALSE]]
    <3>1. \A o \in DOMAIN venue : venue[o] \in VenueOrder
      BY <1>1 DEF RestTypeOK
    <3>2. \A o \in DOMAIN venue : venue'[o] \in VenueOrder /\ venue'[o].coid = venue[o].coid /\ ~venue'[o].open
      BY <2>2, <3>1 DEF VenueOrder
    <3>3. venue' = [o \in DOMAIN venue |-> venue'[o]]
      BY <2>2
    <3> QED
      BY <1>1, <3>2, <3>3, OrdersTakenOff
  <2> QED
    BY <1>1, <2>1, <2>2
<1>4. RestTypeOK'
  BY <1>1, <1>2, <1>3 DEF RestTypeOK
<1>5. HoldInv'
  BY <1>1, <1>2, HoldKept
<1>6. Requests' = Requests /\ Reports' = Reports
  BY <1>1 DEF Requests, Reports
<1>7. exec.by_oid \in [Oids -> Coids \cup {None}] /\ DOMAIN venue \subseteq Oids
  BY <1>1, VenueIds DEF RestTypeOK, Executor
<1>8. mode = "dry" => venue' = <<>> /\ notices' = {}
  <2>1. mode = "dry" => venue = <<>> /\ notices = {}
    BY <1>1 DEF SlotInv
  <2>2. venue = <<>> => Len(venue') = 0
    BY <1>3
  <2> QED
    BY <1>1, <1>3, <2>1, <2>2, EmptySeq
<1>9. SlotInv'
  BY <1>1, <1>2, <1>3, <1>6, <1>7, <1>8, SlotKept
<1> QED
  BY <1>4, <1>5, <1>9 DEF IInv

Statuses == {"none", "live", "unknown", "filled", "amended", "cancelled", "cancel_failed"}

\* One entry of the rest book is replaced.
LEMMA RecordReplaced ==
  ASSUME NEW x \in Executor, NEW c \in Coids, NEW r \in Record
  PROVE  /\ [x EXCEPT !.book[c] = r] \in Executor
         /\ [x EXCEPT !.book[c] = r].book = [x.book EXCEPT ![c] = r]
         /\ [x EXCEPT !.book[c] = r].by_oid = x.by_oid
         /\ [x EXCEPT !.book[c] = r].down = x.down
         /\ [x EXCEPT !.book[c] = r].swept = x.swept
<1>1. x.book \in [Coids -> Record]
  BY DEF Executor
<1>2. [x.book EXCEPT ![c] = r] \in [Coids -> Record]
  BY <1>1
<1>3. [x EXCEPT !.book[c] = r] = [x EXCEPT !.book = [x.book EXCEPT ![c] = r]]
  BY DEF Executor
<1> QED
  BY <1>2, <1>3 DEF Executor

\* An entry of the rest book changes its status.
LEMMA Marked ==
  ASSUME NEW x \in Executor, NEW c \in Coids, NEW st \in Statuses
  PROVE  LET y == [x EXCEPT !.book[c].status = st]
         IN /\ y \in Executor /\ y.by_oid = x.by_oid /\ y.down = x.down /\ y.swept = x.swept
            /\ \A d \in Coids : /\ y.book[d].confirmed = x.book[d].confirmed
                               /\ y.book[d].count = x.book[d].count
                               /\ y.book[d].oid = x.book[d].oid
<1> DEFINE r == [x.book[c] EXCEPT !.status = st]
           y == [x EXCEPT !.book[c].status = st]
<1>1. x.book \in [Coids -> Record] /\ x.book[c] \in Record
  BY DEF Executor
<1>2. r \in Record /\ r.confirmed = x.book[c].confirmed /\ r.count = x.book[c].count /\ r.oid = x.book[c].oid
  BY <1>1 DEF Record, Statuses
<1>3. y = [x EXCEPT !.book[c] = r]
  BY DEF Executor
<1> HIDE DEF r, y
<1>4. y \in Executor /\ y.book = [x.book EXCEPT ![c] = r] /\ y.by_oid = x.by_oid /\ y.down = x.down
      /\ y.swept = x.swept
  BY <1>2, <1>3, RecordReplaced
<1> QED
  BY <1>1, <1>2, <1>4 DEF y

\* Between two events nothing is under way.
LEMMA AtQuiet ==
  ASSUME IInv, Quiet
  PROVE  /\ Requests = {} /\ Reports = {} /\ Clear
         /\ exec.down => core.stood_down
         /\ core.done => core.live = NoOrder
<1>1. Requests = {} /\ Reports = {}
  BY DEF Quiet, Requests, Reports, RequestsOf, ReportsOf
<1> QED
  BY <1>1 DEF IInv, HoldInv, Latched, Quiet

\* What a notice or the poll reports of an order (on_fill, _order_status_poll).
LEMMA FillReported ==
  ASSUME IInv, Quiet, NEW e \in OrderEvent \cup LateEvent, e.kind \in {"fill", "late"},
         core.done => e.kind = "late", NEW coid \in Coids,
         queue' = <<e>>, exec' = mark_filled(coid),
         UNCHANGED <<mode, core, venue, acts, ticks, faults>>, notices' \subseteq notices
  PROVE  IInv'
<1>1. RestTypeOK /\ HoldInv /\ SlotInv
  BY DEF IInv
<1>2. /\ Requests = {} /\ Reports = {} /\ Clear
      /\ exec.down => core.stood_down
      /\ core.done => core.live = NoOrder
  BY AtQuiet
<1>3. e \in AnyEvent /\ e.kind # "wings"
  BY DEF AnyEvent
<1>4. /\ exec' \in Executor /\ exec'.by_oid = exec.by_oid /\ exec'.down = exec.down
      /\ \A d \in Coids : exec'.book[d].confirmed = exec.book[d].confirmed
  <2>1. exec \in Executor /\ "filled" \in Statuses
    BY <1>1 DEF RestTypeOK, Statuses
  <2> QED
    BY <2>1, Marked DEF mark_filled
<1>5. queue' \in Seq(AnyEvent) /\ OneReport(queue') /\ Reports' = {e}
  BY <1>3, FirstQueued DEF Reports
<1>6. Requests' = Requests /\ (AskedLast(acts') <=> AskedLast(acts)) /\ acts' = <<>>
  BY DEF Requests, Quiet
<1>7. RestTypeOK'
  BY <1>1, <1>4, <1>5 DEF RestTypeOK
<1>8. HoldInv'
  <2>1. OneRequest'
    BY <1>1, <1>2, <1>5, <1>6 DEF HoldInv, OneRequest
  <2>2. RequestFits'
    BY <1>2, <1>6 DEF RequestFits
  <2>3. Clear'
    BY <1>2 DEF Clear
  <2>4. ReportFits'
    BY <1>5, <2>3 DEF ReportFits
  <2>5. Latched'
    BY <1>1, <1>2, <1>4, <1>5, <1>6 DEF HoldInv, Latched
  <2> QED
    BY <1>1, <1>5, <2>1, <2>2, <2>3, <2>4, <2>5 DEF HoldInv
<1>9. exec.by_oid \in [Oids -> Coids \cup {None}] /\ DOMAIN venue \subseteq Oids
  BY <1>1, VenueIds DEF RestTypeOK, Executor
<1>10. mode = "dry" => venue' = <<>> /\ notices' = {}
  BY <1>1 DEF SlotInv
<1>11. SlotInv'
  BY <1>1, <1>2, <1>4, <1>5, <1>6, <1>9, <1>10, SlotKept
<1> QED
  BY <1>7, <1>8, <1>11 DEF IInv

\* on_fill keeps the invariant.
LEMMA NoticeKeeps == IInv /\ on_fill => IInv'
<1> SUFFICES ASSUME IInv, on_fill PROVE IInv'
  OBVIOUS
<1>1. RestTypeOK /\ SlotInv /\ Quiet /\ UNCHANGED <<mode, core, venue, acts, ticks, faults>>
  BY DEF IInv, on_fill
<1>2. PICK m \in notices :
       LET coid == attribute(m.coid, m.oid)
           tracked == coid \in {core.live.coid, core.pending.coid}
       IN /\ notices' = notices \ {m}
          /\ IF coid = None THEN UNCHANGED <<queue, exec>>
             ELSE /\ queue' = <<IF tracked THEN Event("fill", coid, m.oid, m.n)
                                ELSE Event("late", coid, exec.book[coid].bucket, m.n)>>
                  /\ exec' = mark_filled(coid)
  BY DEF on_fill
<1> DEFINE coid == attribute(m.coid, m.oid)
           tracked == coid \in {core.live.coid, core.pending.coid}
<1>3. m.coid \in Coids /\ m.oid \in Oids /\ m.n \in Nat \ {0} /\ m.oid # None
  <2>1. m \in [coid : Coids, oid : DOMAIN venue, n : Nat \ {0}, id : Nat]
    BY <1>1 DEF RestTypeOK
  <2> QED
    BY <1>1, <2>1, VenueIds
<1>4. exec \in Executor /\ exec.by_oid \in [Oids -> Coids \cup {None}] /\ exec.book \in [Coids -> Record]
  BY <1>1 DEF RestTypeOK, Executor
<1>5. coid \in Coids \cup {None}
  BY <1>3, <1>4 DEF attribute
<1> HIDE DEF coid
<1>6. CASE coid = None
  <2>1. UNCHANGED <<queue, exec>> /\ notices' \subseteq notices
    BY <1>2, <1>6 DEF coid
  <2>2. RestTypeOK'
    BY <1>1, <2>1 DEF RestTypeOK
  <2>3. mode = "dry" => venue' = <<>> /\ notices' = {}
    BY <1>1, <2>1 DEF SlotInv
  <2> QED
    BY <1>1, <2>1, <2>2, <2>3, BookMoves
<1>7. CASE coid # None
  <2> DEFINE e == IF tracked THEN Event("fill", coid, m.oid, m.n)
                  ELSE Event("late", coid, exec.book[coid].bucket, m.n)
  <2>1. queue' = <<e>> /\ exec' = mark_filled(coid) /\ notices' \subseteq notices
    BY <1>2, <1>7 DEF coid
  <2>2. coid \in Coids
    BY <1>5, <1>7
  <2>3. e \in OrderEvent \cup LateEvent /\ e.kind \in {"fill", "late"} /\ (e.kind = "fill" <=> tracked)
    <3>1. exec.book[coid].bucket \in Spots
      BY <1>4, <2>2 DEF Record
    <3>2. Event("fill", coid, m.oid, m.n) \in OrderEvent /\ Event("fill", coid, m.oid, m.n).kind = "fill"
      BY <1>3, <2>2 DEF Event, OrderEvent
    <3>3. Event("late", coid, exec.book[coid].bucket, m.n) \in LateEvent
          /\ Event("late", coid, exec.book[coid].bucket, m.n).kind = "late"
      BY <1>3, <2>2, <3>1 DEF Event, LateEvent
    <3> HIDE DEF tracked
    <3> QED
      BY <3>2, <3>3
  <2>4. core.done => ~tracked
    <3>1. Clear /\ (core.done => core.live = NoOrder)
      BY <1>1, AtQuiet
    <3> QED
      BY <1>7, <3>1, NoOrderType DEF Clear
  <2> HIDE DEF e
  <2> QED
    BY <1>1, <2>1, <2>2, <2>3, <2>4, FillReported
<1> QED
  BY <1>6, <1>7

\* _order_status_poll keeps the invariant.
LEMMA PollKeeps == IInv /\ _order_status_poll => IInv'
<1> SUFFICES ASSUME IInv, _order_status_poll PROVE IInv'
  OBVIOUS
<1>1. RestTypeOK /\ SlotInv /\ Quiet /\ UNCHANGED <<mode, core, venue, notices, acts, ticks, faults>>
      /\ mode = "armed" /\ core.live.oid # None
  BY DEF IInv, _order_status_poll
<1> DEFINE oid == core.live.oid
           coid == exec.by_oid[oid]
           n == parse_order_status(oid).filled - core.booked[coid]
           e == Event("fill", coid, oid, n)
<1>2. n > 0 /\ queue' = <<e>> /\ exec' = mark_filled(coid)
  BY DEF _order_status_poll
<1>3. core.live # NoOrder /\ ~core.done
  <2>1. core.live # NoOrder
    BY <1>1, NoOrderType
  <2> QED
    BY <1>1, <2>1, AtQuiet
<1>4. oid \in DOMAIN venue /\ oid \in Oids /\ coid \in Coids
  <2>1. oid \in DOMAIN venue /\ coid # None
    BY <1>1, <1>3 DEF SlotInv, Known
  <2>2. exec.by_oid \in [Oids -> Coids \cup {None}] /\ DOMAIN venue \subseteq Oids
    BY <1>1, VenueIds DEF RestTypeOK, Executor
  <2> QED
    BY <2>1, <2>2
<1>5. n \in Nat
  <2>1. venue[oid].filled \in Nat
    <3>1. venue[oid] \in VenueOrder
      BY <1>1, <1>4 DEF RestTypeOK
    <3> QED
      BY <3>1 DEF VenueOrder
  <2>2. core.booked[coid] \in Nat
    <3>1. core.booked \in [Coids -> Nat]
      BY <1>1 DEF RestTypeOK, State
    <3> QED
      BY <1>4, <3>1
  <2> QED
    BY <1>2, <2>1, <2>2 DEF parse_order_status
<1> HIDE DEF n
<1>6. e \in OrderEvent /\ e.kind = "fill"
  BY <1>4, <1>5 DEF Event, OrderEvent
<1> HIDE DEF e, coid
<1> QED
  BY <1>1, <1>2, <1>3, <1>4, <1>6, FillReported

-----------------------------------------------------------------------------
(* The invariant is kept: the executor *)

\* A request is executed: its answer is the only report (Executed).
LEMMA Answers ==
  ASSUME IInv, acts # <<>>, Head(acts).kind # "take", NEW e \in OrderEvent, NEW x \in Executor,
         Executed(<<e>>, x)
  PROVE  /\ Head(acts) \in Action /\ Requests = {Head(acts)} /\ Reports = {}
         /\ acts' = <<>> /\ Requests' = {} /\ Reports' = {e} /\ exec' = x /\ mode' = mode
         /\ Like(core, core') /\ ~core.done
         /\ core.stood_down \/ x.down <=> core'.stood_down
         /\ ReportFits' => HoldInv'
         /\ /\ venue' \in Seq(VenueOrder) /\ Len(venue') <= MaxOrders /\ faults' \in Nat
            /\ notices' \subseteq [coid : Coids, oid : DOMAIN venue', n : Nat \ {0}, id : Nat]
            => RestTypeOK'
<1>1. RestTypeOK /\ HoldInv
  BY DEF IInv
<1>2. acts \in Seq(Action) /\ AskedLast(acts) /\ OneReport(queue) /\ queue \in Seq(AnyEvent)
  BY <1>1 DEF RestTypeOK, HoldInv, OneRequest
<1>3. Tail(acts) = <<>> /\ Requests = {Head(acts)} /\ Head(acts) \in Action
  BY <1>2, RequestDone DEF Requests
<1>4. Reports = {} /\ ~core.done
  BY <1>1, <1>3 DEF HoldInv, OneRequest, Latched
<1>5. acts' = <<>> /\ exec' = x /\ mode' = mode /\ ticks' = ticks /\ queue' = queue \o <<e>>
      /\ core' = _apply_executor_standdown(core, x.down, <<>>)
  BY <1>3 DEF Executed
<1>6. Requests' = {} /\ AskedLast(acts') /\ acts' \in Seq(Action)
  BY <1>5 DEF Requests, RequestsOf, AskedLast
<1>7. e \in AnyEvent /\ e.kind # "wings"
  BY DEF AnyEvent, OrderEvent
<1>8. queue' \in Seq(AnyEvent) /\ OneReport(queue') /\ Reports' = {e}
  BY <1>2, <1>4, <1>5, <1>7, Queued DEF Reports
<1>9. core \in State /\ core.out = <<>> /\ x.down \in BOOLEAN /\ core.stood_down \in BOOLEAN
  BY <1>1 DEF RestTypeOK, Executor, State
<1>10. Like(core, core') /\ (core'.stood_down <=> core.stood_down \/ x.down)
  <2>1. core' = _apply_executor_standdown([core EXCEPT !.out = <<>>], x.down, <<>>)
    BY <1>5, <1>9, Emptied
  <2> QED
    BY <1>9, <2>1, StandDown
<1>11. ASSUME ReportFits' PROVE HoldInv'
  <2>1. OneRequest'
    BY <1>6, <1>8 DEF OneRequest
  <2>2. RequestFits'
    BY <1>6 DEF RequestFits
  <2>3. Latched'
    BY <1>4, <1>5, <1>10 DEF Latched, Like
  <2>4. /\ core'.live # NoOrder => core'.live.oid # None /\ core'.live.coid # None
        /\ core'.live.coid <= core'.coid_seq /\ core'.pending.coid <= core'.coid_seq
    BY <1>1, <1>10 DEF HoldInv, Like
  <2> QED
    BY <1>8, <1>11, <2>1, <2>2, <2>3, <2>4 DEF HoldInv
<1>12. ASSUME venue' \in Seq(VenueOrder), Len(venue') <= MaxOrders, faults' \in Nat,
              notices' \subseteq [coid : Coids, oid : DOMAIN venue', n : Nat \ {0}, id : Nat]
       PROVE  RestTypeOK'
  BY <1>1, <1>5, <1>6, <1>8, <1>10, <1>12 DEF RestTypeOK, Like
<1> QED
  BY <1>3, <1>4, <1>5, <1>6, <1>8, <1>10, <1>11, <1>12

\* A bounded fault is one more, or none.
LEMMA FaultCount == RestTypeOK /\ (Fault \/ NoFault) => faults' \in Nat
BY DEF RestTypeOK, Fault, NoFault

\* The answer of a create that was not accepted (RefusePlace).
LEMMA RefusedFits ==
  ASSUME IInv, Todo("place"), NEW x \in Executor, RefusePlace(x)
  PROVE  LET e == Event("cancelled", Head(acts).coid, None, 0)
         IN e \in OrderEvent /\ Executed(<<e>>, x) /\ HoldInv'
<1> DEFINE a == Head(acts)
           e == Event("cancelled", a.coid, None, 0)
<1>1. acts # <<>> /\ a.kind # "take" /\ a.kind = "place" /\ RestTypeOK /\ HoldInv
  BY DEF Todo, IInv
<1>2. a \in Action
  BY <1>1 DEF RestTypeOK
<1>3. e \in OrderEvent
  BY <1>2 DEF Event, OrderEvent, Action
<1>4. Executed(<<e>>, x)
  BY DEF RefusePlace
<1>5. /\ Requests = {a} /\ Requests' = {} /\ Reports' = {e} /\ Like(core, core')
      /\ ReportFits' => HoldInv'
  BY <1>1, <1>3, <1>4, Answers
<1>6. Placing(a)
  BY <1>1, <1>5 DEF HoldInv, RequestFits
<1>7. e.kind = "cancelled" /\ e.oid = None /\ e.n = 0
  BY DEF Event
<1> HIDE DEF e
<1>8. ReportFits'
  BY <1>5, <1>6, <1>7 DEF ReportFits, Placing, Like
<1> QED
  BY <1>3, <1>4, <1>5, <1>8 DEF e

\* While a create is under way no order of ours rests, and none is spoken of.
LEMMA PlaceAlone ==
  ASSUME IInv, Todo("place")
  PROVE  /\ Placing(Head(acts)) /\ mode = "armed" /\ Head(acts) \in Action
         /\ Booked /\ \A o \in DOMAIN venue : ~Loose(o)
         /\ \A o \in Oids : exec.by_oid[o] # Head(acts).coid
<1>1. /\ acts # <<>> /\ Head(acts).kind = "place" /\ Head(acts).kind # "take" /\ mode = "armed"
      /\ RestTypeOK /\ HoldInv /\ SlotInv
  BY DEF Todo, IInv
<1>2. acts \in Seq(Action) /\ AskedLast(acts)
  BY <1>1 DEF RestTypeOK, HoldInv, OneRequest
<1>3. Requests = {Head(acts)} /\ Head(acts) \in Action
  BY <1>1, <1>2, RequestDone DEF Requests
<1>4. Placing(Head(acts))
  BY <1>1, <1>3 DEF HoldInv, RequestFits
<1>5. Booked /\ \A o \in DOMAIN venue : ~Loose(o)
  BY <1>1, <1>3 DEF SlotInv
<1>6. \A o \in Oids : exec.by_oid[o] # Head(acts).coid
  BY <1>1, <1>3, <1>5 DEF Booked, Fresh
<1> QED
  BY <1>1, <1>3, <1>4, <1>5, <1>6

\* After a refusal the orders are sound: the hour is down, or no order of ours rests.
LEMMA RefusedSlot ==
  ASSUME IInv, Todo("place"), NEW x \in Executor, RefusePlace(x), x.by_oid = exec.by_oid,
         DOMAIN venue \subseteq DOMAIN venue', DOMAIN venue' \subseteq Oids,
         \A o, p \in (Open \cap Own)' : o = p,
         \A o \in DOMAIN venue : o \in Own => o \in Own',
         x.down \/ \A o \in DOMAIN venue' : ~Loose(o)'
  PROVE  SlotInv'
<1> DEFINE e == Event("cancelled", Head(acts).coid, None, 0)
<1>1. e \in OrderEvent /\ Executed(<<e>>, x)
  BY RefusedFits
<1>2. acts # <<>> /\ Head(acts).kind # "take" /\ RestTypeOK
  BY DEF Todo, IInv
<1>3. /\ Requests' = {} /\ Reports' = {e} /\ exec' = x /\ mode' = mode /\ Like(core, core')
  BY <1>1, <1>2, Answers
<1>4. Placing(Head(acts)) /\ mode = "armed" /\ Booked
  BY PlaceAlone
<1>5. e.kind = "cancelled" /\ e.oid = None
  BY DEF Event
<1> HIDE DEF e
<1>6. Booked'
  <2>1. \A o \in Oids \ DOMAIN venue' : exec'.by_oid[o] = None
    BY <1>3, <1>4 DEF Booked
  <2>2. \A o \in DOMAIN venue' : exec'.by_oid[o] # None => o \in Own'
    <3>1. SUFFICES ASSUME NEW o \in DOMAIN venue', exec.by_oid[o] # None PROVE o \in Own'
      BY <1>3
    <3>2. CASE o \in DOMAIN venue
      BY <1>4, <3>1, <3>2 DEF Booked
    <3>3. CASE o \notin DOMAIN venue
      <4>1. o \notin Oids
        BY <1>4, <3>1, <3>3 DEF Booked
      <4> QED
        BY <3>1, <3>3, <4>1
    <3> QED
      BY <3>2, <3>3
  <2> QED
    BY <1>3, <1>4, <2>1, <2>2 DEF Booked, Like
<1>7. Known'
  BY <1>3, <1>4, <1>5 DEF Known, Placing, Like
<1>8. \A o \in DOMAIN venue' : Loose(o)' => Tracked(o)'
  BY <1>3 DEF Tracked
<1> QED
  BY <1>3, <1>4, <1>5, <1>6, <1>7, <1>8 DEF SlotInv

\* An order joins the list.
LEMMA OrderAdded ==
  ASSUME RestTypeOK, Len(venue) < MaxOrders, NEW r \in VenueOrder
  PROVE  /\ Append(venue, r) \in Seq(VenueOrder) /\ Len(Append(venue, r)) = Len(venue) + 1
         /\ Len(Append(venue, r)) <= MaxOrders
         /\ DOMAIN Append(venue, r) = DOMAIN venue \cup {Len(venue) + 1}
         /\ Len(venue) + 1 \notin DOMAIN venue /\ Append(venue, r)[Len(venue) + 1] = r
         /\ \A o \in DOMAIN venue : Append(venue, r)[o] = venue[o]
         /\ DOMAIN Append(venue, r) \subseteq Oids
<1>1. venue \in Seq(VenueOrder) /\ Len(venue) \in Nat /\ DOMAIN venue = 1..Len(venue)
  BY DEF RestTypeOK
<1>2. Len(venue) + 1 \in Oids
  BY <1>1, Identifiers, RestAssumption DEF Oids
<1>3. /\ Append(venue, r) \in Seq(VenueOrder) /\ Len(Append(venue, r)) = Len(venue) + 1
      /\ Append(venue, r)[Len(venue) + 1] = r
      /\ \A o \in 1..Len(venue) : Append(venue, r)[o] = venue[o]
      /\ DOMAIN Append(venue, r) = 1..(Len(venue) + 1)
  BY <1>1
<1>4. 1..(Len(venue) + 1) = 1..Len(venue) \cup {Len(venue) + 1}
  BY <1>1
<1>5. DOMAIN Append(venue, r) \subseteq Oids
  BY <1>1, <1>2, <1>3, <1>4, VenueIds
<1>6. Len(venue) + 1 <= MaxOrders
  BY <1>1, RestAssumption
<1> QED
  BY <1>1, <1>3, <1>4, <1>5, <1>6

\* The notices speak of orders that are still listed.
LEMMA NoticesKept ==
  ASSUME RestTypeOK, DOMAIN venue \subseteq DOMAIN venue', notices' = notices
  PROVE  notices' \subseteq [coid : Coids, oid : DOMAIN venue', n : Nat \ {0}, id : Nat]
BY DEF RestTypeOK

\* An accepted create keeps the invariant (PlaceAccepted).
LEMMA PlaceAcceptedKeeps == IInv /\ PlaceAccepted => IInv'
<1> SUFFICES ASSUME IInv, PlaceAccepted PROVE IInv'
  OBVIOUS
<1> DEFINE a == Head(acts)
           oid == Len(venue) + 1
           rec == [oid |-> oid, count |-> a.count, bucket |-> core.bucket, status |-> "live",
                   confirmed |-> FALSE]
           r == [coid |-> a.coid, rem |-> a.count, filled |-> 0, open |-> TRUE]
           x == [exec EXCEPT !.book[a.coid] = rec, !.by_oid[oid] = a.coid, !.rejects = 0]
           e == Event("ack", a.coid, oid, 0)
<1>1. /\ Todo("place") /\ Len(venue) < MaxOrders /\ (Fault \/ NoFault) /\ notices' = notices
      /\ venue' = Append(venue, r) /\ Executed(<<e>>, x)
  BY DEF PlaceAccepted
<1>2. acts # <<>> /\ a.kind # "take" /\ RestTypeOK
  BY <1>1 DEF Todo, IInv
<1>3. /\ Placing(a) /\ mode = "armed" /\ a \in Action
      /\ Booked /\ (\A o \in DOMAIN venue : ~Loose(o))
      /\ \A o \in Oids : exec.by_oid[o] # a.coid
  BY <1>1, PlaceAlone
<1>4. a.coid \in Coids /\ a.count \in Nat
  BY <1>3 DEF Placing, Action
<1>5. r \in VenueOrder
  BY <1>4 DEF VenueOrder
<1>6. /\ venue' \in Seq(VenueOrder) /\ Len(venue') <= MaxOrders
      /\ DOMAIN venue' = DOMAIN venue \cup {oid} /\ oid \notin DOMAIN venue /\ venue'[oid] = r
      /\ \A o \in DOMAIN venue : venue'[o] = venue[o]
      /\ oid \in Oids /\ DOMAIN venue' \subseteq Oids
  BY <1>1, <1>2, <1>5, OrderAdded
<1>7. oid # None
  BY <1>6, Identifiers
<1> HIDE DEF a, oid, r
<1>8. rec \in Record
  <2>1. core.bucket \in Spots
    BY <1>2 DEF RestTypeOK, State
  <2> QED
    BY <1>4, <1>6, <2>1 DEF Record
<1>9. /\ x \in Executor /\ x.by_oid = [exec.by_oid EXCEPT ![oid] = a.coid] /\ x.down = exec.down
      /\ x.book = [exec.book EXCEPT ![a.coid] = rec]
  <2>1. exec \in Executor /\ exec.book \in [Coids -> Record] /\ exec.by_oid \in [Oids -> Coids \cup {None}]
    BY <1>2 DEF RestTypeOK, Executor
  <2> DEFINE bk == [exec.book EXCEPT ![a.coid] = rec]
             by == [exec.by_oid EXCEPT ![oid] = a.coid]
  <2>2. bk \in [Coids -> Record] /\ by \in [Oids -> Coids \cup {None}]
    BY <1>4, <1>6, <1>8, <2>1
  <2>3. x = [exec EXCEPT !.book = bk, !.by_oid = by, !.rejects = 0]
    BY <2>1 DEF Executor
  <2> HIDE DEF bk, by, x
  <2>4. x \in Executor /\ x.by_oid = by /\ x.book = bk /\ x.down = exec.down
    BY <2>1, <2>2, <2>3 DEF Executor
  <2> QED
    BY <2>4 DEF bk, by
<1> HIDE DEF x
<1>10. e \in OrderEvent /\ e.kind = "ack" /\ e.coid = a.coid /\ e.oid = oid
  BY <1>4, <1>6 DEF Event, OrderEvent
<1> HIDE DEF e
<1>11. /\ Requests' = {} /\ Reports' = {e} /\ exec' = x /\ mode' = mode /\ Like(core, core')
       /\ ReportFits' => HoldInv'
       /\ /\ venue' \in Seq(VenueOrder) /\ Len(venue') <= MaxOrders /\ faults' \in Nat
          /\ notices' \subseteq [coid : Coids, oid : DOMAIN venue', n : Nat \ {0}, id : Nat]
          => RestTypeOK'
  BY <1>1, <1>2, <1>9, <1>10, Answers DEF a
<1>12. RestTypeOK'
  BY <1>1, <1>2, <1>6, <1>11, FaultCount, NoticesKept
<1>13. HoldInv'
  <2>1. ReportFits'
    BY <1>3, <1>4, <1>7, <1>10, <1>11, Identifiers DEF ReportFits, Placing, Like
  <2> QED
    BY <1>11, <2>1
<1>14. SlotInv'
  <2>1. \A o \in Oids : x.by_oid[o] = IF o = oid THEN a.coid ELSE exec.by_oid[o]
    <3>1. exec.by_oid \in [Oids -> Coids \cup {None}]
      BY <1>2 DEF RestTypeOK, Executor
    <3> QED
      BY <1>9, <3>1
  <2>2. \A c \in Coids : c # a.coid => x.book[c] = exec.book[c]
    <3>1. exec.book \in [Coids -> Record]
      BY <1>2 DEF RestTypeOK, Executor
    <3> QED
      BY <1>9, <3>1
  <2>3. \A o \in DOMAIN venue : ~Loose(o)'
    <3>1. SUFFICES ASSUME NEW o \in DOMAIN venue, Loose(o)' PROVE Loose(o)
      BY <1>3
    <3>2. o \in Oids /\ o # oid /\ venue'[o] = venue[o] /\ x.by_oid[o] = exec.by_oid[o]
          /\ exec.by_oid[o] # a.coid /\ exec.by_oid[o] \in Coids \cup {None}
      BY <1>2, <1>3, <1>6, <2>1, VenueIds DEF RestTypeOK, Executor
    <3>3. exec.by_oid[o] # None => x.book[exec.by_oid[o]] = exec.book[exec.by_oid[o]]
      BY <2>2, <3>2
    <3> QED
      BY <1>11, <3>1, <3>2, <3>3 DEF Loose
  <2>4. Booked'
    <3>1. \A o \in Oids : x.by_oid[o] <= core.coid_seq
      <4>1. core.coid_seq \in Nat /\ a.coid = core.coid_seq
        BY <1>2, <1>3 DEF Placing, RestTypeOK, State
      <4> QED
        BY <1>3, <2>1, <4>1 DEF Booked
    <3>2. \A o \in Oids \ DOMAIN venue' : x.by_oid[o] = None
      BY <1>3, <1>6, <2>1 DEF Booked
    <3>3. \A o \in DOMAIN venue' : x.by_oid[o] # None => o \in Own'
      <4>1. SUFFICES ASSUME NEW o \in DOMAIN venue', x.by_oid[o] # None PROVE venue'[o].coid # None
        BY DEF Own
      <4>2. CASE o = oid
        BY <1>3, <1>6, <4>2 DEF r, Placing
      <4>3. CASE o \in DOMAIN venue
        BY <1>3, <1>6, <2>1, <4>1, <4>3 DEF Booked, Own
      <4> QED
        BY <1>6, <4>2, <4>3
    <3> QED
      BY <1>11, <3>1, <3>2, <3>3 DEF Booked, Like
  <2>5. Known'
    BY <1>3, <1>4, <1>6, <1>10, <1>11, <2>1, Identifiers DEF Known, Placing, Like
  <2>6. \A o \in DOMAIN venue' : Loose(o)' => Tracked(o)'
    BY <1>6, <1>10, <1>11, <2>3 DEF Tracked
  <2>7. \A o, p \in (Open \cap Own)' : o = p
    <3>1. \A o \in (Open \cap Own)' : o \in DOMAIN venue' /\ Loose(o)'
      BY DEF Open, Own, Loose
    <3> QED
      BY <1>6, <2>3, <3>1
  <2> QED
    BY <1>3, <1>10, <1>11, <2>4, <2>5, <2>6, <2>7 DEF SlotInv
<1> QED
  BY <1>12, <1>13, <1>14 DEF IInv

\* _reject_place keeps the invariant.
LEMMA RejectKeeps == IInv /\ _reject_place => IInv'
<1> SUFFICES ASSUME IInv, _reject_place PROVE IInv'
  OBVIOUS
<1> DEFINE x == [exec EXCEPT !.rejects = @ + 1, !.down = @ \/ exec.rejects + 1 >= MaxRejects]
           e == Event("cancelled", Head(acts).coid, None, 0)
<1>1. Todo("place") /\ Fault /\ RefusePlace(x) /\ UNCHANGED <<venue, notices>> /\ RestTypeOK /\ SlotInv
  BY DEF _reject_place, IInv
<1>2. acts # <<>> /\ Head(acts).kind # "take"
  BY <1>1 DEF Todo
<1>3. x \in Executor /\ x.by_oid = exec.by_oid /\ x.book = exec.book
  <2>1. exec \in Executor /\ exec.rejects + 1 \in Nat
        /\ (exec.down \/ exec.rejects + 1 >= MaxRejects) \in BOOLEAN
    BY <1>1 DEF RestTypeOK, Executor
  <2> DEFINE rj == exec.rejects + 1
             dn == exec.down \/ exec.rejects + 1 >= MaxRejects
  <2>2. x = [exec EXCEPT !.rejects = rj, !.down = dn]
    BY <2>1 DEF Executor
  <2>3. rj \in Nat /\ dn \in BOOLEAN
    BY <2>1
  <2> HIDE DEF rj, dn, x
  <2> QED
    BY <2>1, <2>2, <2>3 DEF Executor
<1> HIDE DEF x
<1>4. e \in OrderEvent /\ Executed(<<e>>, x) /\ HoldInv'
  BY <1>1, <1>3, RefusedFits
<1>5. exec' = x /\ (/\ venue' \in Seq(VenueOrder) /\ Len(venue') <= MaxOrders /\ faults' \in Nat
            /\ notices' \subseteq [coid : Coids, oid : DOMAIN venue', n : Nat \ {0}, id : Nat]
            => RestTypeOK')
  BY <1>2, <1>3, <1>4, Answers
<1>6. RestTypeOK'
  BY <1>1, <1>5, FaultCount, NoticesKept DEF RestTypeOK
<1>7. SlotInv'
  <2>1. \A o \in DOMAIN venue : ~Loose(o)
    BY <1>1, PlaceAlone
  <2>2. \A o \in DOMAIN venue' : ~Loose(o)'
    BY <1>1, <1>3, <1>5, <2>1 DEF Loose
  <2>3. \A o, p \in (Open \cap Own)' : o = p
    <3>1. \A o \in (Open \cap Own)' : o \in DOMAIN venue' /\ Loose(o)'
      BY DEF Open, Own, Loose
    <3> QED
      BY <2>2, <3>1
  <2>4. Own' = Own /\ DOMAIN venue' \subseteq Oids
    BY <1>1, VenueIds DEF Own
  <2> QED
    BY <1>1, <1>3, <2>2, <2>3, <2>4, RefusedSlot
<1> QED
  BY <1>4, <1>6, <1>7 DEF IInv

\* A create whose answer is missing keeps the invariant (PlaceUnknown).
LEMMA PlaceUnknownKeeps == IInv /\ PlaceUnknown => IInv'
<1> SUFFICES ASSUME IInv, PlaceUnknown PROVE IInv'
  OBVIOUS
<1> DEFINE a == Head(acts)
           r == [coid |-> a.coid, rem |-> a.count, filled |-> 0, open |-> TRUE]
           rec == [NoRecord EXCEPT !.count = 1, !.bucket = core.bucket, !.status = "unknown"]
           x == [exec EXCEPT !.book[a.coid] = rec, !.rejects = @ + 1, !.down = TRUE]
           e == Event("cancelled", Head(acts).coid, None, 0)
<1>1. /\ Todo("place") /\ Fault /\ Len(venue) < MaxOrders /\ notices' = notices
      /\ venue' \in {venue, Append(venue, r)} /\ RefusePlace(x)
  BY DEF PlaceUnknown
<1>2. acts # <<>> /\ a.kind # "take" /\ RestTypeOK
  BY <1>1 DEF Todo, IInv
<1>3. /\ Placing(a) /\ mode = "armed" /\ a \in Action
      /\ Booked /\ (\A o \in DOMAIN venue : ~Loose(o))
  BY <1>1, PlaceAlone
<1>4. a.coid \in Coids /\ a.count \in Nat
  BY <1>3 DEF Placing, Action
<1>5. r \in VenueOrder
  BY <1>4 DEF VenueOrder
<1>6. /\ venue' \in Seq(VenueOrder) /\ Len(venue') <= MaxOrders
      /\ DOMAIN venue \subseteq DOMAIN venue' /\ DOMAIN venue' \subseteq Oids
      /\ DOMAIN venue' \subseteq DOMAIN venue \cup {Len(venue) + 1}
      /\ \A o \in DOMAIN venue : venue'[o] = venue[o]
  <2>1. CASE venue' = venue
    BY <1>2, <2>1, VenueIds DEF RestTypeOK
  <2>2. CASE venue' = Append(venue, r)
    BY <1>1, <1>2, <1>5, <2>2, OrderAdded
  <2> QED
    BY <1>1, <2>1, <2>2
<1>7. x \in Executor /\ x.by_oid = exec.by_oid /\ x.down
  <2>1. exec \in Executor /\ exec.book \in [Coids -> Record] /\ exec.rejects + 1 \in Nat
        /\ core.bucket \in Spots
    BY <1>2 DEF RestTypeOK, Executor, State
  <2>2. rec \in Record
    <3>1. NoRecord \in Record
      BY DEF NoRecord, Record, Spots
    <3> QED
      BY <2>1, <3>1 DEF Record
  <2> DEFINE bk == [exec.book EXCEPT ![a.coid] = rec]
             rj == exec.rejects + 1
  <2>3. bk \in [Coids -> Record] /\ rj \in Nat
    BY <1>4, <2>1, <2>2
  <2>4. x = [exec EXCEPT !.book = bk, !.rejects = rj, !.down = TRUE]
    BY <2>1 DEF Executor
  <2> HIDE DEF bk, rj, x, rec
  <2> QED
    BY <2>1, <2>3, <2>4 DEF Executor
<1> HIDE DEF x, r
<1>8. e \in OrderEvent /\ Executed(<<e>>, x) /\ HoldInv'
  BY <1>1, <1>7, RefusedFits
<1>9. exec' = x /\ (/\ venue' \in Seq(VenueOrder) /\ Len(venue') <= MaxOrders /\ faults' \in Nat
            /\ notices' \subseteq [coid : Coids, oid : DOMAIN venue', n : Nat \ {0}, id : Nat]
            => RestTypeOK')
  BY <1>2, <1>7, <1>8, Answers
<1>10. RestTypeOK'
  BY <1>1, <1>2, <1>6, <1>9, FaultCount, NoticesKept
<1>11. SlotInv'
  <2>1. \A o \in DOMAIN venue : o \in Own => o \in Own'
    BY <1>6 DEF Own
  <2>2. \A o, p \in (Open \cap Own)' : o = p
    <3>1. \A o \in (Open \cap Own)' : o = Len(venue) + 1
      <4>1. SUFFICES ASSUME NEW o \in (Open \cap Own)' PROVE o \notin DOMAIN venue
        BY <1>6 DEF Open, Own
      <4>2. o \in DOMAIN venue => Loose(o)
        BY <1>6 DEF Open, Own, Loose
      <4> QED
        BY <1>3, <4>2
    <3> QED
      BY <3>1
  <2> QED
    BY <1>1, <1>6, <1>7, <2>1, <2>2, RefusedSlot
<1> QED
  BY <1>8, <1>10, <1>11 DEF IInv

\* A stray rest before the create keeps the invariant (PlaceStray).
LEMMA PlaceStrayKeeps == IInv /\ PlaceStray => IInv'
<1> SUFFICES ASSUME IInv, PlaceStray PROVE IInv'
  OBVIOUS
<1> DEFINE x == [exec EXCEPT !.down = TRUE]
           f == [o \in DOMAIN venue |-> [venue[o] EXCEPT !.open = @ /\ o \notin Listed({})]]
           e == Event("cancelled", Head(acts).coid, None, 0)
<1>1. /\ Todo("place") /\ (Fault \/ NoFault) /\ RefusePlace(x) /\ notices' = notices /\ RestTypeOK
      /\ venue' = f \/ venue' = venue
  BY DEF PlaceStray, IInv
<1>2. acts # <<>> /\ Head(acts).kind # "take"
  BY <1>1 DEF Todo
<1>3. x \in Executor /\ x.by_oid = exec.by_oid /\ x.down
  BY <1>1 DEF RestTypeOK, Executor
<1> HIDE DEF x
<1>4. /\ venue' \in Seq(VenueOrder) /\ Len(venue') = Len(venue) /\ DOMAIN venue' = DOMAIN venue
      /\ \A p \in DOMAIN venue : venue'[p].coid = venue[p].coid /\ (venue'[p].open => venue[p].open)
  <2>1. CASE venue' = venue
    BY <1>1, <2>1 DEF RestTypeOK
  <2>2. CASE venue' = f
    <3>1. ASSUME NEW o \in DOMAIN venue
          PROVE  f[o] \in VenueOrder /\ f[o].coid = venue[o].coid /\ (f[o].open => venue[o].open)
      <4>1. venue[o] \in VenueOrder
        BY <1>1 DEF RestTypeOK
      <4> DEFINE z == venue[o].open /\ o \notin Listed({})
      <4>2. f[o] = [venue[o] EXCEPT !.open = z] /\ z \in BOOLEAN /\ (z => venue[o].open)
        OBVIOUS
      <4> HIDE DEF z, f
      <4> QED
        BY <4>1, <4>2 DEF VenueOrder
    <3>2. f = [o \in DOMAIN venue |-> f[o]]
      OBVIOUS
    <3> HIDE DEF f
    <3> QED
      BY <1>1, <2>2, <3>1, <3>2, OrdersTakenOff
  <2> QED
    BY <1>1, <2>1, <2>2
<1> HIDE DEF f
<1>5. e \in OrderEvent /\ Executed(<<e>>, x) /\ HoldInv'
  BY <1>1, <1>3, RefusedFits
<1>6. exec' = x /\ (/\ venue' \in Seq(VenueOrder) /\ Len(venue') <= MaxOrders /\ faults' \in Nat
            /\ notices' \subseteq [coid : Coids, oid : DOMAIN venue', n : Nat \ {0}, id : Nat]
            => RestTypeOK')
  BY <1>2, <1>3, <1>5, Answers
<1>7. RestTypeOK'
  <2>1. Len(venue') <= MaxOrders
    BY <1>1, <1>4 DEF RestTypeOK
  <2> QED
    BY <1>1, <1>4, <1>6, <2>1, FaultCount, NoticesKept
<1>8. SlotInv'
  <2>1. \A o \in DOMAIN venue : ~Loose(o)
    BY <1>1, PlaceAlone
  <2>2. \A o, p \in (Open \cap Own)' : o = p
    <3>1. \A o \in (Open \cap Own)' : o \in DOMAIN venue /\ Loose(o)
      BY <1>4 DEF Open, Own, Loose
    <3> QED
      BY <2>1, <3>1
  <2>3. Own' = Own /\ DOMAIN venue' \subseteq Oids
    BY <1>1, <1>4, VenueIds DEF Own
  <2> QED
    BY <1>1, <1>3, <1>4, <2>2, <2>3, RefusedSlot
<1> QED
  BY <1>5, <1>7, <1>8 DEF IInv

\* A filled order that the list still shows to a create is a stray: none of ours is unconfirmed then.
LEMMA FilledStray ==
  ASSUME IInv, PlaceFilledStray
  PROVE  RefusePlace([exec EXCEPT !.down = TRUE])
<1> DEFINE L == Listed({y \in DOMAIN venue : ~venue[y].open /\ venue[y].filled > 0})
<1>1. PICK o \in L :
        LET coid == exec.by_oid[o]
        IN IF coid = None THEN RefusePlace([exec EXCEPT !.down = TRUE])
           ELSE Executed(<<Event("cancelled", coid, o, venue[o].filled)>>,
                         [exec EXCEPT !.gone = o, !.book[coid].status = "filled",
                                      !.book[coid].confirmed = TRUE])
  BY DEF PlaceFilledStray
<1>2. \A p \in DOMAIN venue : ~Loose(p)
  BY PlaceAlone DEF PlaceFilledStray
<1>3. o \in DOMAIN venue
  BY DEF Listed, _venue_resting_ours, Open
<1>4. ~(exec.by_oid[o] # None /\ exec.book[exec.by_oid[o]].confirmed)
  BY <1>3 DEF Listed
<1>5. exec.by_oid[o] = None
  BY <1>2, <1>3, <1>4 DEF Loose
<1> QED
  BY <1>1, <1>5

\* A phantom of the list keeps the invariant: it is none of ours (PlaceFilledStray).
LEMMA PlaceFilledStrayKeeps == IInv /\ PlaceFilledStray => IInv'
<1> SUFFICES ASSUME IInv, PlaceFilledStray PROVE IInv'
  OBVIOUS
<1> DEFINE x == [exec EXCEPT !.down = TRUE]
           e == Event("cancelled", Head(acts).coid, None, 0)
<1>1. /\ Todo("place") /\ NoFault /\ venue' = venue /\ notices' = notices /\ RestTypeOK
  BY DEF PlaceFilledStray, IInv
<1>3. \A p \in DOMAIN venue : ~Loose(p)
  BY <1>1, PlaceAlone
<1>5. RefusePlace(x)
  BY FilledStray
<1>6. acts # <<>> /\ Head(acts).kind # "take"
  BY <1>1 DEF Todo
<1>7. x \in Executor /\ x.by_oid = exec.by_oid /\ x.down
  BY <1>1 DEF RestTypeOK, Executor
<1> HIDE DEF x
<1>8. e \in OrderEvent /\ Executed(<<e>>, x) /\ HoldInv'
  BY <1>1, <1>5, <1>7, RefusedFits
<1>9. exec' = x /\ (/\ venue' \in Seq(VenueOrder) /\ Len(venue') <= MaxOrders /\ faults' \in Nat
            /\ notices' \subseteq [coid : Coids, oid : DOMAIN venue', n : Nat \ {0}, id : Nat]
            => RestTypeOK')
  BY <1>6, <1>7, <1>8, Answers
<1>10. RestTypeOK'
  BY <1>1, <1>9, FaultCount, NoticesKept DEF RestTypeOK
<1>11. SlotInv'
  <2>1. \A p, q \in (Open \cap Own)' : p = q
    <3>1. \A p \in (Open \cap Own)' : p \in DOMAIN venue /\ Loose(p)
      BY <1>1 DEF Open, Own, Loose
    <3> QED
      BY <1>3, <3>1
  <2>2. Own' = Own /\ DOMAIN venue' \subseteq Oids
    BY <1>1, VenueIds DEF Own
  <2> QED
    BY <1>1, <1>5, <1>7, <2>1, <2>2, RefusedSlot
<1> QED
  BY <1>8, <1>10, <1>11 DEF IInv

\* An order whose end is confirmed (_finish_cancel).
Confirm(y, o, c, st) ==
  [y EXCEPT !.gone = o, !.book[c].confirmed = TRUE, !.book[c].status = st]

LEMMA Finished ==
  ASSUME NEW y \in Executor, NEW o \in Oids, NEW c \in Coids, NEW st \in Statuses, NEW x,
         x = Confirm(y, o, c, st)
  PROVE  /\ x \in Executor /\ x.by_oid = y.by_oid /\ x.down = y.down /\ x.book[c].confirmed
         /\ \A d \in Coids : /\ y.book[d].confirmed => x.book[d].confirmed
                            /\ x.book[d].count = y.book[d].count
                            /\ x.book[d].oid = y.book[d].oid
<1> DEFINE r == [y.book[c] EXCEPT !.confirmed = TRUE, !.status = st]
           bk == [y.book EXCEPT ![c] = r]
<1>1. y.book \in [Coids -> Record] /\ y.book[c] \in Record
  BY DEF Executor
<1>2. r \in Record /\ r.confirmed /\ r.count = y.book[c].count /\ r.oid = y.book[c].oid
  BY <1>1 DEF Record, Statuses
<1>3. bk \in [Coids -> Record] /\ bk[c] = r /\ \A d \in Coids : d # c => bk[d] = y.book[d]
  BY <1>1, <1>2
<1>4. x = [y EXCEPT !.gone = o, !.book = bk]
  BY <1>1 DEF Executor, Confirm
<1> HIDE DEF r, bk
<1>5. x \in Executor /\ x.book = bk /\ x.by_oid = y.by_oid /\ x.down = y.down
  BY <1>3, <1>4 DEF Executor
<1> QED
  BY <1>2, <1>3, <1>5

\* The end of a cancel, known or not (CancelConfirmed, CancelFailed).
CancelEnds(o) == CancelConfirmed(o) \/ CancelFailed(o)

\* what a cancel leaves: the event, and either the order is off the book and confirmed or the hour
\* is down
Cancelled(o, e, x) ==
  /\ e \in OrderEvent /\ e.kind = "cancelled" /\ e.oid = o
  /\ x \in Executor /\ x.by_oid = exec.by_oid /\ (exec.down => x.down)
  /\ Executed(<<e>>, x) /\ notices' = notices /\ (Fault \/ NoFault)
  /\ \A c \in Coids : /\ exec.book[c].confirmed => x.book[c].confirmed
                     /\ x.book[c].count = exec.book[c].count /\ x.book[c].oid = exec.book[c].oid
  /\ \/ /\ venue' = [venue EXCEPT ![o].open = FALSE]
        /\ x.book[exec.by_oid[o]].confirmed
        /\ \/ e.n = venue[o].filled
           \/ e.n = Max({0, exec.book[exec.by_oid[o]].count - venue[o].rem}) /\ venue[o].open
     \/ venue' = venue /\ x.down /\ e.n = 0

\* A cancel ends in one of these ways.
LEMMA CancelOutcome ==
  ASSUME RestTypeOK, NEW o \in DOMAIN venue, exec.by_oid[o] # None, CancelEnds(o)
  PROVE  \E e, x : Cancelled(o, e, x)
<1> DEFINE c == exec.by_oid[o]
<1>1. o \in Oids /\ exec \in Executor /\ exec.book \in [Coids -> Record] /\ c \in Coids
      /\ venue[o] \in VenueOrder
  <2>1. exec \in Executor /\ exec.book \in [Coids -> Record] /\ exec.by_oid \in [Oids -> Coids \cup {None}]
    BY DEF RestTypeOK, Executor
  <2>2. o \in Oids /\ venue[o] \in VenueOrder
    BY VenueIds DEF RestTypeOK
  <2> QED
    BY <2>1, <2>2
<1>2. /\ venue[o].filled \in Nat
      /\ Max({0, exec.book[c].count - venue[o].rem}) \in Nat
  <2>1. venue[o].filled \in Nat /\ venue[o].rem \in Nat
    BY <1>1 DEF VenueOrder
  <2>2. exec.book[c].count \in Nat
    <3>1. exec.book[c] \in Record
      BY <1>1
    <3> QED
      BY <3>1 DEF Record
  <2>3. exec.book[c].count - venue[o].rem \in Int
    BY <2>1, <2>2
  <2> QED
    BY <2>1, <2>3, MaxWithZero
<1>3. ASSUME NEW n \in Nat, _finish_cancel(o, n), Fault \/ NoFault,
             n = venue[o].filled \/ (n = Max({0, exec.book[exec.by_oid[o]].count - venue[o].rem})
                                     /\ venue[o].open)
      PROVE  \E e, x : Cancelled(o, e, x)
  <2> DEFINE st == IF n > 0 THEN "filled" ELSE "cancelled"
             x == [exec EXCEPT !.gone = o, !.book[c].confirmed = TRUE, !.book[c].status = st]
             e == Event("cancelled", c, o, n)
  <2>1. /\ venue' = [venue EXCEPT ![o].open = FALSE] /\ Executed(<<e>>, x) /\ notices' = notices
    BY <1>3 DEF _finish_cancel
  <2>2. st \in Statuses
    BY DEF Statuses
  <2> HIDE DEF st, c
  <2>a. x = Confirm(exec, o, c, st)
    BY DEF Confirm
  <2> HIDE DEF x
  <2>3. /\ x \in Executor /\ x.by_oid = exec.by_oid /\ x.down = exec.down /\ x.book[c].confirmed
        /\ \A d \in Coids : /\ exec.book[d].confirmed => x.book[d].confirmed
                           /\ x.book[d].count = exec.book[d].count /\ x.book[d].oid = exec.book[d].oid
    BY <1>1, <2>2, <2>a, Finished
  <2>4. e \in OrderEvent /\ e.kind = "cancelled" /\ e.oid = o /\ e.n = n
    BY <1>1 DEF Event, OrderEvent
  <2> HIDE DEF e
  <2>5. Cancelled(o, e, x)
    <3>1. x.book[exec.by_oid[o]].confirmed
      BY <2>3 DEF c
    <3> QED
      BY <1>3, <2>1, <2>3, <2>4, <3>1 DEF Cancelled
  <2> QED
    BY <2>5
<1>4. CASE CancelFailed(o)
  <2> DEFINE x == [exec EXCEPT !.book[c].status = "cancel_failed", !.down = TRUE]
             y == [exec EXCEPT !.book[c].status = "cancel_failed"]
             e == Event("cancelled", c, o, 0)
  <2>1. /\ venue' = venue /\ Executed(<<e>>, x) /\ notices' = notices /\ Fault
    BY <1>4 DEF CancelFailed
  <2>2. /\ y \in Executor /\ y.by_oid = exec.by_oid
        /\ \A d \in Coids : /\ y.book[d].confirmed = exec.book[d].confirmed
                           /\ y.book[d].count = exec.book[d].count /\ y.book[d].oid = exec.book[d].oid
    BY <1>1, Marked DEF Statuses
  <2>3. x = [y EXCEPT !.down = TRUE]
    BY <1>1 DEF Executor
  <2> HIDE DEF x, y
  <2>4. /\ x \in Executor /\ x.by_oid = y.by_oid /\ x.book = y.book /\ x.down
    BY <2>2, <2>3 DEF Executor
  <2>5. e \in OrderEvent /\ e.kind = "cancelled" /\ e.oid = o /\ e.n = 0
    BY <1>1 DEF Event, OrderEvent
  <2> HIDE DEF e
  <2>6. Cancelled(o, e, x)
    BY <2>1, <2>2, <2>4, <2>5 DEF Cancelled
  <2> QED
    BY <2>6
<1>5. CASE CancelConfirmed(o)
  <2>1. CASE _resolve_cancel_from_status(o)
    BY <1>2, <1>3, <2>1 DEF _resolve_cancel_from_status, parse_order_status
  <2>2. CASE _confirm_cancel_filled(o)
    <3>1. /\ venue[o].open /\ Fault
          /\ _finish_cancel(o, Max({0, exec.book[exec.by_oid[o]].count - venue[o].rem}))
      BY <2>2 DEF _confirm_cancel_filled, parse_order_status
    <3> QED
      BY <1>2, <1>3, <3>1
  <2> QED
    BY <1>5, <2>1, <2>2 DEF CancelConfirmed
<1> QED
  BY <1>4, <1>5 DEF CancelEnds

\* A cancel, or the fallback of an amend, is about an order of the rest book.
LEMMA CancelTarget ==
  ASSUME IInv, acts # <<>>, Head(acts).kind \in {"cancel", "amend"}, mode = "armed"
  PROVE  LET o == Head(acts).oid
         IN /\ o \in DOMAIN venue /\ o \in Oids /\ exec.by_oid[o] \in Coids /\ Target = o
            /\ core.pending = NoOrder /\ ~core.done /\ Requests = {Head(acts)}
            /\ Head(acts).kind = "amend" => Amending(Head(acts)) /\ core.live # NoOrder
            /\ Head(acts).kind = "cancel" => core.live = NoOrder
            /\ Head(acts) \in Action
<1> DEFINE a == Head(acts)
<1>1. RestTypeOK /\ HoldInv /\ SlotInv /\ a.kind # "take"
  BY DEF IInv
<1>2. acts \in Seq(Action) /\ AskedLast(acts)
  BY <1>1 DEF RestTypeOK, HoldInv, OneRequest
<1>3. Requests = {a} /\ a \in Action
  BY <1>1, <1>2, RequestDone DEF Requests
<1>4. (a.kind = "cancel" => Cancelling(a)) /\ (a.kind = "amend" => Amending(a)) /\ ~core.done
  BY <1>1, <1>3 DEF HoldInv, RequestFits, Latched
<1>5. a.oid \in DOMAIN venue /\ exec.by_oid[a.oid] # None /\ a.oid # None
      /\ (a.kind = "amend" => core.live # NoOrder)
  <2>1. CASE a.kind = "cancel"
    BY <1>1, <1>3, <1>4, <2>1 DEF SlotInv, Known, Cancelling
  <2>2. CASE a.kind = "amend"
    <3>1. a.oid = core.live.oid /\ a.oid # None
      BY <1>4, <2>2 DEF Amending
    <3>2. core.live # NoOrder
      BY <3>1, NoOrderType
    <3> QED
      BY <1>1, <3>1, <3>2 DEF SlotInv, Known
  <2> QED
    BY <2>1, <2>2
<1>6. a.oid \in Oids /\ exec.by_oid[a.oid] \in Coids
  <2>1. exec.by_oid \in [Oids -> Coids \cup {None}] /\ DOMAIN venue \subseteq Oids
    BY <1>1, VenueIds DEF RestTypeOK, Executor
  <2> QED
    BY <1>5, <2>1
<1>7. Target = a.oid
  BY <1>5 DEF Target
<1> QED
  BY <1>3, <1>4, <1>5, <1>6, <1>7 DEF Cancelling, Amending

\* A cancel keeps the invariant, whatever its end is known to be.
LEMMA CancelEndKeeps ==
  ASSUME IInv, acts # <<>>, Head(acts).kind \in {"cancel", "amend"}, mode = "armed",
         NEW o, o = Head(acts).oid, CancelEnds(o)
  PROVE  IInv'
<1> DEFINE a == Head(acts)
<1>1. RestTypeOK /\ HoldInv /\ SlotInv /\ a.kind # "take"
  BY DEF IInv
<1>2. /\ o \in DOMAIN venue /\ o \in Oids /\ exec.by_oid[o] \in Coids
      /\ core.pending = NoOrder /\ ~core.done /\ Requests = {a}
      /\ exec.by_oid[o] # None
  BY CancelTarget, Identifiers
<1> HIDE DEF a
<1>3. PICK e, x : Cancelled(o, e, x)
  BY <1>1, <1>2, CancelOutcome DEF a
<1>4. /\ e \in OrderEvent /\ e.kind = "cancelled" /\ e.oid = o
      /\ x \in Executor /\ x.by_oid = exec.by_oid /\ (exec.down => x.down)
      /\ Executed(<<e>>, x) /\ notices' = notices /\ (Fault \/ NoFault)
      /\ \A c \in Coids : exec.book[c].confirmed => x.book[c].confirmed
      /\ \/ venue' = [venue EXCEPT ![o].open = FALSE] /\ x.book[exec.by_oid[o]].confirmed
         \/ venue' = venue /\ x.down
  BY <1>3 DEF Cancelled
<1>5. /\ Reports = {} /\ Requests' = {} /\ Reports' = {e} /\ exec' = x /\ mode' = mode
      /\ Like(core, core')
      /\ ReportFits' => HoldInv'
      /\ /\ venue' \in Seq(VenueOrder) /\ Len(venue') <= MaxOrders /\ faults' \in Nat
         /\ notices' \subseteq [coid : Coids, oid : DOMAIN venue', n : Nat \ {0}, id : Nat]
         => RestTypeOK'
  BY <1>1, <1>4, Answers DEF a
<1>6. /\ venue' \in Seq(VenueOrder) /\ Len(venue') = Len(venue) /\ DOMAIN venue' = DOMAIN venue
      /\ \A p \in DOMAIN venue : venue'[p].coid = venue[p].coid /\ (venue'[p].open => venue[p].open)
      /\ ~venue'[o].open \/ x.down
  <2>1. CASE venue' = venue /\ x.down
    BY <1>1, <2>1 DEF RestTypeOK
  <2>2. CASE venue' = [venue EXCEPT ![o].open = FALSE]
    <3> DEFINE r == [venue[o] EXCEPT !.open = FALSE]
    <3>1. venue[o] \in VenueOrder
      BY <1>1, <1>2 DEF RestTypeOK
    <3>2. r \in VenueOrder /\ r.coid = venue[o].coid /\ ~r.open
      BY <3>1 DEF VenueOrder
    <3>3. venue' = [venue EXCEPT ![o] = r]
      BY <1>1, <1>2, <2>2 DEF RestTypeOK
    <3> HIDE DEF r
    <3>4. venue' \in Seq(VenueOrder) /\ Len(venue') = Len(venue) /\ DOMAIN venue' = DOMAIN venue
      BY <1>1, <1>2, <3>2, <3>3, OrderReplaced
    <3> QED
      BY <1>2, <3>2, <3>3, <3>4
  <2> QED
    BY <1>4, <2>1, <2>2
<1>7. RestTypeOK'
  <2>1. Len(venue') <= MaxOrders
    BY <1>1, <1>6 DEF RestTypeOK
  <2> QED
    BY <1>1, <1>4, <1>5, <1>6, <2>1, FaultCount, NoticesKept
<1>8. HoldInv'
  <2>1. ReportFits'
    BY <1>2, <1>4, <1>5, Identifiers DEF ReportFits, Like
  <2> QED
    BY <1>5, <2>1
<1>9. SlotInv'
  <2>1. /\ Booked /\ Known
        /\ \A p, q \in Open \cap Own : p = q
        /\ \A p \in DOMAIN venue : Loose(p) => Tracked(p)
    BY <1>1 DEF SlotInv
  <2>2. ~Loose(o)' \/ x.down
    <3>1. CASE x.down
      BY <3>1
    <3>2. CASE venue' = [venue EXCEPT ![o].open = FALSE] /\ x.book[exec.by_oid[o]].confirmed /\ ~x.down
      BY <1>4, <1>5, <1>6, <3>2 DEF Loose
    <3> QED
      BY <1>4, <3>1, <3>2
  <2>3. \A p \in DOMAIN venue : Loose(p)' => Loose(p)
    <3>1. SUFFICES ASSUME NEW p \in DOMAIN venue, Loose(p)' PROVE Loose(p)
      OBVIOUS
    <3>2. exec.by_oid[p] \in Coids \cup {None}
      BY <1>1, VenueIds DEF RestTypeOK, Executor
    <3>3. (venue'[p].open => venue[p].open) /\ venue'[p].coid = venue[p].coid
      BY <1>6
    <3>4. exec.by_oid[p] # None /\ exec.book[exec.by_oid[p]].confirmed => x.book[exec.by_oid[p]].confirmed
      BY <1>4, <3>2
    <3> QED
      BY <1>4, <1>5, <3>1, <3>3, <3>4 DEF Loose
  <2>4. Own' = Own /\ Open' \subseteq Open
    BY <1>6 DEF Own, Open
  <2>5. Booked'
    BY <1>4, <1>5, <1>6, <2>1, <2>4 DEF Booked, Like
  <2>6. Known'
    BY <1>4, <1>5, <1>6, <2>1 DEF Known, Like
  <2>7. ASSUME NEW p \in DOMAIN venue', Loose(p)' PROVE Tracked(p)'
    <3>1. p \in DOMAIN venue /\ Tracked(p)
      BY <1>6, <2>1, <2>3, <2>7
    <3>2. p = core.live.oid \/ exec.down \/ p = o
      BY <1>2, <1>5, <3>1 DEF Tracked, a
    <3>3. CASE p = core.live.oid
      BY <1>5, <3>3 DEF Tracked, Like
    <3>4. CASE exec.down \/ x.down
      <4>1. exec'.down
        BY <1>4, <1>5, <3>4
      <4> QED
        BY <4>1 DEF Tracked
    <3>5. CASE p = o /\ ~x.down
      BY <2>2, <2>7, <3>5
    <3> QED
      BY <3>2, <3>3, <3>4, <3>5
  <2>8. \A p, q \in (Open \cap Own)' : p = q
    BY <2>1, <2>4
  <2>9. \A r \in Reports' : r.kind = "cancelled" /\ r.oid # None =>
          r.oid \in DOMAIN venue' /\ (exec'.down \/ ~Loose(r.oid)')
    BY <1>2, <1>4, <1>5, <1>6, <2>2
  <2>10. mode' # "dry"
    BY <1>5
  <2> QED
    BY <1>5, <2>5, <2>6, <2>7, <2>8, <2>9, <2>10 DEF SlotInv
<1> QED
  BY <1>7, <1>8, <1>9 DEF IInv

\* _cancel_rest keeps the invariant.
LEMMA CancelKeeps == IInv /\ _cancel_rest => IInv'
<1> SUFFICES ASSUME IInv, _cancel_rest PROVE IInv'
  OBVIOUS
<1>1. acts # <<>> /\ Head(acts).kind = "cancel" /\ Head(acts).kind \in {"cancel", "amend"} /\ mode = "armed"
  BY DEF _cancel_rest, Todo
<1>2. Head(acts).oid \in DOMAIN venue /\ Target = Head(acts).oid /\ RestTypeOK
  BY <1>1, CancelTarget DEF IInv
<1>3. Target # None
  BY <1>2, VenueIds
<1>4. CancelEnds(Head(acts).oid)
  BY <1>2, <1>3 DEF _cancel_rest, CancelEnds
<1> QED
  BY <1>1, <1>4, CancelEndKeeps

\* _amend_fallback keeps the invariant.
LEMMA FallbackKeeps == IInv /\ _amend_fallback => IInv'
<1> SUFFICES ASSUME IInv, _amend_fallback PROVE IInv'
  OBVIOUS
<1>1. acts # <<>> /\ Head(acts).kind = "amend" /\ Head(acts).kind \in {"cancel", "amend"} /\ mode = "armed"
  BY DEF _amend_fallback, Todo
<1>2. Target = Head(acts).oid
  BY <1>1, CancelTarget
<1>3. CancelEnds(Head(acts).oid)
  BY <1>2 DEF _amend_fallback, CancelEnds
<1> QED
  BY <1>1, <1>3, CancelEndKeeps

\* The rest book after an accepted amend.
Amended(y, a, b, o, count, st) ==
  [y EXCEPT !.book = [y.book EXCEPT ![a].status = "amended",
                                    ![b] = [y.book[a] EXCEPT !.count = count, !.status = st]],
            !.by_oid[o] = b]

\* The order id moves to a new client id, whose entry takes over; every other entry stays.
LEMMA BookAmended ==
  ASSUME NEW y \in Executor, NEW a \in Coids, NEW b \in Coids, a # b, NEW o \in Oids,
         NEW count \in Nat, NEW st \in Statuses, NEW x, x = Amended(y, a, b, o, count, st)
  PROVE  /\ x \in Executor /\ x.down = y.down
         /\ \A p \in Oids : x.by_oid[p] = IF p = o THEN b ELSE y.by_oid[p]
         /\ \A d \in Coids : d # b => /\ x.book[d].confirmed = y.book[d].confirmed
                                      /\ x.book[d].count = y.book[d].count
         /\ x.book[b].confirmed = y.book[a].confirmed /\ x.book[b].count = count
<1> DEFINE q == [y.book[a] EXCEPT !.status = "amended"]
           r == [y.book[a] EXCEPT !.count = count, !.status = st]
           bk == [y.book EXCEPT ![a] = q, ![b] = r]
           by == [y.by_oid EXCEPT ![o] = b]
<1>1. y.book \in [Coids -> Record] /\ y.book[a] \in Record /\ y.by_oid \in [Oids -> Coids \cup {None}]
  BY DEF Executor
<1>2. /\ q \in Record /\ q.confirmed = y.book[a].confirmed /\ q.count = y.book[a].count
      /\ r \in Record /\ r.confirmed = y.book[a].confirmed /\ r.count = count
  BY <1>1 DEF Record, Statuses
<1>3. x = [y EXCEPT !.book = bk, !.by_oid = by]
  BY <1>1 DEF Executor, Amended
<1> HIDE DEF q, r
<1>4. /\ bk \in [Coids -> Record] /\ bk[b] = r /\ bk[a] = q
      /\ \A d \in Coids : d # a /\ d # b => bk[d] = y.book[d]
  BY <1>1, <1>2
<1>5. by \in [Oids -> Coids \cup {None}] /\ \A p \in Oids : by[p] = IF p = o THEN b ELSE y.by_oid[p]
  BY <1>1
<1> HIDE DEF bk, by
<1>6. x \in Executor /\ x.book = bk /\ x.by_oid = by /\ x.down = y.down
  BY <1>3, <1>4, <1>5 DEF Executor
<1> QED
  BY <1>2, <1>4, <1>5, <1>6

\* _amend_rest keeps the invariant.
LEMMA AmendKeeps == IInv /\ _amend_rest => IInv'
<1> SUFFICES ASSUME IInv, _amend_rest PROVE IInv'
  OBVIOUS
<1>1. acts # <<>> /\ Head(acts).kind = "amend" /\ Head(acts).kind \in {"cancel", "amend"}
      /\ Head(acts).kind # "take" /\ mode = "armed" /\ RestTypeOK /\ HoldInv /\ SlotInv /\ NoFault
  BY DEF _amend_rest, Todo, IInv
<1> PICK a : a = Head(acts)
  OBVIOUS
<1> PICK o : o = a.oid
  OBVIOUS
<1>2. /\ o \in DOMAIN venue /\ o \in Oids /\ exec.by_oid[o] \in Coids
      /\ core.pending = NoOrder /\ ~core.done /\ Requests = {a} /\ Amending(a) /\ core.live # NoOrder
      /\ a \in Action /\ exec.by_oid[o] # None
  BY <1>1, CancelTarget, Identifiers
<1>3. /\ a.coid \in Coids /\ a.new \in Coids /\ a.new # a.coid /\ a.count \in Nat
      /\ a.new = core.coid_seq /\ core.live.oid = o /\ ~core.cancel
  BY <1>2 DEF Amending, Action
<1>4. PICK n \in 0..a.count :
             /\ venue' = [venue EXCEPT ![o] = [coid |-> a.new, rem |-> a.count - n,
                                               filled |-> @.filled + n, open |-> n < a.count]]
             /\ notices' = IF n = 0 THEN notices
                           ELSE notices \cup {[coid |-> a.new, oid |-> o, n |-> n,
                                               id |-> venue[o].filled + n]}
             /\ Executed(<<Event("amended", a.new, o, n)>>,
                  [exec EXCEPT !.book = [@ EXCEPT ![a.coid].status = "amended",
                                                  ![a.new] = [exec.book[a.coid] EXCEPT !.count = a.count,
                                                    !.status = IF n > 0 THEN "filled" ELSE "live"]],
                               !.by_oid[o] = a.new])
  BY DEF _amend_rest
<1>5. venue[o].open
  BY DEF _amend_rest
<1> DEFINE st == IF n > 0 THEN "filled" ELSE "live"
           x == Amended(exec, a.coid, a.new, o, a.count, st)
           e == Event("amended", a.new, o, n)
           r == [coid |-> a.new, rem |-> a.count - n, filled |-> venue[o].filled + n,
                 open |-> n < a.count]
<1>6. Executed(<<e>>, x) /\ venue' = [venue EXCEPT ![o] = r]
  BY <1>4 DEF Amended
<1>7. st \in Statuses /\ exec \in Executor
  BY <1>1 DEF Statuses, RestTypeOK
<1> HIDE DEF st
<1>8. /\ x \in Executor /\ x.down = exec.down
      /\ \A p \in Oids : x.by_oid[p] = IF p = o THEN a.new ELSE exec.by_oid[p]
      /\ \A d \in Coids : d # a.new => x.book[d].confirmed = exec.book[d].confirmed
  BY <1>2, <1>3, <1>7, BookAmended
<1> HIDE DEF x
<1>9. venue[o] \in VenueOrder /\ venue[o].filled \in Nat /\ n \in Nat /\ a.count - n \in Nat
  <2>1. venue[o] \in VenueOrder
    BY <1>1, <1>2 DEF RestTypeOK
  <2> QED
    BY <1>3, <2>1 DEF VenueOrder
<1>10. r \in VenueOrder /\ r.coid = a.new
  BY <1>3, <1>9 DEF VenueOrder
<1>11. e \in OrderEvent /\ e.kind = "amended" /\ e.oid = o /\ e.coid = a.new
  BY <1>2, <1>3, <1>9 DEF Event, OrderEvent
<1> HIDE DEF r, e
<1>12. /\ venue' \in Seq(VenueOrder) /\ Len(venue') = Len(venue) /\ DOMAIN venue' = DOMAIN venue
       /\ venue'[o].coid = a.new /\ \A p \in DOMAIN venue : p # o => venue'[p] = venue[p]
  <2>1. venue' \in Seq(VenueOrder) /\ Len(venue') = Len(venue) /\ DOMAIN venue' = DOMAIN venue
    BY <1>1, <1>2, <1>6, <1>10, OrderReplaced
  <2> QED
    BY <1>2, <1>6, <1>10, <2>1
<1>13. /\ Reports = {} /\ Requests' = {} /\ Reports' = {e} /\ exec' = x /\ mode' = mode
       /\ Like(core, core')
       /\ ReportFits' => HoldInv'
       /\ /\ venue' \in Seq(VenueOrder) /\ Len(venue') <= MaxOrders /\ faults' \in Nat
          /\ notices' \subseteq [coid : Coids, oid : DOMAIN venue', n : Nat \ {0}, id : Nat]
          => RestTypeOK'
  BY <1>1, <1>6, <1>8, <1>11, Answers
<1>14. RestTypeOK'
  <2>1. Len(venue') <= MaxOrders /\ faults' \in Nat
    BY <1>1, <1>12, FaultCount DEF RestTypeOK
  <2>2. notices \subseteq [coid : Coids, oid : DOMAIN venue', n : Nat \ {0}, id : Nat]
    BY <1>1, <1>12 DEF RestTypeOK
  <2>3. n # 0 => [coid |-> a.new, oid |-> o, n |-> n, id |-> venue[o].filled + n]
          \in [coid : Coids, oid : DOMAIN venue', n : Nat \ {0}, id : Nat]
    BY <1>2, <1>3, <1>9, <1>12
  <2> QED
    BY <1>4, <1>12, <1>13, <2>1, <2>2, <2>3
<1>17. o # None /\ a.new # None /\ a.new <= core.coid_seq
  <2>1. a.new \in Nat /\ a.new # None /\ o # None
    BY <1>2, <1>3, Identifiers
  <2> QED
    BY <1>3, <2>1
<1>15. HoldInv'
  <2>1. o # None /\ a.new # None /\ a.new <= core.coid_seq
    BY <1>17
  <2>2. ReportFits'
    BY <1>2, <1>3, <1>11, <1>13, <2>1 DEF ReportFits, Like
  <2> QED
    BY <1>13, <2>2
<1>16. SlotInv'
  <2>1. /\ Booked /\ Known
        /\ \A p, q \in Open \cap Own : p = q
        /\ \A p \in DOMAIN venue : Loose(p) => Tracked(p)
    BY <1>1 DEF SlotInv
  <2>2. o # None /\ a.new # None /\ a.new <= core.coid_seq
    BY <1>17
  <2>3. \A p \in Oids : exec.by_oid[p] # a.new
    BY <1>1, <1>2, <2>1 DEF Booked, Fresh
  <2>4. Own' = Own /\ Open' \subseteq Open
    <3>1. o \in Own /\ o \in Open
      BY <1>2, <1>5, <2>1 DEF Booked, Open
    <3>2. o \in Own'
      BY <1>2, <1>12, <2>2 DEF Own
    <3> QED
      BY <1>2, <1>12, <3>1, <3>2 DEF Own, Open
  <2>5. \A p \in DOMAIN venue : p # o /\ Loose(p)' => Loose(p)
    <3>1. SUFFICES ASSUME NEW p \in DOMAIN venue, p # o, Loose(p)' PROVE Loose(p)
      OBVIOUS
    <3>2. p \in Oids /\ x.by_oid[p] = exec.by_oid[p] /\ exec.by_oid[p] \in Coids \cup {None}
          /\ exec.by_oid[p] # a.new
      BY <1>1, <1>8, <2>3, <3>1, VenueIds DEF RestTypeOK, Executor
    <3>3. exec.by_oid[p] # None => x.book[exec.by_oid[p]].confirmed = exec.book[exec.by_oid[p]].confirmed
      BY <1>8, <3>2
    <3> QED
      BY <1>12, <1>13, <3>1, <3>2, <3>3 DEF Loose
  <2>6. Booked'
    <3>1. core'.coid_seq = core.coid_seq /\ Requests' = {} /\ exec' = x /\ DOMAIN venue' = DOMAIN venue
      BY <1>12, <1>13 DEF Like
    <3>2. \A p \in Oids : x.by_oid[p] <= core.coid_seq
      BY <1>8, <2>1, <2>2 DEF Booked
    <3>3. \A p \in Oids \ DOMAIN venue : x.by_oid[p] = None
      BY <1>2, <1>8, <2>1 DEF Booked
    <3>4. \A p \in DOMAIN venue : x.by_oid[p] # None => p \in Own
      <4>1. o \in Own /\ DOMAIN venue \subseteq Oids
        BY <1>1, <1>2, <2>1, VenueIds DEF Booked
      <4> QED
        BY <1>8, <2>1, <4>1 DEF Booked
    <3> QED
      BY <2>4, <3>1, <3>2, <3>3, <3>4 DEF Booked
  <2>7. Known'
    <3>1. core'.live.oid = o /\ exec'.by_oid[o] = a.new /\ o \in DOMAIN venue'
      BY <1>2, <1>3, <1>8, <1>12, <1>13 DEF Like
    <3> QED
      BY <1>11, <1>13, <2>2, <3>1 DEF Known
  <2>8. ASSUME NEW p \in DOMAIN venue', Loose(p)' PROVE Tracked(p)'
    <3>1. p \in DOMAIN venue /\ core'.live.oid = o
      BY <1>3, <1>12, <1>13 DEF Like
    <3>2. CASE p = o
      BY <3>1, <3>2 DEF Tracked
    <3>3. CASE p # o
      <4>1. Tracked(p)
        BY <2>1, <2>5, <2>8, <3>1, <3>3
      <4>2. exec.down
        BY <1>1, <1>2, <1>3, <1>13, <3>3, <4>1 DEF Tracked
      <4>3. exec'.down
        BY <1>8, <1>13, <4>2
      <4> QED
        BY <4>3 DEF Tracked
    <3> QED
      BY <3>2, <3>3
  <2>9. \A p, q \in (Open \cap Own)' : p = q
    BY <2>1, <2>4
  <2>10. mode' # "dry" /\ Requests' = {} /\ \A y \in Reports' : y.kind # "cancelled"
    BY <1>1, <1>11, <1>13
  <2> QED
    BY <2>6, <2>7, <2>8, <2>9, <2>10 DEF SlotInv
<1> QED
  BY <1>14, <1>15, <1>16 DEF IInv

\* Sending the wings leaves the orders and the holds alone (_take_wings, FrozenExecutor).
LEMMA TakenKeeps ==
  ASSUME IInv, acts # <<>>, Head(acts).kind = "take",
         queue' \in Seq(AnyEvent), OneReport(queue'), Reports' = Reports,
         acts' = Tail(acts), core' = _apply_executor_standdown(core, exec.down, Tail(acts)),
         UNCHANGED <<mode, exec, venue, notices, ticks>>, faults' \in Nat
  PROVE  IInv'
<1>1. RestTypeOK /\ HoldInv /\ SlotInv
  BY DEF IInv
<1>2. acts \in Seq(Action) /\ AskedLast(acts) /\ core \in State /\ core.out = <<>> /\ exec.down \in BOOLEAN
  BY <1>1 DEF RestTypeOK, HoldInv, OneRequest, Executor
<1>3. acts' \in Seq(Action) /\ AskedLast(acts') /\ Requests' = Requests
  BY <1>2, TakeDone DEF Requests
<1>4. Like(core, core') /\ (core'.stood_down <=> core.stood_down \/ (acts' = <<>> /\ exec.down))
  <2>1. core' = _apply_executor_standdown([core EXCEPT !.out = <<>>], exec.down, Tail(acts))
    BY <1>2, Emptied
  <2> QED
    BY <1>2, <2>1, StandDown
<1>5. /\ core' \in State /\ core'.out = <<>> /\ core'.coid_seq = core.coid_seq
      /\ core'.live = core.live /\ core'.pending = core.pending /\ core'.cancel = core.cancel
      /\ core'.amend = core.amend /\ core'.done = core.done /\ core'.phase = core.phase
  BY <1>4 DEF Like
<1>6. RestTypeOK'
  BY <1>1, <1>3, <1>5 DEF RestTypeOK
<1>7. HoldInv'
  <2>1. OneRequest'
    BY <1>1, <1>3 DEF HoldInv, OneRequest
  <2>2. RequestFits'
    <3>1. \A a \in Requests : a.kind = "place" => Placing(a)'
      BY <1>1, <1>4, <1>5 DEF HoldInv, RequestFits, Placing
    <3>2. \A a \in Requests : a.kind = "cancel" => Cancelling(a)'
      BY <1>1, <1>5 DEF HoldInv, RequestFits, Cancelling
    <3>3. \A a \in Requests : a.kind = "amend" => Amending(a)'
      BY <1>1, <1>5 DEF HoldInv, RequestFits, Amending
    <3> QED
      BY <1>3, <3>1, <3>2, <3>3 DEF RequestFits
  <2>3. ReportFits'
    BY <1>1, <1>5 DEF HoldInv, ReportFits, Clear
  <2>4. Latched'
    BY <1>1, <1>3, <1>4, <1>5 DEF HoldInv, Latched
  <2>5. Requests' = {} /\ Reports' = {} => Clear'
    BY <1>1, <1>3, <1>5 DEF HoldInv, Clear
  <2>6. /\ core'.live # NoOrder => core'.live.oid # None /\ core'.live.coid # None
        /\ core'.live.coid <= core'.coid_seq /\ core'.pending.coid <= core'.coid_seq
    BY <1>1, <1>5 DEF HoldInv
  <2> QED
    BY <2>1, <2>2, <2>3, <2>4, <2>5, <2>6 DEF HoldInv
<1>8. SlotInv'
  <2>1. CASE mode = "dry"
    BY <1>1, <2>1 DEF SlotInv
  <2>2. CASE mode # "dry"
    <3>1. /\ Booked /\ Known
          /\ \A o, p \in Open \cap Own : o = p
          /\ \A o \in DOMAIN venue : Loose(o) => Tracked(o)
          /\ \A a \in Requests : a.kind = "place" => \A o \in DOMAIN venue : ~Loose(o)
          /\ \A x \in Reports : x.kind = "cancelled" /\ x.oid # None =>
               x.oid \in DOMAIN venue /\ (exec.down \/ ~Loose(x.oid))
      BY <1>1, <2>2 DEF SlotInv
    <3>2. Booked'
      BY <1>3, <1>5, <3>1 DEF Booked, Own
    <3>3. Known'
      BY <1>3, <1>5, <3>1 DEF Known
    <3>4. \A o \in DOMAIN venue : Loose(o)' = Loose(o) /\ (Tracked(o) => Tracked(o)')
      BY <1>3, <1>5 DEF Loose, Tracked
    <3>5. \A o, p \in (Open \cap Own)' : o = p
      BY <3>1 DEF Open, Own
    <3>6. \A x \in Reports' : x.kind = "cancelled" /\ x.oid # None =>
               x.oid \in DOMAIN venue' /\ (exec'.down \/ ~Loose(x.oid)')
      BY <3>1, <3>4
    <3>7. \A a \in Requests' : a.kind = "place" => \A o \in DOMAIN venue' : ~Loose(o)'
      BY <1>3, <3>1, <3>4
    <3>8. \A o \in DOMAIN venue' : Loose(o)' => Tracked(o)'
      BY <3>1, <3>4
    <3> QED
      BY <2>2, <3>2, <3>3, <3>5, <3>6, <3>7, <3>8 DEF SlotInv
  <2> QED
    BY <2>1, <2>2
<1> QED
  BY <1>6, <1>7, <1>8 DEF IInv

\* The answers of the wings are no report of an order (_take_wings).
LEMMA WingsReported ==
  ASSUME IInv, _take_wings
  PROVE  /\ acts # <<>> /\ Head(acts).kind = "take" /\ acts' = Tail(acts)
         /\ queue' \in Seq(AnyEvent) /\ OneReport(queue') /\ Reports' = Reports
         /\ core' = _apply_executor_standdown(core, exec.down, Tail(acts))
         /\ UNCHANGED <<mode, exec, venue, notices, ticks>> /\ faults' \in Nat
<1> DEFINE legs == {k \in (DOMAIN core.batches) \X Sides : core.batches[k[1]].legs[k[2]] = "pending"}
<1>1. /\ acts # <<>> /\ Head(acts).kind = "take" /\ RestTypeOK /\ HoldInv
      /\ UNCHANGED <<venue, notices>>
  BY DEF _take_wings, Todo, IInv
<1>2. PICK got \in SUBSET legs : Executed(_wing_events(legs, got), exec) /\ (NoFault \/ Fault)
  BY DEF _take_wings
<1> DEFINE e == [kind |-> "wings", sent |-> legs, got |-> got]
<1>3. queue' = queue \o <<e>> /\ acts' = Tail(acts) /\ exec' = exec /\ UNCHANGED <<mode, ticks>>
      /\ core' = _apply_executor_standdown(core, exec.down, Tail(acts))
  BY <1>2 DEF Executed, _wing_events
<1>4. e \in AnyEvent /\ e.kind = "wings"
  <2>1. legs \subseteq Nat \X Sides
    <3>1. core.batches \in Seq(Batch)
      BY <1>1 DEF RestTypeOK, State
    <3>2. DOMAIN core.batches \subseteq Nat
      BY <3>1
    <3> QED
      BY <3>2
  <2> HIDE DEF legs
  <2> QED
    BY <2>1 DEF AnyEvent, WingEvent
<1> HIDE DEF e, legs
<1>5. queue \in Seq(AnyEvent) /\ OneReport(queue)
  BY <1>1 DEF RestTypeOK, HoldInv, OneRequest
<1>6. queue' \in Seq(AnyEvent) /\ OneReport(queue') /\ Reports' = Reports
  BY <1>3, <1>4, <1>5, Queued DEF Reports
<1>7. faults' \in Nat
  BY <1>1, <1>2, FaultCount
<1> QED
  BY <1>1, <1>3, <1>6, <1>7

\* _take_wings keeps the invariant.
LEMMA TakeKeeps == IInv /\ _take_wings => IInv'
BY WingsReported, TakenKeeps

\* The dry executor keeps the invariant (FrozenExecutor).
LEMMA FrozenKeeps == IInv /\ FrozenExecutor => IInv'
<1> SUFFICES ASSUME IInv, FrozenExecutor PROVE IInv'
  OBVIOUS
<1>1. /\ acts # <<>> /\ mode = "dry" /\ RestTypeOK /\ HoldInv /\ SlotInv
      /\ UNCHANGED <<venue, notices, faults>>
  BY DEF FrozenExecutor, IInv
<1> PICK a : a = Head(acts)
  OBVIOUS
<1> DEFINE rec == [oid |-> a.coid, count |-> a.count, bucket |-> core.bucket, status |-> "live",
                   confirmed |-> FALSE]
<1>2. a \in Action /\ acts \in Seq(Action) /\ AskedLast(acts) /\ exec \in Executor
  BY <1>1 DEF RestTypeOK, HoldInv, OneRequest
<1>3. venue = <<>> /\ notices = {} /\ venue' = <<>> /\ notices' = {}
  BY <1>1 DEF SlotInv
<1>4. ASSUME NEW e \in OrderEvent, NEW x \in Executor, a.kind # "take", Executed(<<e>>, x), ReportFits'
      PROVE  IInv'
  <2>1. /\ mode' = mode /\ (ReportFits' => HoldInv')
        /\ /\ venue' \in Seq(VenueOrder) /\ Len(venue') <= MaxOrders /\ faults' \in Nat
           /\ notices' \subseteq [coid : Coids, oid : DOMAIN venue', n : Nat \ {0}, id : Nat]
           => RestTypeOK'
    BY <1>1, <1>4, Answers
  <2>2. RestTypeOK'
    BY <1>1, <2>1 DEF RestTypeOK
  <2>3. SlotInv'
    BY <1>1, <1>3, <2>1 DEF SlotInv
  <2> QED
    BY <1>4, <2>1, <2>2, <2>3 DEF IInv
<1>5. ASSUME a.kind # "take", NEW e \in OrderEvent, NEW x \in Executor, Executed(<<e>>, x)
      PROVE  Requests = {a} /\ Reports' = {e} /\ Like(core, core')
  BY <1>1, <1>5, Answers
<1>6. CASE a.kind = "place"
  <2> DEFINE x == [exec EXCEPT !.book[a.coid] = rec, !.by_oid[a.coid] = a.coid]
             e == Event("ack", a.coid, a.coid, 0)
  <2>1. Executed(<<e>>, x)
    BY <1>6 DEF FrozenExecutor, FrozenAnswers
  <2>2. Requests = {a} /\ Placing(a)
    <3>1. Requests = {a}
      BY <1>1, <1>2, <1>6, RequestDone DEF Requests
    <3> QED
      BY <1>1, <1>6, <3>1 DEF HoldInv, RequestFits
  <2>3. a.coid \in Coids /\ a.coid \in Oids /\ a.count \in Nat /\ a.coid # None
    BY <1>2, <2>2, Identifiers DEF Placing, Action
  <2>4. e \in OrderEvent /\ e.kind = "ack" /\ e.coid = a.coid /\ e.oid = a.coid
    BY <2>3 DEF Event, OrderEvent
  <2>5. rec \in Record
    <3>1. core.bucket \in Spots
      BY <1>1 DEF RestTypeOK, State
    <3> QED
      BY <2>3, <3>1 DEF Record
  <2> HIDE DEF rec, e
  <2>6. x \in Executor
    <3> DEFINE bk == [exec.book EXCEPT ![a.coid] = rec]
               by == [exec.by_oid EXCEPT ![a.coid] = a.coid]
    <3>1. bk \in [Coids -> Record] /\ by \in [Oids -> Coids \cup {None}]
      BY <1>2, <2>3, <2>5 DEF Executor
    <3>2. x = [exec EXCEPT !.book = bk, !.by_oid = by]
      BY <1>2 DEF Executor
    <3> HIDE DEF bk, by, x
    <3> QED
      BY <1>2, <3>1, <3>2 DEF Executor
  <2> HIDE DEF x
  <2>7. Reports' = {e} /\ Like(core, core')
    BY <1>5, <1>6, <2>1, <2>4, <2>6
  <2>8. ReportFits'
    BY <2>2, <2>3, <2>4, <2>7 DEF ReportFits, Placing, Like
  <2> QED
    BY <1>4, <1>6, <2>1, <2>4, <2>6, <2>8
<1>7. CASE a.kind = "cancel"
  <2> DEFINE x == [exec EXCEPT !.book[a.coid].status = "cancelled"]
             e == Event("cancelled", a.coid, a.oid, 0)
  <2>1. Executed(<<e>>, x)
    BY <1>7 DEF FrozenExecutor, FrozenAnswers
  <2>2. Requests = {a} /\ Cancelling(a)
    <3>1. Requests = {a}
      BY <1>1, <1>2, <1>7, RequestDone DEF Requests
    <3> QED
      BY <1>1, <1>7, <3>1 DEF HoldInv, RequestFits
  <2>3. a.coid \in Coids /\ a.oid \in Oids /\ a.oid # None
    BY <1>2, <2>2 DEF Cancelling, Action
  <2>4. e \in OrderEvent /\ e.kind = "cancelled" /\ e.oid = a.oid
    BY <2>3 DEF Event, OrderEvent
  <2>5. x \in Executor
    BY <1>2, <2>3, Marked DEF Statuses
  <2> HIDE DEF x, e
  <2>6. Reports' = {e} /\ Like(core, core')
    BY <1>5, <1>7, <2>1, <2>4, <2>5
  <2>7. ReportFits'
    BY <2>2, <2>3, <2>4, <2>6 DEF ReportFits, Cancelling, Like
  <2> QED
    BY <1>4, <1>7, <2>1, <2>4, <2>5, <2>7
<1>8. CASE a.kind = "amend"
  <2> DEFINE x == [exec EXCEPT !.book = [@ EXCEPT ![a.coid].status = "amended",
                                                  ![a.new] = exec.book[a.coid]],
                               !.by_oid[a.oid] = a.new]
             e == Event("amended", a.new, a.oid, 0)
  <2>1. Executed(<<e>>, x)
    BY <1>8 DEF FrozenExecutor, FrozenAnswers
  <2>2. Requests = {a} /\ Amending(a)
    <3>1. Requests = {a}
      BY <1>1, <1>2, <1>8, RequestDone DEF Requests
    <3> QED
      BY <1>1, <1>8, <3>1 DEF HoldInv, RequestFits
  <2>3. a.coid \in Coids /\ a.oid \in Oids /\ a.oid # None /\ a.new \in Coids /\ a.new # None
    BY <1>2, <2>2 DEF Amending, Action
  <2>4. e \in OrderEvent /\ e.kind = "amended" /\ e.oid = a.oid /\ e.coid = a.new
    BY <2>3 DEF Event, OrderEvent
  <2>5. x \in Executor
    <3> DEFINE q == [exec.book[a.coid] EXCEPT !.status = "amended"]
               bk == [exec.book EXCEPT ![a.coid] = q, ![a.new] = exec.book[a.coid]]
               by == [exec.by_oid EXCEPT ![a.oid] = a.new]
    <3>1. exec.book \in [Coids -> Record] /\ exec.by_oid \in [Oids -> Coids \cup {None}]
          /\ exec.book[a.coid] \in Record
      BY <1>2, <2>3 DEF Executor
    <3>2. q \in Record
      BY <3>1 DEF Record
    <3>3. x = [exec EXCEPT !.book = bk, !.by_oid = by]
      BY <1>2, <3>1 DEF Executor
    <3> HIDE DEF q
    <3>4. bk \in [Coids -> Record] /\ by \in [Oids -> Coids \cup {None}]
      BY <2>3, <3>1, <3>2
    <3> HIDE DEF bk, by, x
    <3> QED
      BY <1>2, <3>3, <3>4 DEF Executor
  <2> HIDE DEF x, e
  <2>6. Reports' = {e} /\ Like(core, core')
    BY <1>5, <1>8, <2>1, <2>4, <2>5
  <2>7. core.coid_seq \in Nat /\ a.new <= core.coid_seq
    BY <1>1, <2>2 DEF Amending, RestTypeOK, State
  <2>8. ReportFits'
    BY <2>2, <2>3, <2>4, <2>6, <2>7 DEF ReportFits, Amending, Like
  <2> QED
    BY <1>4, <1>8, <2>1, <2>4, <2>5, <2>8
<1>9. CASE a.kind = "take"
  <2>1. Executed(<<>>, exec)
    BY <1>9 DEF FrozenExecutor, FrozenAnswers
  <2>2. queue \in Seq(AnyEvent) /\ OneReport(queue) /\ faults' \in Nat
    BY <1>1 DEF RestTypeOK, HoldInv, OneRequest
  <2>3. queue' = queue /\ acts' = Tail(acts) /\ exec' = exec /\ UNCHANGED <<mode, ticks>>
        /\ core' = _apply_executor_standdown(core, exec.down, Tail(acts))
    BY <2>1, <2>2 DEF Executed
  <2>4. queue' \in Seq(AnyEvent) /\ OneReport(queue') /\ Reports' = Reports
    BY <2>2, <2>3 DEF Reports
  <2> QED
    BY <1>1, <1>9, <2>2, <2>3, <2>4, TakenKeeps
<1> QED
  BY <1>2, <1>6, <1>7, <1>8, <1>9 DEF Action

\* Init establishes the invariant.
LEMMA InitInv == Init => IInv
<1> SUFFICES ASSUME Init PROVE IInv
  OBVIOUS
<1>1. PICK m \in Allotments : core = NewState(m)
  BY DEF Init
<1>2. /\ mode \in {"armed", "dry"} /\ m \in Nat \ {0}
      /\ exec = [book |-> [c \in Coids |-> NoRecord], by_oid |-> [o \in Oids |-> None],
                 gone |-> None, rejects |-> 0, down |-> FALSE, swept |-> mode = "dry"]
      /\ notices = {} /\ queue = <<>> /\ acts = <<>> /\ ticks = 0 /\ faults = 0
      /\ (venue = <<>> \/ (mode = "armed" /\ venue = <<Stray>>))
  BY RestAssumption DEF Init
<1>3. None \in Nat /\ None \in Spots /\ Coids \subseteq Nat /\ Oids \subseteq Nat
  BY Identifiers DEF None, Spots
<1>4. core \in State
  <2>1. NoOrder \in Order /\ [c \in Coids |-> 0] \in [Coids -> Nat]
        /\ [o \in Oids |-> None] \in [Oids -> Coids \cup {None}] /\ [o \in Oids |-> 0] \in [Oids -> Nat]
        /\ <<>> \in Seq(Batch) /\ <<>> \in Seq(Action)
    BY NoOrderType
  <2> QED
    BY <1>1, <1>2, <1>3, <2>1 DEF NewState, State
<1>5. /\ core.out = <<>> /\ core.coid_seq = 0 /\ core.pending = NoOrder /\ core.live = NoOrder
      /\ ~core.cancel /\ ~core.amend /\ ~core.done
  BY <1>1 DEF NewState
<1>6. exec \in Executor /\ ~exec.down /\ \A o \in Oids : exec.by_oid[o] = None
  <2>1. NoRecord \in Record
    BY <1>3 DEF NoRecord, Record
  <2> QED
    BY <1>2, <2>1 DEF Executor
<1>7. venue \in Seq(VenueOrder) /\ Len(venue) <= MaxOrders /\ \A o \in DOMAIN venue : venue[o].coid = None
  <2>1. Stray \in VenueOrder /\ Stray.coid = None
    BY DEF Stray, VenueOrder
  <2>2. CASE venue = <<>>
    BY <2>2, RestAssumption
  <2>3. CASE venue = <<Stray>>
    BY <2>1, <2>3, RestAssumption
  <2> QED
    BY <1>2, <2>2, <2>3
<1>8. RestTypeOK
  BY <1>2, <1>4, <1>5, <1>6, <1>7, RestAssumption DEF RestTypeOK
<1>9. Requests = {} /\ Reports = {} /\ AskedLast(acts) /\ OneReport(queue)
  BY <1>2 DEF Requests, RequestsOf, Reports, ReportsOf, AskedLast, OneReport
<1>10. HoldInv
  BY <1>5, <1>6, <1>9, NoOrderType
     DEF HoldInv, OneRequest, RequestFits, ReportFits, Latched, Clear, None
<1>11. SlotInv
  <2>1. DOMAIN venue \subseteq Oids /\ Own = {}
    BY <1>7, <1>8, VenueIds DEF Own
  <2>2. Booked
    BY <1>5, <1>6, <1>9, <2>1 DEF Booked, None
  <2>3. Known
    BY <1>5, <1>9 DEF Known
  <2>4. \A o \in DOMAIN venue : ~Loose(o)
    BY <1>6, <1>7, <2>1 DEF Loose
  <2>5. mode = "dry" => venue = <<>> /\ notices = {}
    BY <1>2
  <2> QED
    BY <1>9, <2>1, <2>2, <2>3, <2>4, <2>5 DEF SlotInv
<1> QED
  BY <1>8, <1>10, <1>11 DEF IInv

\* Every step keeps the invariant.
LEMMA NextInv == IInv /\ [Next]_vars => IInv'
<1> SUFFICES ASSUME IInv, [Next]_vars PROVE IInv'
  OBVIOUS
<1>1. CASE Next
  BY <1>1, PumpKeeps, TickKeeps, NoticeKeeps, PollKeeps, PlaceAcceptedKeeps, RejectKeeps,
     PlaceUnknownKeeps, PlaceStrayKeeps, PlaceFilledStrayKeeps, SweepKeeps, CancelKeeps,
     AmendKeeps, FallbackKeeps, TakeKeeps, FrozenKeeps, VenueFillKeeps, VenueExpireKeeps,
     NoticeLostKeeps DEF Next
<1>2. CASE UNCHANGED vars
  <2>1. RestTypeOK /\ HoldInv /\ SlotInv /\ (mode = "dry" => venue' = <<>> /\ notices' = {})
    BY <1>2 DEF IInv, SlotInv, vars
  <2>2. RestTypeOK'
    BY <1>2, <2>1 DEF RestTypeOK, vars
  <2> QED
    BY <1>2, <2>1, <2>2, BookMoves DEF vars
<1> QED
  BY <1>1, <1>2

\* The inductive invariant: one request at a time, each answered, and no rest out of sight.
THEOREM RestInvTheorem == Spec => []IInv
<1>1. Init => IInv
  BY InitInv
<1>2. IInv /\ [Next]_vars => IInv'
  BY NextInv
<1> QED
  BY <1>1, <1>2, PTL DEF Spec

\* The pump leaves no hold behind: between two events no create, cancel or amend is unconfirmed
\* (run_v32.py, the queue of _pump; core.py, _requote).
THEOREM HoldReleasedTheorem == Spec => []HoldReleased
<1>1. IInv => HoldReleased
  BY AtQuiet DEF HoldReleased, Clear
<1> QED
  BY <1>1, RestInvTheorem, PTL

-----------------------------------------------------------------------------
(* What a step of the pump does *)

\* the report is settled, or the answers of wings are: of the orders, nothing else has changed
PumpSettles(t) ==
  /\ Like(t, core') /\ (core'.stood_down <=> t.stood_down \/ (t.out = <<>> /\ exec.down))
  /\ Requests = {} /\ Requests' = {}
  /\ UNCHANGED <<mode, exec, venue, notices>>
  /\ \/ \E e : /\ Reports = {e} /\ Reports' = {} /\ Settles(e, t) /\ LotSettles(e, t)
               /\ (e \in OrderEvent \/ e \in LateEvent)
               /\ (e.kind = "late" /\ core.batches # <<>> => t = core)
     \/ /\ Reports' = Reports /\ t.contracts = core.contracts /\ t.phase = core.phase
        /\ t.remaining = core.remaining /\ t.live = core.live /\ t.pending = core.pending
        /\ t.done = core.done /\ t.stood_down = core.stood_down /\ t.booked = core.booked
        /\ t.cancel_ctx = core.cancel_ctx /\ t.cross = core.cross /\ t.coid_seq = core.coid_seq
        /\ Len(t.batches) = Len(core.batches)
        /\ \A i \in 1..Len(core.batches) : t.batches[i].n = core.batches[i].n

\* Every step of the pump settles an event (_pump).
LEMMA PumpDoes ==
  ASSUME IInv, _pump
  PROVE  \E t \in State : PumpSettles(t)
<1>1. PICK now \in Nows : Decided(decide_v32(core, Head(queue), now))
  BY DEF _pump
<1> PICK e : e = Head(queue)
  OBVIOUS
<1> PICK t : t = decide_v32(core, e, now)
  OBVIOUS
<1>2. /\ acts = <<>> /\ queue # <<>> /\ queue' = Tail(queue) /\ Decided(t)
      /\ UNCHANGED <<mode, exec, venue, notices>> /\ RestTypeOK /\ HoldInv
  BY <1>1 DEF _pump, IInv
<1>3. Requests = {} /\ queue \in Seq(AnyEvent) /\ OneReport(queue) /\ core \in State /\ core.out = <<>>
  BY <1>2 DEF Requests, RequestsOf, RestTypeOK, HoldInv, OneRequest
<1>4. e \in AnyEvent
  BY <1>2, <1>3
<1>5. ASSUME t \in State, t.out \in Seq(Take)
      PROVE  /\ Like(t, core') /\ (core'.stood_down <=> t.stood_down \/ (t.out = <<>> /\ exec.down))
             /\ Requests' = {}
  BY <1>2, <1>5, Decides, TakesOnly DEF Requests
<1>6. CASE e.kind = "wings"
  <2>1. Reports' = Reports
    BY <1>2, <1>3, <1>6, WingsHeard DEF Reports
  <2>2. e \in WingEvent
    BY <1>4, <1>6 DEF AnyEvent, OrderEvent, LateEvent
  <2>3. t = _apply_wings(core, e)
    BY <1>6 DEF decide_v32
  <2>4. /\ t \in State /\ t.out = core.out /\ t.contracts = core.contracts /\ t.phase = core.phase
        /\ t.remaining = core.remaining /\ t.live = core.live /\ t.pending = core.pending
        /\ t.done = core.done /\ t.stood_down = core.stood_down /\ t.booked = core.booked
        /\ t.cancel_ctx = core.cancel_ctx /\ t.cross = core.cross /\ t.coid_seq = core.coid_seq
        /\ Len(t.batches) = Len(core.batches)
        /\ \A i \in 1..Len(core.batches) : t.batches[i].n = core.batches[i].n
    BY <1>3, <2>2, <2>3, WingsSettle
  <2>5. t.out \in Seq(Take)
    <3>1. t.out = <<>> /\ <<>> \in Seq(Take)
      BY <1>3, <2>4
    <3> QED
      BY <3>1
  <2> QED
    BY <1>2, <1>3, <1>5, <2>1, <2>4, <2>5 DEF PumpSettles
<1>7. CASE e.kind # "wings"
  <2>1. Reports = {e} /\ Reports' = {}
    BY <1>2, <1>3, <1>7, ReportHeard DEF Reports
  <2>2. e \in Reports
    BY <2>1
  <2>3. (e \in OrderEvent /\ e.kind \in {"ack", "amended", "cancelled", "fill"}) \/ e \in LateEvent
    BY <1>4, <1>7 DEF AnyEvent, OrderEvent, WingEvent
  <2>4. Settles(e, t) /\ LotSettles(e, t) /\ (e.kind = "late" /\ core.batches # <<>> => t = core)
    <3>1. e \in OrderEvent => e.kind # "late"
      BY DEF OrderEvent
    <3> QED
      BY <2>2, <2>3, <3>1, AckSettles, CancelledSettles, AmendedSettles, FillSettles, LateSettles
  <2>5. t \in State /\ t.out \in Seq(Take)
    BY <2>4 DEF Settles
  <2> QED
    BY <1>2, <1>3, <1>5, <2>1, <2>3, <2>4, <2>5 DEF PumpSettles
<1> QED
  BY <1>6, <1>7

-----------------------------------------------------------------------------
(* The slot is what RestSlot promises *)

Over == core.done \/ core.stood_down \/ core.phase \in {"past", "cutoff"}
Resting == Open \cap Own

\* A later phase of the window does not lead back before the quote end.
LEMMA PhaseEnds ==
  ASSUME NEW p \in {"past", "cutoff"}, NEW r, Later(p, r)
  PROVE  r \in {"past", "cutoff"}
<1>1. PICK i \in 1..4, j \in 1..4 : Phases[i] = p /\ Phases[j] = r /\ i <= j
  BY DEF Later
<1>2. i \in {3, 4}
  <2>1. i = 1 => Phases[i] = "warmup"
    BY DEF Phases
  <2>2. i = 2 => Phases[i] = "window"
    BY DEF Phases
  <2> QED
    BY <1>1, <2>1, <2>2
<1>3. j \in {3, 4}
  BY <1>1, <1>2
<1>4. Phases[3] = "past" /\ Phases[4] = "cutoff"
  BY DEF Phases
<1> QED
  BY <1>1, <1>3, <1>4

\* An executed action does not take back the end of the quoting (_apply_executor_standdown).
LEMMA ExecutedEnds ==
  ASSUME IInv, NEW events, NEW x, Executed(events, x), Over
  PROVE  Over'
<1>1. core \in State
  BY DEF IInv, RestTypeOK
<1>2. core' = core \/ core' = [core EXCEPT !.stood_down = TRUE]
  BY DEF Executed, _apply_executor_standdown
<1>3. core'.done = core.done /\ core'.phase = core.phase /\ (core.stood_down => core'.stood_down)
  BY <1>1, <1>2 DEF State
<1> QED
  BY <1>3 DEF Over

\* The end of the quoting is final: the allotment, the stand-down and the clock do not go back.
LEMMA OverKept ==
  ASSUME IInv, Next, Over
  PROVE  Over'
<1>1. CASE _pump
  <2>1. PICK t \in State : PumpSettles(t)
    BY <1>1, PumpDoes
  <2>2. (core.done => t.done) /\ t.phase = core.phase /\ t.stood_down = core.stood_down
    BY <2>1 DEF PumpSettles, Settles
  <2>3. core'.done = t.done /\ core'.phase = t.phase /\ (t.stood_down => core'.stood_down)
    BY <2>1 DEF PumpSettles, Like
  <2> QED
    BY <2>2, <2>3 DEF Over
<1>2. CASE OnTick
  <2>1. PICK s, t : TickTakes(s, t)
    BY <1>2, TickDecides
  <2>2. /\ s.done = core.done /\ s.stood_down = core.stood_down /\ t.done = s.done
        /\ (s.stood_down => t.stood_down) /\ Later(core.phase, t.phase)
        /\ core'.done = t.done /\ core'.phase = t.phase /\ core'.stood_down = t.stood_down
    BY <2>1 DEF TickTakes, TickedFrom, Asks, Alike, Like
  <2>3. core.phase \in {"past", "cutoff"} => core'.phase \in {"past", "cutoff"}
    BY <2>2, PhaseEnds
  <2> QED
    BY <2>2, <2>3 DEF Over
<1>3. CASE PlaceAccepted \/ _reject_place \/ PlaceUnknown \/ PlaceStray \/ PlaceFilledStray
  BY <1>3, ExecutedEnds
     DEF PlaceAccepted, _reject_place, PlaceUnknown, PlaceStray, PlaceFilledStray, RefusePlace
<1>4. CASE _cancel_rest \/ _amend_fallback
  <2>1. ASSUME CancelConfirmed(Target) \/ CancelFailed(Target) \/ RefusePlace(exec)
        PROVE  \E ev, x : Executed(ev, x)
    BY <2>1 DEF CancelConfirmed, CancelFailed, RefusePlace, _resolve_cancel_from_status,
       _confirm_cancel_filled, _finish_cancel
  <2> QED
    BY <1>4, <2>1, ExecutedEnds DEF _cancel_rest, _amend_fallback
<1>5. CASE _amend_rest \/ _take_wings \/ FrozenExecutor
  BY <1>5, ExecutedEnds DEF _amend_rest, _take_wings, FrozenExecutor
<1>6. CASE on_fill \/ _order_status_poll \/ cancel_stale_open_orders \/ VenueFill \/ VenueExpire
           \/ NoticeLost
  <2>1. core' = core
    BY <1>6 DEF on_fill, _order_status_poll, cancel_stale_open_orders, VenueFill, VenueExpire,
       NoticeLost
  <2> QED
    BY <2>1 DEF Over
<1> QED
  BY <1>1, <1>2, <1>3, <1>4, <1>5, <1>6 DEF Next

\* what rests leaves the book, or stays
Ebbs == Resting' = Resting \/ (Resting # {} /\ Resting' = {})

\* Of one rest, a part is all or nothing.
LEMMA RestEbbs ==
  ASSUME IInv, mode = "armed", Resting' \subseteq Resting
  PROVE  Ebbs
<1>1. \A o, p \in Resting : o = p
  BY DEF IInv, SlotInv, Resting
<1> QED
  BY <1>1 DEF Ebbs

\* When orders keep their owner and none opens, what rests can only leave.
LEMMA BookEbbs ==
  ASSUME IInv, mode = "armed", DOMAIN venue' = DOMAIN venue,
         \A o \in DOMAIN venue : venue'[o].coid = venue[o].coid /\ (venue'[o].open => venue[o].open)
  PROVE  Ebbs
<1>1. Resting' \subseteq Resting
  BY DEF Resting, Open, Own
<1> QED
  BY <1>1, RestEbbs

\* A dry window has no order on the book.
LEMMA DryEbbs ==
  ASSUME IInv, IInv', mode = "dry", mode' = mode
  PROVE  Ebbs
<1>1. venue = <<>> /\ venue' = <<>>
  BY DEF IInv, SlotInv
<1>2. Resting' = Resting
  BY <1>1 DEF Resting, Open, Own
<1> QED
  BY <1>2 DEF Ebbs

\* A create comes to an empty book, while the quoting lasts (PlaceAccepted, PlaceUnknown).
LEMMA CreateFits ==
  ASSUME IInv, Todo("place")
  PROVE  Resting = {} /\ ~Over /\ mode = "armed"
<1>1. Placing(Head(acts)) /\ mode = "armed" /\ \A o \in DOMAIN venue : ~Loose(o)
  BY PlaceAlone
<1>2. Resting = {}
  BY <1>1 DEF Resting, Open, Own, Loose
<1>3. ~core.done
  <2>1. acts # <<>> /\ Head(acts).kind # "take" /\ acts \in Seq(Action) /\ AskedLast(acts)
    BY DEF Todo, IInv, RestTypeOK, HoldInv, OneRequest
  <2>2. Requests # {}
    BY <2>1, RequestDone DEF Requests
  <2> QED
    BY <2>2 DEF IInv, HoldInv, Latched
<1>4. ~Over
  BY <1>1, <1>3 DEF Placing, Over
<1> QED
  BY <1>1, <1>2, <1>4

\* a rest appears on a book without one, while the quoting lasts
Appears == Resting = {} /\ ~Over /\ \E o \in Oids : Resting' = {o}

\* A created order is the one that rests.
LEMMA CreateAppears ==
  ASSUME IInv, Todo("place"), Len(venue) < MaxOrders,
         NEW r, r.coid = Head(acts).coid, r \in VenueOrder, r.open, venue' = Append(venue, r)
  PROVE  Appears
<1>1. Resting = {} /\ ~Over /\ RestTypeOK
  BY CreateFits DEF IInv
<1>2. Head(acts).coid # None
  BY PlaceAlone DEF Placing
<1> PICK o : o = Len(venue) + 1
  OBVIOUS
<1>3. /\ DOMAIN venue' = DOMAIN venue \cup {o} /\ o \notin DOMAIN venue /\ venue'[o] = r
      /\ \A p \in DOMAIN venue : venue'[p] = venue[p]
      /\ o \in Oids
  BY <1>1, OrderAdded
<1>4. \A p : p \in Resting' <=> p \in Resting \/ p = o
  BY <1>2, <1>3 DEF Resting, Open, Own
<1>5. Resting' = {o}
  BY <1>1, <1>4
<1> QED
  BY <1>1, <1>3, <1>5 DEF Appears

\* Every step lets a rest appear on an empty book while the quoting lasts, or the rest leave.
LEMMA SlotSteps ==
  ASSUME IInv, Next, IInv'
  PROVE  Ebbs \/ Appears
<1>1. RestTypeOK /\ SlotInv /\ mode \in {"armed", "dry"}
  BY DEF IInv, RestTypeOK
<1>2. ASSUME venue' = venue
      PROVE  Ebbs
  <2>1. Resting' = Resting
    BY <1>2 DEF Resting, Open, Own
  <2> QED
    BY <2>1 DEF Ebbs
<1>3. CASE _pump \/ OnTick \/ on_fill \/ _order_status_poll \/ _reject_place \/ PlaceFilledStray
           \/ _take_wings \/ FrozenExecutor \/ NoticeLost
  <2>1. venue' = venue
    BY <1>3 DEF _pump, OnTick, on_fill, _order_status_poll, _reject_place, PlaceFilledStray,
       _take_wings, FrozenExecutor, NoticeLost
  <2> QED
    BY <1>2, <2>1
<1>4. CASE PlaceAccepted
  <2> DEFINE r == [coid |-> Head(acts).coid, rem |-> Head(acts).count, filled |-> 0, open |-> TRUE]
  <2>1. Todo("place") /\ Len(venue) < MaxOrders /\ venue' = Append(venue, r)
    BY <1>4 DEF PlaceAccepted
  <2>2. Head(acts) \in Action
    BY <2>1, PlaceAlone
  <2>3. r \in VenueOrder /\ r.coid = Head(acts).coid /\ r.open
    BY <2>2 DEF Action, VenueOrder
  <2> HIDE DEF r
  <2> QED
    BY <2>1, <2>3, CreateAppears
<1>5. CASE PlaceUnknown
  <2> DEFINE r == [coid |-> Head(acts).coid, rem |-> Head(acts).count, filled |-> 0, open |-> TRUE]
  <2>1. Todo("place") /\ Len(venue) < MaxOrders /\ (venue' = venue \/ venue' = Append(venue, r))
    BY <1>5 DEF PlaceUnknown
  <2>2. Head(acts) \in Action
    BY <2>1, PlaceAlone
  <2>3. r \in VenueOrder /\ r.coid = Head(acts).coid /\ r.open
    BY <2>2 DEF Action, VenueOrder
  <2> HIDE DEF r
  <2> QED
    BY <1>2, <2>1, <2>3, CreateAppears
<1>6. CASE PlaceStray
  <2>1. Todo("place") /\ (venue' = venue \/ venue' = [o \in DOMAIN venue |-> [venue[o] EXCEPT !.open = @ /\ o \notin Listed({})]])
    BY <1>6 DEF PlaceStray
  <2>2. mode = "armed"
    BY <2>1, CreateFits
  <2>3. ASSUME venue' = [o \in DOMAIN venue |-> [venue[o] EXCEPT !.open = @ /\ o \notin Listed({})]]
        PROVE  /\ DOMAIN venue' = DOMAIN venue
               /\ \A o \in DOMAIN venue : venue'[o].coid = venue[o].coid /\ (venue'[o].open => venue[o].open)
    <3>1. \A o \in DOMAIN venue : venue[o] \in VenueOrder
      BY <1>1 DEF RestTypeOK
    <3> QED
      BY <2>3, <3>1 DEF VenueOrder
  <2> QED
    BY <1>2, <2>1, <2>2, <2>3, BookEbbs
<1>7. CASE cancel_stale_open_orders
  <2>1. venue' = venue \/ venue' = [o \in DOMAIN venue |-> [venue[o] EXCEPT !.open = FALSE]]
    BY <1>7 DEF cancel_stale_open_orders
  <2>2. mode' = mode
    BY <1>7 DEF cancel_stale_open_orders
  <2>3. ASSUME venue' = [o \in DOMAIN venue |-> [venue[o] EXCEPT !.open = FALSE]]
        PROVE  /\ DOMAIN venue' = DOMAIN venue
               /\ \A o \in DOMAIN venue : venue'[o].coid = venue[o].coid /\ (venue'[o].open => venue[o].open)
    <3>1. \A o \in DOMAIN venue : venue[o] \in VenueOrder
      BY <1>1 DEF RestTypeOK
    <3> QED
      BY <2>3, <3>1 DEF VenueOrder
  <2> QED
    BY <1>1, <1>2, <2>1, <2>2, <2>3, BookEbbs, DryEbbs
<1>8. CASE _cancel_rest \/ _amend_fallback
  <2>1. acts # <<>> /\ Head(acts).kind \in {"cancel", "amend"} /\ mode = "armed"
    BY <1>8 DEF _cancel_rest, _amend_fallback, Todo
  <2> PICK o : o = Head(acts).oid
    OBVIOUS
  <2>2. o \in DOMAIN venue /\ exec.by_oid[o] # None /\ Target = o /\ Target # None
    BY <1>1, <2>1, CancelTarget, VenueIds, Identifiers
  <2>3. CancelEnds(o)
    BY <1>8, <2>2 DEF _cancel_rest, _amend_fallback, CancelEnds
  <2>4. PICK e, x : Cancelled(o, e, x)
    BY <1>1, <2>2, <2>3, CancelOutcome
  <2>5. CASE venue' = venue
    BY <1>2, <2>5
  <2>6. CASE venue' = [venue EXCEPT ![o].open = FALSE]
    <3>1. venue[o] \in VenueOrder /\ venue \in Seq(VenueOrder)
      BY <1>1, <2>2 DEF RestTypeOK
    <3>2. /\ DOMAIN venue' = DOMAIN venue
          /\ \A p \in DOMAIN venue : p # o => venue'[p] = venue[p]
          /\ venue'[o].coid = venue[o].coid /\ ~venue'[o].open
      BY <2>2, <2>6, <3>1 DEF VenueOrder
    <3> QED
      BY <2>1, <3>2, BookEbbs
  <2> QED
    BY <2>4, <2>5, <2>6 DEF Cancelled
<1>9. CASE _amend_rest
  <2> PICK o : o = Head(acts).oid
    OBVIOUS
  <2>1. acts # <<>> /\ Head(acts).kind = "amend" /\ Head(acts).kind \in {"cancel", "amend"}
        /\ mode = "armed" /\ venue[o].open
        /\ \E r : venue' = [venue EXCEPT ![o] = r]
    BY <1>9 DEF _amend_rest, Todo
  <2>2. o \in DOMAIN venue /\ exec.by_oid[o] # None
    BY <2>1, CancelTarget, Identifiers
  <2>3. o \in Resting
    BY <1>1, <2>1, <2>2 DEF Resting, Open, SlotInv, Booked
  <2>4. DOMAIN venue' = DOMAIN venue /\ \A p \in DOMAIN venue : p # o => venue'[p] = venue[p]
    BY <2>1, <2>2
  <2>5. Resting' \subseteq Resting
    BY <2>3, <2>4 DEF Resting, Open, Own
  <2> QED
    BY <2>1, <2>5, RestEbbs
<1>10. CASE VenueFill \/ VenueExpire
  <2>1. PICK o \in Open : \E r : venue' = [venue EXCEPT ![o] = r] /\ r.coid = venue[o].coid
    <3>1. CASE VenueFill
      <4>1. PICK o \in Open : \E n \in 1..venue[o].rem : venue' = [venue EXCEPT ![o] =
              [venue[o] EXCEPT !.rem = @ - n, !.filled = @ + n, !.open = venue[o].rem > n]]
        BY <3>1 DEF VenueFill
      <4>2. PICK n \in 1..venue[o].rem : venue' = [venue EXCEPT ![o] =
              [venue[o] EXCEPT !.rem = @ - n, !.filled = @ + n, !.open = venue[o].rem > n]]
        BY <4>1
      <4>3. venue[o] \in VenueOrder
        BY <1>1 DEF RestTypeOK, Open
      <4>4. [venue[o] EXCEPT !.rem = @ - n, !.filled = @ + n, !.open = venue[o].rem > n].coid = venue[o].coid
        BY <4>3 DEF VenueOrder
      <4> QED
        BY <4>2, <4>4
    <3>2. CASE VenueExpire
      <4>1. PICK o \in Open : venue' = [venue EXCEPT ![o].open = FALSE]
        BY <3>2 DEF VenueExpire
      <4>2. venue[o] \in VenueOrder /\ venue \in Seq(VenueOrder) /\ o \in DOMAIN venue
        BY <1>1 DEF RestTypeOK, Open
      <4>3. venue' = [venue EXCEPT ![o] = [venue[o] EXCEPT !.open = FALSE]]
            /\ [venue[o] EXCEPT !.open = FALSE].coid = venue[o].coid
        BY <4>1, <4>2 DEF VenueOrder
      <4> QED
        BY <4>3
    <3> QED
      BY <1>10, <3>1, <3>2
  <2>2. /\ DOMAIN venue' = DOMAIN venue /\ o \in DOMAIN venue /\ venue[o].open
        /\ \A p \in DOMAIN venue : p # o => venue'[p] = venue[p]
        /\ venue'[o].coid = venue[o].coid
    BY <2>1 DEF Open
  <2>3. mode = "armed"
    BY <1>1, <2>2 DEF SlotInv
  <2> QED
    BY <2>2, <2>3, BookEbbs
<1> QED
  BY <1>3, <1>4, <1>5, <1>6, <1>7, <1>8, <1>9, <1>10 DEF Next

\* R-OVERLAP (core.py, _requote; executor.py, the list before a create): the rests of the process,
\* and the end of the quoting, behave as RestSlot says.
THEOREM RefinesSlotTheorem == Spec => RefinesSlot
<1>1. Init => Slot!Init
  <2> SUFFICES ASSUME Init PROVE Slot!Init
    OBVIOUS
  <2>1. PICK m \in Allotments : core = NewState(m)
    BY DEF Init
  <2>2. ~core.done /\ ~core.stood_down /\ core.phase = "warmup"
    BY <2>1 DEF NewState
  <2>3. venue = <<>> \/ venue = <<Stray>>
    BY DEF Init
  <2>4. Own = {}
    BY <2>3 DEF Own, Stray
  <2> QED
    BY <2>2, <2>4 DEF Slot!Init
<1>2. IInv /\ [Next]_vars /\ IInv' => [Slot!Next]_<<Resting, Over>>
  <2> SUFFICES ASSUME IInv, [Next]_vars, IInv' PROVE [Slot!Next]_<<Resting, Over>>
    OBVIOUS
  <2>1. CASE UNCHANGED vars
    BY <2>1 DEF vars, Resting, Open, Own, Over
  <2>2. CASE Next
    <3>1. Over => Over'
      BY <2>2, OverKept
    <3>2. Ebbs \/ Appears
      BY <2>2, SlotSteps
    <3>3. Slot!Next
      BY <3>1, <3>2 DEF Slot!Next, Slot!EndsOnly, Slot!Place, Slot!Leave, Ebbs, Appears, Resting, Over
    <3> QED
      BY <3>3
  <2> QED
    BY <2>1, <2>2
<1>3. IInv /\ [Next]_vars => [Slot!Next]_<<Resting, Over>>
  BY <1>2, NextInv
<1> QED
  BY <1>1, <1>3, RestInvTheorem, PTL DEF Spec, RefinesSlot, Slot!Spec, Resting, Over

-----------------------------------------------------------------------------
(* One lot: what the proofs of the steps share *)

\* The allotment is that of the window.
LEMMA ContractsKept ==
  ASSUME IInv, Next
  PROVE  core'.contracts = core.contracts
<1>1. core \in State
  BY DEF IInv, RestTypeOK
<1>2. ASSUME NEW events, NEW x, Executed(events, x)
      PROVE  core'.contracts = core.contracts
  <2>1. core' = core \/ core' = [core EXCEPT !.stood_down = TRUE]
    BY <1>2 DEF Executed, _apply_executor_standdown
  <2> QED
    BY <1>1, <2>1 DEF State
<1>3. CASE _pump
  BY <1>3, PumpDoes DEF PumpSettles, Settles, Like
<1>4. CASE OnTick
  BY <1>4, TickDecides DEF TickTakes, TickedFrom, Asks, Alike, Like
<1>5. CASE PlaceAccepted \/ _reject_place \/ PlaceUnknown \/ PlaceStray \/ PlaceFilledStray
  BY <1>2, <1>5
     DEF PlaceAccepted, _reject_place, PlaceUnknown, PlaceStray, PlaceFilledStray, RefusePlace
<1>6. CASE _cancel_rest \/ _amend_fallback
  <2>1. ASSUME CancelConfirmed(Target) \/ CancelFailed(Target) \/ RefusePlace(exec)
        PROVE  \E ev, x : Executed(ev, x)
    BY <2>1 DEF CancelConfirmed, CancelFailed, RefusePlace, _resolve_cancel_from_status,
       _confirm_cancel_filled, _finish_cancel
  <2> QED
    BY <1>2, <1>6, <2>1 DEF _cancel_rest, _amend_fallback
<1>7. CASE _amend_rest \/ _take_wings \/ FrozenExecutor
  BY <1>2, <1>7 DEF _amend_rest, _take_wings, FrozenExecutor
<1>8. CASE on_fill \/ _order_status_poll \/ cancel_stale_open_orders \/ VenueFill \/ VenueExpire
           \/ NoticeLost
  BY <1>8 DEF on_fill, _order_status_poll, cancel_stale_open_orders, VenueFill, VenueExpire, NoticeLost
<1> QED
  BY <1>3, <1>4, <1>5, <1>6, <1>7, <1>8 DEF Next

\* the orders keep their owners and their lots, and none opens
SameLots ==
  /\ DOMAIN venue' = DOMAIN venue
  /\ \A o \in DOMAIN venue :
       /\ venue'[o].coid = venue[o].coid /\ venue'[o].filled = venue[o].filled
       /\ venue'[o].rem = venue[o].rem /\ (venue'[o].open => venue[o].open)

\* the rest book keeps its counts
SameCounts == \A c \in Coids : exec'.book[c].count = exec.book[c].count

\* Then a lot stays one lot, and where it was filled.
LEMMA LotsStay ==
  ASSUME SameLots
  PROVE  /\ Own' = Own /\ Filled' = Filled
         /\ \A o \in DOMAIN venue : Hot(o)' => Hot(o)
<1>1. Own' = Own
  BY DEF SameLots, Own
<1>2. Own \subseteq DOMAIN venue
  BY DEF Own
<1> QED
  BY <1>1, <1>2 DEF SameLots, Filled, Hot

LEMMA OneLotStays ==
  ASSUME OneLot, SameLots, Requests' \subseteq Requests, notices' \subseteq notices,
         \A c \in Coids : exec'.book[c].count <= 1
  PROVE  OneLot'
<1>1. Own' = Own /\ Own \subseteq DOMAIN venue /\ \A o \in DOMAIN venue : Hot(o)' => Hot(o)
  BY LotsStay DEF Own
<1>2. \A o \in Own' : venue'[o].filled + venue'[o].rem = 1 /\ (venue'[o].open => venue'[o].filled = 0)
  BY <1>1 DEF OneLot, SameLots
<1>3. \A o, p \in DOMAIN venue' : Hot(o)' /\ Hot(p)' => o = p
  BY <1>1 DEF OneLot, SameLots
<1>4. \A a \in Requests' : a.kind = "place" => \A o \in DOMAIN venue' : ~Hot(o)'
  BY <1>1 DEF OneLot, SameLots
<1>5. \A m \in notices' : m.n = 1 /\ m.oid \in Own' /\ venue'[m.oid].filled = 1
  BY <1>1 DEF OneLot, SameLots
<1>6. \A a \in Requests' : a.kind \in {"place", "amend"} => a.count = 1
  BY DEF OneLot
<1> QED
  BY <1>2, <1>3, <1>4, <1>5, <1>6 DEF OneLot

\* An executed action leaves what is booked alone.
LEMMA CoreBookedStays ==
  ASSUME CoreBooked, Like(core, core'), Filled => Filled'
  PROVE  CoreBooked'
BY DEF CoreBooked, Like, Unbooked, OneBooked

\* A report that is still under way keeps its sense.
LEMMA ReportStays ==
  ASSUME NEW e, ReportLot(e), SameLots, exec.down => exec'.down, exec'.down \in BOOLEAN
  PROVE  ReportLot(e)'
<1>1. Own' = Own /\ Filled' = Filled /\ Own \subseteq DOMAIN venue
  BY LotsStay DEF Own
<1> QED
  BY <1>1 DEF ReportLot, SameLots

\* What leaves core, queue, actions and rest book alone keeps the lots.
LEMMA LotsKept ==
  ASSUME IInv, IInv', LotInv, UNCHANGED <<mode, core, queue, acts>>, SameLots, SameCounts,
         exec.down => exec'.down, notices' \subseteq notices
  PROVE  LotInv'
<1>1. Requests' = Requests /\ Reports' = Reports /\ exec'.down \in BOOLEAN
  BY DEF Requests, Reports, IInv, RestTypeOK, Executor
<1>2. CASE core.contracts # 1
  BY <1>2 DEF LotInv
<1>3. CASE core.contracts = 1 /\ mode = "dry"
  BY <1>1, <1>3 DEF LotInv, DryLots, Unbooked
<1>4. CASE core.contracts = 1 /\ mode # "dry"
  <2>1. Lots
    BY <1>4 DEF LotInv
  <2>2. Own' = Own /\ Filled' = Filled /\ Own \subseteq DOMAIN venue
    BY LotsStay DEF Own
  <2>3. OneLot'
    BY <1>1, <2>1, OneLotStays DEF Lots, OneLot, SameCounts
  <2>4. CoreBooked'
    BY <2>1, <2>2 DEF Lots, CoreBooked, Unbooked, OneBooked
  <2>5. \A e \in Reports' : ReportLot(e)'
    BY <1>1, <2>1, ReportStays DEF Lots
  <2>6. \A o \in Own' : venue'[o].filled = 1 => Asked(o)'
    BY <1>1, <2>1, <2>2 DEF Lots, Asked, SameLots
  <2>7. \A a \in Requests' : a.kind = "cancel" => core'.cancel_ctx[a.oid] # None
    BY <1>1, <2>1 DEF Lots
  <2> QED
    BY <1>4, <2>3, <2>4, <2>5, <2>6, <2>7 DEF LotInv, Lots
<1> QED
  BY <1>2, <1>3, <1>4

-----------------------------------------------------------------------------
(* One lot: the decisions *)

\* Deciding an event books the lot once (_pump).
LEMMA PumpLots == IInv /\ IInv' /\ LotInv /\ _pump => LotInv'
<1> SUFFICES ASSUME IInv, IInv', LotInv, _pump, core'.contracts = 1 PROVE LotInv'
  BY DEF LotInv
<1>1. PICK t \in State : PumpSettles(t)
  BY PumpDoes
<1>2. /\ Like(t, core') /\ Requests = {} /\ Requests' = {} /\ UNCHANGED <<mode, exec, venue, notices>>
      /\ core.contracts = 1
  BY <1>1, ContractsKept DEF PumpSettles, Next
<1>3. core'.done = t.done /\ core'.live = t.live /\ core'.cancel_ctx = t.cancel_ctx
      /\ (Unbooked(core') <=> Unbooked(t)) /\ (OneBooked(core') <=> OneBooked(t))
  BY <1>2 DEF Like, Unbooked, OneBooked
<1>4. SameLots /\ Own' = Own /\ Filled' = Filled
  <2>1. RestTypeOK
    BY DEF IInv
  <2>2. SameLots
    BY <1>2 DEF SameLots
  <2> QED
    BY <2>2, LotsStay
<1>5. ASSUME NEW e, Reports = {e}, Reports' = {}, Settles(e, t), LotSettles(e, t),
             e \in OrderEvent \/ e \in LateEvent, e.kind = "late" /\ core.batches # <<>> => t = core
      PROVE  LotInv'
  <2>1. CASE mode = "dry"
    <3>1. Unbooked(core) /\ e.kind # "late" /\ e.n = 0
      BY <1>2, <1>5, <2>1 DEF LotInv, DryLots
    <3>2. Unbooked(t)
      BY <1>5, <3>1 DEF LotSettles
    <3> QED
      BY <1>2, <1>3, <1>5, <2>1, <3>2 DEF LotInv, DryLots
  <2>2. CASE mode # "dry"
    <3>1. Lots /\ ReportLot(e)
      BY <1>2, <1>5, <2>2 DEF LotInv, Lots
    <3>2. CASE Unbooked(core)
      <4>1. /\ Unbooked(t) \/ (e.n = 1 /\ OneBooked(t))
            /\ e.kind = "cancelled" /\ e.n = 1 /\ e.oid # None
                 /\ (e.oid = core.live.oid \/ core.cancel_ctx[e.oid] # None) => OneBooked(t)
        BY <1>5, <3>1, <3>2 DEF LotSettles, ReportLot
      <4>2. CoreBooked'
        BY <1>3, <1>4, <3>1, <4>1 DEF CoreBooked, ReportLot
      <4>3. ASSUME NEW o \in Own, venue[o].filled = 1 PROVE Asked(o)'
        <5>1. Asked(o) /\ o # None /\ ~core.done
          <6>1. o \in DOMAIN venue /\ RestTypeOK
            BY DEF Own, IInv
          <6> QED
            BY <3>1, <3>2, <4>3, <6>1, VenueIds DEF Lots, Unbooked
        <5>2. CASE exec.down
          BY <1>2, <5>2 DEF Asked
        <5>3. CASE OneBooked(t)
          BY <1>3, <5>3 DEF Asked, OneBooked
        <5>4. CASE o = core.live.oid /\ ~exec.down /\ ~OneBooked(t)
          <6>1. ~t.done
            BY <4>1, <5>4 DEF Unbooked
          <6>2. core.live # NoOrder
            BY <5>1, <5>4, NoOrderType
          <6>3. t.live.oid = o \/ (e.kind = "cancelled" /\ e.oid = o)
            BY <1>5, <5>4, <6>1, <6>2 DEF Settles
          <6>4. ~(e.kind = "cancelled" /\ e.oid = o)
            <7>1. e.kind = "cancelled" /\ e.oid = o => e.n = 1
              BY <3>1, <4>3, <5>1, <5>4 DEF ReportLot
            <7> QED
              BY <4>1, <5>1, <5>4, <7>1
          <6> QED
            BY <1>3, <6>3, <6>4 DEF Asked
        <5>5. CASE e.kind = "ack" /\ e.oid = o
          BY <1>3, <1>5, <5>5 DEF Asked, Settles
        <5>6. CASE e.kind = "cancelled" /\ e.oid = o /\ e.n = 1 /\ core.cancel_ctx[o] # None
          <6>1. OneBooked(t)
            BY <4>1, <5>1, <5>6
          <6> QED
            BY <5>3, <6>1
        <5> QED
          BY <1>2, <1>5, <5>1, <5>2, <5>3, <5>4, <5>5, <5>6 DEF Asked
      <4>4. OneLot'
        BY <1>2, <1>4, <3>1, OneLotStays DEF Lots, OneLot
      <4> QED
        BY <1>2, <1>4, <1>5, <2>2, <4>2, <4>3, <4>4 DEF LotInv, Lots
    <3>3. CASE OneBooked(core) /\ Filled
      <4>1. core.done /\ e.kind = "late"
        BY <1>5, <3>3 DEF OneBooked, IInv, HoldInv, Latched
      <4>2. core.batches # <<>>
        BY <3>3 DEF OneBooked
      <4>3. t = core
        BY <1>5, <4>1, <4>2
      <4>4. CoreBooked' /\ core'.done
        BY <1>3, <1>4, <3>3, <4>1, <4>3 DEF CoreBooked
      <4>5. OneLot'
        BY <1>2, <1>4, <3>1, OneLotStays DEF Lots, OneLot
      <4> QED
        BY <1>2, <1>5, <2>2, <4>4, <4>5 DEF LotInv, Lots, Asked
    <3> QED
      BY <3>1, <3>2, <3>3 DEF Lots, CoreBooked
  <2> QED
    BY <2>1, <2>2
<1>6. ASSUME Reports' = Reports, t.contracts = core.contracts,
             t.remaining = core.remaining, t.live = core.live,
             t.done = core.done, t.booked = core.booked,
             t.cancel_ctx = core.cancel_ctx, t.cross = core.cross,
             Len(t.batches) = Len(core.batches),
             \A i \in 1..Len(core.batches) : t.batches[i].n = core.batches[i].n
      PROVE  LotInv'
  <2>1. t.batches \in Seq(Batch) /\ core.batches \in Seq(Batch)
    BY DEF State, IInv, RestTypeOK
  <2>2. Unbooked(core) => Unbooked(t)
    <3>1. core.batches = <<>> => t.batches = <<>>
      BY <1>6, <2>1, EmptySeq
    <3> QED
      BY <1>6, <3>1 DEF Unbooked
  <2>3. OneBooked(core) => OneBooked(t)
    BY <1>6 DEF OneBooked
  <2>4. CASE mode = "dry"
    BY <1>2, <1>3, <1>6, <2>2, <2>4 DEF LotInv, DryLots
  <2>5. CASE mode # "dry"
    <3>1. Lots
      BY <1>2, <2>5 DEF LotInv
    <3>2. CoreBooked'
      BY <1>3, <1>4, <2>2, <2>3, <3>1 DEF Lots, CoreBooked
    <3>3. OneLot'
      BY <1>2, <1>4, <3>1, OneLotStays DEF Lots, OneLot
    <3>4. \A e \in Reports' : ReportLot(e)'
      BY <1>2, <1>4, <1>6, <3>1 DEF Lots, ReportLot
    <3>5. \A o \in Own' : venue'[o].filled = 1 => Asked(o)'
      BY <1>2, <1>3, <1>4, <1>6, <3>1 DEF Lots, Asked
    <3> QED
      BY <1>2, <2>5, <3>2, <3>3, <3>4, <3>5 DEF LotInv, Lots
  <2> QED
    BY <2>4, <2>5
<1> QED
  BY <1>1, <1>5, <1>6 DEF PumpSettles

\* A tick asks for one lot at most, and only when none was filled (OnTick).
LEMMA TickLots == IInv /\ IInv' /\ LotInv /\ OnTick => LotInv'
<1> SUFFICES ASSUME IInv, IInv', LotInv, OnTick, core'.contracts = 1 PROVE LotInv'
  BY DEF LotInv
<1>1. Quiet /\ UNCHANGED <<mode, exec, venue, notices, queue>> /\ core.contracts = 1
  BY ContractsKept DEF OnTick, Next
<1>2. Requests = {} /\ Reports = {} /\ Reports' = {}
  BY <1>1, AtQuiet DEF Reports
<1>3. PICK s, t : TickTakes(s, t)
  BY TickDecides
<1>4. /\ s.remaining = core.remaining /\ s.live = core.live /\ s.done = core.done
      /\ s.booked = core.booked /\ s.cross = core.cross
      /\ Len(s.batches) = Len(core.batches)
      /\ \A i \in 1..Len(core.batches) : s.batches[i].n = core.batches[i].n
      /\ s \in State
  BY <1>3 DEF TickTakes, TickedFrom, Settled
<1>5. /\ t \in State /\ t.remaining = s.remaining /\ t.done = s.done /\ t.booked = s.booked
      /\ t.cross = s.cross /\ t.batches = s.batches
      /\ core'.remaining = t.remaining /\ core'.done = t.done /\ core'.booked = t.booked
      /\ core'.cross = t.cross /\ core'.batches = t.batches
      /\ core'.live = t.live /\ core'.cancel_ctx = t.cancel_ctx
  BY <1>3 DEF TickTakes, Asks, Alike, Like
<1>6. (Unbooked(core) => Unbooked(core')) /\ (OneBooked(core) => OneBooked(core'))
  <2>1. s.batches \in Seq(Batch) /\ core.batches \in Seq(Batch)
    BY <1>4 DEF State, IInv, RestTypeOK
  <2>2. core.batches = <<>> => s.batches = <<>>
    BY <1>4, <2>1, EmptySeq
  <2> QED
    BY <1>4, <1>5, <2>2 DEF Unbooked, OneBooked
<1>7. CASE mode = "dry"
  BY <1>1, <1>2, <1>6, <1>7 DEF LotInv, DryLots
<1>8. CASE mode # "dry"
  <2>1. Lots
    BY <1>1, <1>8 DEF LotInv
  <2>2. SameLots /\ Own' = Own /\ Filled' = Filled
    <3>1. SameLots
      BY <1>1 DEF SameLots
    <3> QED
      BY <3>1, LotsStay
  <2>3. CoreBooked'
    BY <1>6, <2>1, <2>2 DEF Lots, CoreBooked
  <2>4. \A o \in Own : venue[o].filled = 1 => core.done \/ exec.down \/ o = core.live.oid
    BY <1>2, <2>1 DEF Lots, Asked
  <2>5. \A o \in DOMAIN venue' : Hot(o)' <=> Hot(o)
    BY <1>1 DEF Hot, Own
  <2>6. /\ \/ LeavesAlone(s, t) /\ Requests' = {}
           \/ /\ AsksCancel(s, t)
              /\ Requests' = {Act("cancel", s.live, 0, None)}
           \/ /\ AsksPlace(s, t)
              /\ Requests' = {Act("place", t.pending, s.remaining, None)}
           \/ /\ AsksAmend(s, t)
              /\ Requests' = {Act("amend", s.live, s.remaining, s.coid_seq + 1)}
    BY <1>3, TickAsks DEF TickTakes
  <2>7. ASSUME \A a \in Requests' : a.kind = "place" => \A o \in DOMAIN venue' : ~Hot(o)',
               \A a \in Requests' : a.kind \in {"place", "amend"} => a.count = 1,
               \A a \in Requests' : a.kind = "cancel" => core'.cancel_ctx[a.oid] # None,
               \/ core'.live.oid = core.live.oid
               \/ \E a \in Requests' : a.kind = "cancel" /\ a.oid = core.live.oid
               \/ core.live = NoOrder
        PROVE  LotInv'
    <3>1. OneLot'
      <4>1. \A o \in Own' : venue'[o].filled + venue'[o].rem = 1 /\ (venue'[o].open => venue'[o].filled = 0)
        BY <1>1, <2>1, <2>2 DEF Lots, OneLot
      <4>2. \A o, p \in DOMAIN venue' : Hot(o)' /\ Hot(p)' => o = p
        BY <1>1, <2>1, <2>5 DEF Lots, OneLot
      <4>3. \A m \in notices' : m.n = 1 /\ m.oid \in Own' /\ venue'[m.oid].filled = 1
        BY <1>1, <2>1, <2>2 DEF Lots, OneLot
      <4>4. \A c \in Coids : exec'.book[c].count <= 1
        BY <1>1, <2>1 DEF Lots, OneLot
      <4> QED
        BY <2>7, <4>1, <4>2, <4>3, <4>4 DEF OneLot
    <3>2. ASSUME NEW o \in Own', venue'[o].filled = 1 PROVE Asked(o)'
      <4>1. core.done \/ exec.down \/ o = core.live.oid
        BY <1>1, <2>2, <2>4, <3>2
      <4>2. core.live = NoOrder => o # core.live.oid
        <5>1. o \in DOMAIN venue /\ RestTypeOK
          BY <2>2, <3>2 DEF Own, IInv
        <5> QED
          BY <5>1, VenueIds, NoOrderType
      <4> QED
        BY <1>1, <1>4, <1>5, <2>7, <4>1, <4>2 DEF Asked
    <3> QED
      BY <1>1, <1>2, <1>8, <2>3, <2>7, <3>1, <3>2 DEF LotInv, Lots
  <2>8. ~core.done => s.remaining = 1
    BY <1>4, <2>1 DEF Lots, CoreBooked, OneBooked, Unbooked
  <2>9. CASE LeavesAlone(s, t) /\ Requests' = {}
    BY <1>4, <1>5, <2>7, <2>9 DEF LeavesAlone
  <2>10. CASE AsksCancel(s, t) /\ Requests' = {Act("cancel", s.live, 0, None)}
    <3>1. s.live # NoOrder /\ core'.cancel_ctx[s.live.oid] = s.live.coid
      BY <1>5, <2>10 DEF AsksCancel
    <3>2. s.live.coid # None
      BY <1>4, <3>1 DEF IInv, HoldInv
    <3>3. \A a \in Requests' : a.kind = "cancel" /\ a.oid = s.live.oid
      BY <2>10 DEF Act
    <3>4. \E a \in Requests' : a.kind = "cancel" /\ a.oid = core.live.oid
      BY <1>4, <2>10, <3>3
    <3> QED
      BY <2>7, <3>1, <3>2, <3>3, <3>4
  <2>11. CASE AsksPlace(s, t) /\ Requests' = {Act("place", t.pending, s.remaining, None)}
    <3>1. s.live = NoOrder /\ t.live = NoOrder /\ ~t.done
      BY <2>11 DEF AsksPlace
    <3>2. \A a \in Requests' : a.kind = "place" /\ a.count = s.remaining
      BY <2>11 DEF Act
    <3>3. PICK a : a \in Requests' /\ a.kind = "place"
      BY <2>11, <3>2
    <3>4. ~exec.down
      BY <1>1, <3>3 DEF IInv, HoldInv, RequestFits, Placing
    <3>5. \A o \in DOMAIN venue' : ~Loose(o)'
      BY <1>1, <1>8, <3>3 DEF IInv, SlotInv
    <3>6. ASSUME NEW o \in DOMAIN venue', Hot(o)' PROVE FALSE
      <4>1. o \in DOMAIN venue /\ Hot(o)
        BY <1>1, <2>5, <3>6
      <4>2. ~venue[o].open
        BY <1>1, <3>5, <4>1 DEF Loose, Hot, Own
      <4>3. o \in Own /\ venue[o].filled = 1
        BY <4>1, <4>2 DEF Hot
      <4>4. o # core.live.oid
        <5>1. RestTypeOK
          BY DEF IInv
        <5> QED
          BY <1>4, <3>1, <4>1, <5>1, VenueIds, NoOrderType
      <4> QED
        BY <1>4, <1>5, <2>4, <3>1, <3>4, <4>3, <4>4
    <3>7. s.remaining = 1 /\ core.live = NoOrder
      BY <1>4, <1>5, <2>8, <3>1
    <3> QED
      BY <2>7, <3>2, <3>6, <3>7
  <2>12. CASE AsksAmend(s, t) /\ Requests' = {Act("amend", s.live, s.remaining, s.coid_seq + 1)}
    <3>1. t.live = s.live /\ ~t.done
      BY <2>12 DEF AsksAmend
    <3>2. \A a \in Requests' : a.kind = "amend" /\ a.count = s.remaining
      BY <2>12 DEF Act
    <3> QED
      BY <1>4, <1>5, <2>7, <2>8, <3>1, <3>2
  <2> QED
    BY <2>6, <2>9, <2>10, <2>11, <2>12
<1> QED
  BY <1>7, <1>8

-----------------------------------------------------------------------------
(* One lot: the notices, the poll and the exchange *)

\* What is reported of a filled lot (on_fill, _order_status_poll).
LEMMA FillReportedLots ==
  ASSUME IInv, IInv', LotInv, Quiet, mode = "armed",
         NEW e \in OrderEvent \cup LateEvent, e.kind \in {"fill", "late"},
         NEW coid \in Coids, queue' = <<e>>, exec' = mark_filled(coid),
         UNCHANGED <<mode, core, venue, acts>>, notices' \subseteq notices,
         core.contracts = 1 => e.n = 1 /\ Filled
  PROVE  LotInv'
<1> SUFFICES ASSUME core.contracts = 1 PROVE LotInv'
  BY DEF LotInv
<1>1. Lots /\ mode # "dry"
  BY DEF LotInv
<1>2. Requests = {} /\ Reports = {}
  BY AtQuiet
<1>3. Requests' = {} /\ Reports' = {e}
  <2>1. e \in AnyEvent /\ e.kind # "wings"
    BY DEF AnyEvent
  <2> QED
    BY <1>2, <2>1, FirstQueued DEF Requests, Reports
<1>4. SameCounts /\ exec'.down = exec.down
  <2>1. exec \in Executor /\ "filled" \in Statuses
    BY DEF IInv, RestTypeOK, Statuses
  <2> QED
    BY <2>1, Marked DEF mark_filled, SameCounts
<1>5. SameLots /\ Own' = Own /\ Filled' = Filled
  <2>1. SameLots
    BY DEF SameLots
  <2> QED
    BY <2>1, LotsStay
<1>6. OneLot'
  BY <1>1, <1>3, <1>4, <1>5, OneLotStays DEF Lots, OneLot, SameCounts
<1>7. CoreBooked'
  BY <1>1, <1>5 DEF Lots, CoreBooked
<1>8. ReportLot(e)'
  BY <1>5 DEF ReportLot
<1>9. \A o \in Own' : venue'[o].filled = 1 => Asked(o)'
  BY <1>1, <1>2, <1>4, <1>5 DEF Lots, Asked
<1> QED
  BY <1>1, <1>3, <1>6, <1>7, <1>8, <1>9 DEF LotInv, Lots

\* A notice speaks of a lot that was filled (on_fill).
LEMMA NoticeLots == IInv /\ IInv' /\ LotInv /\ on_fill => LotInv'
<1> SUFFICES ASSUME IInv, IInv', LotInv, on_fill PROVE LotInv'
  OBVIOUS
<1>1. RestTypeOK /\ SlotInv /\ Quiet /\ UNCHANGED <<mode, core, venue, acts, ticks, faults>>
  BY DEF IInv, on_fill
<1>2. PICK m \in notices :
       LET coid == attribute(m.coid, m.oid)
           tracked == coid \in {core.live.coid, core.pending.coid}
       IN /\ notices' = notices \ {m}
          /\ IF coid = None THEN UNCHANGED <<queue, exec>>
             ELSE /\ queue' = <<IF tracked THEN Event("fill", coid, m.oid, m.n)
                                ELSE Event("late", coid, exec.book[coid].bucket, m.n)>>
                  /\ exec' = mark_filled(coid)
  BY DEF on_fill
<1> DEFINE coid == attribute(m.coid, m.oid)
           tracked == coid \in {core.live.coid, core.pending.coid}
<1>3. m.coid \in Coids /\ m.oid \in Oids /\ m.n \in Nat \ {0} /\ mode = "armed"
  <2>1. m \in [coid : Coids, oid : DOMAIN venue, n : Nat \ {0}, id : Nat] /\ DOMAIN venue \subseteq Oids
    BY <1>1, VenueIds DEF RestTypeOK
  <2>2. mode # "dry"
    BY <1>1 DEF SlotInv
  <2> QED
    BY <1>1, <2>1, <2>2 DEF RestTypeOK
<1>4. exec \in Executor /\ exec.by_oid \in [Oids -> Coids \cup {None}] /\ exec.book \in [Coids -> Record]
  BY <1>1 DEF RestTypeOK, Executor
<1>5. coid \in Coids \cup {None}
  BY <1>3, <1>4 DEF attribute
<1>6. core.contracts = 1 => m.n = 1 /\ Filled
  BY <1>3 DEF LotInv, Lots, OneLot, Filled
<1> HIDE DEF coid
<1>7. CASE coid = None
  <2>1. UNCHANGED <<queue, exec>> /\ notices' \subseteq notices
    BY <1>2, <1>7 DEF coid
  <2>2. SameLots /\ SameCounts
    BY <1>1, <2>1 DEF SameLots, SameCounts
  <2> QED
    BY <1>1, <2>1, <2>2, LotsKept
<1>8. CASE coid # None
  <2> DEFINE e == IF tracked THEN Event("fill", coid, m.oid, m.n)
                  ELSE Event("late", coid, exec.book[coid].bucket, m.n)
  <2>1. queue' = <<e>> /\ exec' = mark_filled(coid) /\ notices' \subseteq notices
    BY <1>2, <1>8 DEF coid
  <2>2. coid \in Coids
    BY <1>5, <1>8
  <2>3. e \in OrderEvent \cup LateEvent /\ e.kind \in {"fill", "late"} /\ e.n = m.n
    <3>1. exec.book[coid].bucket \in Spots
      BY <1>4, <2>2 DEF Record
    <3>2. /\ Event("fill", coid, m.oid, m.n) \in OrderEvent /\ Event("fill", coid, m.oid, m.n).kind = "fill"
          /\ Event("fill", coid, m.oid, m.n).n = m.n
      BY <1>3, <2>2 DEF Event, OrderEvent
    <3>3. /\ Event("late", coid, exec.book[coid].bucket, m.n) \in LateEvent
          /\ Event("late", coid, exec.book[coid].bucket, m.n).kind = "late"
          /\ Event("late", coid, exec.book[coid].bucket, m.n).n = m.n
      BY <1>3, <2>2, <3>1 DEF Event, LateEvent
    <3> HIDE DEF tracked
    <3> QED
      BY <3>2, <3>3
  <2> HIDE DEF e
  <2> QED
    BY <1>1, <1>3, <1>6, <2>1, <2>2, <2>3, FillReportedLots
<1> QED
  BY <1>7, <1>8

\* The poll reports a lot that is not booked (_order_status_poll).
LEMMA PollLots == IInv /\ IInv' /\ LotInv /\ _order_status_poll => LotInv'
<1> SUFFICES ASSUME IInv, IInv', LotInv, _order_status_poll PROVE LotInv'
  OBVIOUS
<1>1. RestTypeOK /\ SlotInv /\ Quiet /\ UNCHANGED <<mode, core, venue, notices, acts, ticks, faults>>
      /\ mode = "armed" /\ core.live.oid # None
  BY DEF IInv, _order_status_poll
<1> DEFINE oid == core.live.oid
           coid == exec.by_oid[oid]
           n == parse_order_status(oid).filled - core.booked[coid]
           e == Event("fill", coid, oid, n)
<1>2. n > 0 /\ queue' = <<e>> /\ exec' = mark_filled(coid)
  BY DEF _order_status_poll
<1>3. core.live # NoOrder
  BY <1>1, NoOrderType
<1>4. oid \in DOMAIN venue /\ oid \in Oids /\ coid \in Coids /\ oid \in Own
  <2>1. oid \in DOMAIN venue /\ coid # None /\ oid \in Own
    BY <1>1, <1>3 DEF SlotInv, Known, Booked
  <2>2. exec.by_oid \in [Oids -> Coids \cup {None}] /\ DOMAIN venue \subseteq Oids
    BY <1>1, VenueIds DEF RestTypeOK, Executor
  <2> QED
    BY <2>1, <2>2
<1>5. venue[oid].filled \in Nat /\ venue[oid].rem \in Nat /\ core.booked[coid] \in Nat
      /\ n = venue[oid].filled - core.booked[coid]
  <2>1. venue[oid] \in VenueOrder
    BY <1>1, <1>4 DEF RestTypeOK
  <2>2. core.booked \in [Coids -> Nat]
    BY <1>1 DEF RestTypeOK, State
  <2> QED
    BY <1>4, <2>1, <2>2 DEF VenueOrder, parse_order_status
<1> HIDE DEF n
<1>6. n \in Nat
  BY <1>2, <1>5
<1>7. e \in OrderEvent /\ e.kind = "fill" /\ e.n = n
  BY <1>4, <1>6 DEF Event, OrderEvent
<1>8. core.contracts = 1 => n = 1 /\ Filled
  <2> SUFFICES ASSUME core.contracts = 1 PROVE n = 1 /\ Filled
    OBVIOUS
  <2>1. venue[oid].filled + venue[oid].rem = 1
    BY <1>1, <1>4 DEF LotInv, Lots, OneLot
  <2>2. n = 1 /\ venue[oid].filled = 1
    BY <1>2, <1>5, <2>1
  <2> QED
    BY <1>4, <2>2 DEF Filled
<1> HIDE DEF e, coid
<1> QED
  BY <1>1, <1>2, <1>4, <1>7, <1>8, FillReportedLots

\* An order that rests is filled (VenueFill): it is the one the core tracks.
LEMMA VenueFillLots == IInv /\ IInv' /\ LotInv /\ VenueFill => LotInv'
<1> SUFFICES ASSUME IInv, IInv', LotInv, VenueFill, core.contracts = 1 PROVE LotInv'
  BY DEF LotInv, VenueFill
<1>1. RestTypeOK /\ SlotInv /\ UNCHANGED <<mode, core, exec, queue, acts, ticks, faults>>
  BY DEF IInv, VenueFill
<1>2. PICK o \in Open : \E n \in 1..venue[o].rem :
       /\ venue' = [venue EXCEPT ![o] =
            [venue[o] EXCEPT !.rem = @ - n, !.filled = @ + n, !.open = venue[o].rem > n]]
       /\ notices' = IF venue[o].coid = None THEN notices
                     ELSE notices \cup {[coid |-> venue[o].coid, oid |-> o, n |-> n,
                                         id |-> venue[o].filled + n]}
  BY DEF VenueFill
<1> PICK n \in 1..venue[o].rem :
       /\ venue' = [venue EXCEPT ![o] =
            [venue[o] EXCEPT !.rem = @ - n, !.filled = @ + n, !.open = venue[o].rem > n]]
       /\ notices' = IF venue[o].coid = None THEN notices
                     ELSE notices \cup {[coid |-> venue[o].coid, oid |-> o, n |-> n,
                                         id |-> venue[o].filled + n]}
  BY <1>2
<1>3. o \in DOMAIN venue /\ venue[o] \in VenueOrder /\ venue[o].open
  BY <1>1 DEF Open, RestTypeOK
<1>4. venue[o].rem \in Nat /\ n \in Nat \ {0} /\ n <= venue[o].rem /\ venue[o].filled \in Nat
  BY <1>3 DEF VenueOrder
<1> DEFINE x == venue[o].rem - n
           y == venue[o].filled + n
           z == venue[o].rem > n
           r == [venue[o] EXCEPT !.rem = x, !.filled = y, !.open = z]
<1>5. r.coid = venue[o].coid /\ r.rem = x /\ r.filled = y /\ r.open = z
  <2>1. x \in Nat /\ y \in Nat /\ z \in BOOLEAN
    BY <1>4
  <2> HIDE DEF x, y, z
  <2> QED
    BY <1>3, <1>4, <2>1 DEF VenueOrder
<1>6. venue' = [venue EXCEPT ![o] = r]
  OBVIOUS
<1> HIDE DEF r
<1>7. /\ DOMAIN venue' = DOMAIN venue /\ venue'[o] = r
      /\ \A p \in DOMAIN venue : p # o => venue'[p] = venue[p]
  BY <1>3, <1>6
<1>8. mode # "dry" /\ Lots
  BY <1>1, <1>3 DEF SlotInv, LotInv
<1>9. Own' = Own
  BY <1>3, <1>5, <1>7 DEF Own
<1>10. Requests' = Requests /\ Reports' = Reports
  BY <1>1 DEF Requests, Reports
<1>11. CASE o \notin Own
  <2>1. venue[o].coid = None /\ notices' = notices
    BY <1>3, <1>11 DEF Own
  <2>2. \A p \in Own : p \in DOMAIN venue /\ venue'[p] = venue[p]
    BY <1>7, <1>11 DEF Own
  <2>3. Filled' = Filled /\ \A p : Hot(p)' = Hot(p)
    BY <1>9, <2>2 DEF Filled, Hot
  <2>4. OneLot'
    BY <1>1, <1>7, <1>8, <1>9, <1>10, <2>1, <2>2, <2>3 DEF Lots, OneLot
  <2>5. \A e \in Reports' : ReportLot(e)'
    BY <1>1, <1>8, <1>9, <1>10, <2>2, <2>3 DEF Lots, ReportLot
  <2>6. \A p \in Own' : venue'[p].filled = 1 => Asked(p)'
    BY <1>1, <1>8, <1>9, <1>10, <2>2 DEF Lots, Asked
  <2> QED
    BY <1>1, <1>8, <1>10, <2>3, <2>4, <2>5, <2>6 DEF LotInv, Lots, CoreBooked
<1>12. CASE o \in Own
  <2>1. venue[o].filled = 0 /\ venue[o].rem = 1 /\ Hot(o)
    BY <1>3, <1>4, <1>8, <1>12 DEF Lots, OneLot, Hot
  <2>2. n = 1 /\ r.rem = 0 /\ r.filled = 1 /\ ~r.open
    <3>1. n = 1 /\ x = 0 /\ y = 1 /\ ~z
      BY <1>4, <2>1
    <3> HIDE DEF x, y, z
    <3> QED
      BY <1>5, <3>1
  <2>3. Asked(o)
    <3>1. Loose(o)
      BY <1>3, <1>12 DEF Loose, Own
    <3>2. Tracked(o)
      BY <1>1, <1>3, <1>8, <3>1 DEF SlotInv
    <3> QED
      BY <3>2 DEF Tracked, Asked
  <2>4. Filled' /\ \A p : Hot(p)' => Hot(p)
    <3>1. Filled'
      BY <1>7, <1>9, <1>12, <2>2 DEF Filled
    <3>2. ASSUME NEW p, Hot(p)' PROVE Hot(p)
      <4>1. p \in DOMAIN venue
        BY <1>9, <3>2 DEF Hot, Own
      <4> QED
        BY <1>7, <1>9, <2>1, <3>2, <4>1 DEF Hot
    <3> QED
      BY <3>1, <3>2
  <2>5. OneLot'
    <3>1. \A p \in Own' : venue'[p].filled + venue'[p].rem = 1 /\ (venue'[p].open => venue'[p].filled = 0)
      <4>1. ASSUME NEW p \in Own, p # o
            PROVE  venue'[p].filled + venue'[p].rem = 1 /\ (venue'[p].open => venue'[p].filled = 0)
        <5>1. p \in DOMAIN venue /\ venue'[p] = venue[p]
          BY <1>7, <4>1 DEF Own
        <5>2. venue[p].filled + venue[p].rem = 1 /\ (venue[p].open => venue[p].filled = 0)
          BY <1>8 DEF Lots, OneLot
        <5> QED
          BY <5>1, <5>2
      <4>2. venue'[o].filled + venue'[o].rem = 1 /\ ~venue'[o].open
        <5>1. r.filled + r.rem = 1 /\ ~r.open
          BY <2>2
        <5>2. venue'[o] = r
          BY <1>7
        <5> HIDE DEF x, y, z
        <5> QED
          BY <5>1, <5>2, Zenon
      <4> QED
        BY <1>9, <4>1, <4>2
    <3>2. \A p, q \in DOMAIN venue' : Hot(p)' /\ Hot(q)' => p = q
      BY <1>7, <1>8, <2>4 DEF Lots, OneLot
    <3>3. \A a \in Requests' : a.kind = "place" => \A p \in DOMAIN venue' : ~Hot(p)'
      BY <1>7, <1>8, <1>10, <2>4 DEF Lots, OneLot
    <3>4. ASSUME NEW m \in notices' PROVE m.n = 1 /\ m.oid \in Own' /\ venue'[m.oid].filled = 1
      <4>1. CASE m \in notices
        <5>1. m.n = 1 /\ m.oid \in Own /\ venue[m.oid].filled = 1 /\ m.oid # o
          BY <1>8, <2>1, <4>1 DEF Lots, OneLot
        <5> QED
          BY <1>7, <1>9, <5>1 DEF Own
      <4>2. CASE m = [coid |-> venue[o].coid, oid |-> o, n |-> n, id |-> venue[o].filled + n]
        BY <1>7, <1>9, <1>12, <2>2, <4>2
      <4> QED
        BY <1>2, <3>4, <4>1, <4>2
    <3> QED
      BY <1>1, <1>8, <1>10, <3>1, <3>2, <3>3, <3>4 DEF Lots, OneLot
  <2>6. CoreBooked'
    BY <1>1, <1>8, <2>4 DEF Lots, CoreBooked
  <2>7. ASSUME NEW e \in Reports' PROVE ReportLot(e)'
    <3>1. ReportLot(e)
      BY <1>8, <1>10, <2>7 DEF Lots
    <3>2. e.kind = "cancelled" /\ e.oid # None /\ ~exec.down => e.oid \in DOMAIN venue /\ e.oid # o
      BY <1>3, <3>1 DEF ReportLot, Own
    <3> QED
      BY <1>1, <1>7, <1>9, <2>4, <3>1, <3>2 DEF ReportLot
  <2>8. \A p \in Own' : venue'[p].filled = 1 => Asked(p)'
    <3>1. \A p \in Own : p \in DOMAIN venue
      BY DEF Own
    <3>2. \A p \in Own : venue'[p].filled = 1 => Asked(p)
      BY <1>7, <1>8, <2>3, <3>1 DEF Lots
    <3> QED
      BY <1>1, <1>9, <1>10, <3>2 DEF Asked
  <2> QED
    BY <1>1, <1>8, <1>10, <2>5, <2>6, <2>7, <2>8 DEF LotInv, Lots
<1> QED
  BY <1>11, <1>12

\* An order expires, a notice is lost, and the book is swept: no lot changes.
LEMMA BookLots ==
  ASSUME IInv, IInv', LotInv, VenueExpire \/ NoticeLost \/ cancel_stale_open_orders
  PROVE  LotInv'
<1>1. RestTypeOK
  BY DEF IInv
<1>2. CASE VenueExpire
  <2>1. UNCHANGED <<mode, core, exec, notices, queue, acts>>
    BY <1>2 DEF VenueExpire
  <2>2. PICK o \in Open : venue' = [venue EXCEPT ![o].open = FALSE]
    BY <1>2 DEF VenueExpire
  <2>3. o \in DOMAIN venue /\ venue[o] \in VenueOrder /\ venue \in Seq(VenueOrder)
    BY <1>1 DEF Open, RestTypeOK
  <2>4. SameLots
    BY <2>2, <2>3 DEF SameLots, VenueOrder
  <2>5. SameCounts
    BY <2>1 DEF SameCounts
  <2> QED
    BY <2>1, <2>4, <2>5, LotsKept
<1>3. CASE NoticeLost
  <2>1. UNCHANGED <<mode, core, exec, venue, queue, acts>> /\ notices' \subseteq notices
    BY <1>3 DEF NoticeLost
  <2>2. SameLots /\ SameCounts
    BY <2>1 DEF SameLots, SameCounts
  <2> QED
    BY <2>1, <2>2, LotsKept
<1>4. CASE cancel_stale_open_orders
  <2>1. UNCHANGED <<mode, core, notices, queue, acts>>
    BY <1>4 DEF cancel_stale_open_orders
  <2>2. SameCounts /\ exec'.down = exec.down
    <3>1. exec \in Executor /\ exec' = [exec EXCEPT !.swept = TRUE]
      BY <1>1, <1>4 DEF cancel_stale_open_orders, RestTypeOK
    <3> QED
      BY <3>1 DEF Executor, SameCounts
  <2>3. SameLots
    <3>1. CASE venue' = venue
      BY <3>1 DEF SameLots
    <3>2. CASE venue' = [o \in DOMAIN venue |-> [venue[o] EXCEPT !.open = FALSE]]
      <4>1. \A o \in DOMAIN venue : venue[o] \in VenueOrder
        BY <1>1 DEF RestTypeOK
      <4> QED
        BY <3>2, <4>1 DEF SameLots, VenueOrder
    <3> QED
      BY <1>4, <3>1, <3>2 DEF cancel_stale_open_orders
  <2> QED
    BY <2>1, <2>2, <2>3, LotsKept
<1> QED
  BY <1>2, <1>3, <1>4

-----------------------------------------------------------------------------
(* One lot: the executor *)

\* A request is executed: what its answer has to say for the lots to be kept (Executed).
LEMMA AnswerLots ==
  ASSUME IInv, LotInv, acts # <<>>, Head(acts).kind # "take", NEW e \in OrderEvent,
         NEW x \in Executor, Executed(<<e>>, x), mode # "dry",
         core.contracts = 1 =>
           /\ OneLot' /\ (Filled => Filled') /\ ReportLot(e)'
           /\ \A o \in Own' : venue'[o].filled = 1 => Asked(o)'
  PROVE  LotInv'
<1>1. /\ Requests' = {} /\ Reports' = {e} /\ mode' = mode /\ Like(core, core')
  BY Answers
<1> SUFFICES ASSUME core.contracts = 1 PROVE LotInv'
  BY <1>1 DEF LotInv, Like
<1>2. Lots
  BY DEF LotInv
<1>3. CoreBooked'
  BY <1>1, <1>2, CoreBookedStays DEF Lots
<1> QED
  BY <1>1, <1>3 DEF LotInv, Lots

\* While a create is under way no order of ours rests or was filled, and it is for one lot.
LEMMA PlaceLot ==
  ASSUME IInv, LotInv, Todo("place"), core.contracts = 1
  PROVE  /\ Lots /\ Head(acts).count = 1 /\ Head(acts).kind = "place" /\ mode # "dry"
         /\ \A o \in DOMAIN venue : ~Hot(o)
         /\ \A o \in Own : venue[o].filled # 1
<1>1. acts # <<>> /\ Head(acts).kind = "place" /\ Head(acts).kind # "take" /\ mode # "dry"
      /\ acts \in Seq(Action) /\ AskedLast(acts)
  BY DEF Todo, IInv, RestTypeOK, HoldInv, OneRequest
<1>2. Requests = {Head(acts)} /\ Lots
  BY <1>1, RequestDone DEF Requests, LotInv
<1>3. Head(acts).count = 1 /\ \A o \in DOMAIN venue : ~Hot(o)
  BY <1>1, <1>2 DEF Lots, OneLot
<1>4. \A o \in Own : venue[o].filled # 1
  BY <1>3 DEF Hot, Own
<1> QED
  BY <1>1, <1>2, <1>3, <1>4

\* A create that was not accepted (RefusePlace).
LEMMA RefusedLots ==
  ASSUME IInv, LotInv, Todo("place"), NEW x \in Executor, RefusePlace(x),
         core.contracts = 1 => OneLot' /\ \A o \in Own' : venue'[o].filled # 1
  PROVE  LotInv'
<1> PICK e : e = Event("cancelled", Head(acts).coid, None, 0)
  OBVIOUS
<1>1. e \in OrderEvent /\ Executed(<<e>>, x) /\ acts # <<>> /\ Head(acts).kind # "take" /\ mode # "dry"
  BY RefusedFits DEF Todo
<1>2. e.kind = "cancelled" /\ e.oid = None /\ e.n = 0
  BY DEF Event
<1>3. ReportLot(e)'
  BY <1>2 DEF ReportLot
<1>4. core.contracts = 1 => ~Filled
  BY PlaceLot DEF Filled
<1> QED
  BY <1>1, <1>3, <1>4, AnswerLots

\* An order joins the book.
LEMMA LotCreated ==
  ASSUME IInv, LotInv, Todo("place"), core.contracts = 1, Len(venue) < MaxOrders,
         venue' = Append(venue, [coid |-> Head(acts).coid, rem |-> Head(acts).count, filled |-> 0,
                                 open |-> TRUE]),
         Requests' = {}, notices' = notices, \A c \in Coids : exec'.book[c].count <= 1
  PROVE  OneLot' /\ \A o \in Own' : venue'[o].filled # 1
<1> DEFINE r == [coid |-> Head(acts).coid, rem |-> Head(acts).count, filled |-> 0, open |-> TRUE]
<1>1. /\ Lots /\ Head(acts).count = 1 /\ \A o \in DOMAIN venue : ~Hot(o)
      /\ \A o \in Own : venue[o].filled # 1
  BY PlaceLot
<1>2. RestTypeOK /\ Head(acts) \in Action
  BY PlaceAlone DEF IInv
<1>3. r \in VenueOrder /\ r.filled = 0 /\ r.rem = 1
  BY <1>1, <1>2 DEF Action, VenueOrder
<1> HIDE DEF r
<1> PICK o : o = Len(venue) + 1
  OBVIOUS
<1>4. /\ DOMAIN venue' = DOMAIN venue \cup {o} /\ o \notin DOMAIN venue /\ venue'[o] = r
      /\ \A p \in DOMAIN venue : venue'[p] = venue[p]
  BY <1>2, <1>3, OrderAdded DEF r
<1>5. venue'[o].filled = 0 /\ venue'[o].rem = 1
  BY <1>3, <1>4
<1>6. ASSUME NEW p \in Own' PROVE p = o \/ (p \in Own /\ venue'[p] = venue[p])
  BY <1>4 DEF Own
<1>7. \A p \in Own' : venue'[p].filled + venue'[p].rem = 1 /\ (venue'[p].open => venue'[p].filled = 0)
                      /\ venue'[p].filled # 1
  <2> SUFFICES ASSUME NEW p \in Own'
               PROVE  venue'[p].filled + venue'[p].rem = 1 /\ (venue'[p].open => venue'[p].filled = 0)
                      /\ venue'[p].filled # 1
    OBVIOUS
  <2>1. CASE p = o
    BY <1>5, <2>1
  <2>2. CASE p \in Own /\ venue'[p] = venue[p]
    <3>1. venue[p].filled + venue[p].rem = 1 /\ (venue[p].open => venue[p].filled = 0) /\ venue[p].filled # 1
      BY <1>1, <2>2 DEF Lots, OneLot
    <3> QED
      BY <2>2, <3>1
  <2> QED
    BY <1>6, <2>1, <2>2
<1>8. \A p \in DOMAIN venue' : Hot(p)' => p = o
  <2>1. \A p \in DOMAIN venue : Hot(p)' => Hot(p)
    BY <1>4 DEF Hot, Own
  <2> QED
    BY <1>1, <1>4, <2>1
<1>9. \A m \in notices' : m.n = 1 /\ m.oid \in Own' /\ venue'[m.oid].filled = 1
  BY <1>1 DEF Lots, OneLot
<1> QED
  BY <1>7, <1>8, <1>9 DEF OneLot

\* A create that was accepted (PlaceAccepted).
LEMMA PlaceAcceptedLots == IInv /\ IInv' /\ LotInv /\ PlaceAccepted => LotInv'
<1> SUFFICES ASSUME IInv, IInv', LotInv, PlaceAccepted PROVE LotInv'
  OBVIOUS
<1> DEFINE a == Head(acts)
           oid == Len(venue) + 1
           rec == [oid |-> oid, count |-> a.count, bucket |-> core.bucket, status |-> "live",
                   confirmed |-> FALSE]
           x == [exec EXCEPT !.book[a.coid] = rec, !.by_oid[oid] = a.coid, !.rejects = 0]
<1> PICK e : e = Event("ack", a.coid, oid, 0)
  OBVIOUS
<1>1. /\ Todo("place") /\ Len(venue) < MaxOrders /\ notices' = notices
      /\ venue' = Append(venue, [coid |-> a.coid, rem |-> a.count, filled |-> 0, open |-> TRUE])
      /\ Executed(<<e>>, x)
  BY DEF PlaceAccepted
<1>2. acts # <<>> /\ a.kind # "take" /\ RestTypeOK /\ mode # "dry"
  BY <1>1 DEF Todo, IInv
<1>3. Placing(a) /\ a \in Action
  BY <1>1, PlaceAlone
<1>4. a.coid \in Coids
  BY <1>3 DEF Placing, Action
<1>5. oid \in Oids
  <2>1. [coid |-> a.coid, rem |-> a.count, filled |-> 0, open |-> TRUE] \in VenueOrder
    BY <1>3 DEF Action, VenueOrder
  <2> QED
    BY <1>1, <1>2, <2>1, OrderAdded
<1>6. x = exec' /\ x \in Executor
  BY <1>1 DEF Executed, IInv, RestTypeOK
<1>7. e \in OrderEvent /\ e.kind = "ack" /\ e.n = 0 /\ e.oid = oid
  BY <1>4, <1>5 DEF Event, OrderEvent
<1>8. core.contracts = 1 => \A c \in Coids : exec'.book[c].count <= 1
  <2> SUFFICES ASSUME core.contracts = 1 PROVE \A c \in Coids : exec'.book[c].count <= 1
    OBVIOUS
  <2>1. Lots /\ a.count = 1
    BY <1>1, PlaceLot
  <2>2. exec \in Executor /\ exec.book \in [Coids -> Record]
    BY <1>2 DEF RestTypeOK, Executor
  <2> HIDE DEF a, oid
  <2>3. rec.count = 1
    BY <2>1
  <2> HIDE DEF rec
  <2>4. x.book = [exec.book EXCEPT ![a.coid] = rec]
    BY <2>2 DEF Executor
  <2>5. \A c \in Coids : exec.book[c].count <= 1
    BY <2>1 DEF Lots, OneLot
  <2> HIDE DEF x
  <2> QED
    BY <1>4, <1>6, <2>2, <2>3, <2>4, <2>5
<1> HIDE DEF x, oid
<1>9. Requests' = {}
  BY <1>1, <1>2, <1>6, <1>7, Answers
<1>10. core.contracts = 1 => OneLot' /\ \A o \in Own' : venue'[o].filled # 1
  BY <1>1, <1>8, <1>9, LotCreated
<1>11. ReportLot(e)'
  BY <1>7 DEF ReportLot
<1>12. core.contracts = 1 => ~Filled
  BY <1>1, PlaceLot DEF Filled
<1> QED
  BY <1>1, <1>2, <1>6, <1>7, <1>10, <1>11, <1>12, AnswerLots

\* A create that was refused leaves the lots alone (_reject_place).
LEMMA RejectLots == IInv /\ IInv' /\ LotInv /\ _reject_place => LotInv'
<1> SUFFICES ASSUME IInv, IInv', LotInv, _reject_place PROVE LotInv'
  OBVIOUS
<1> DEFINE x == [exec EXCEPT !.rejects = @ + 1, !.down = @ \/ exec.rejects + 1 >= MaxRejects]
<1>1. Todo("place") /\ RefusePlace(x) /\ venue' = venue /\ notices' = notices
  BY DEF _reject_place
<1>2. x = exec' /\ x \in Executor
  BY <1>1 DEF RefusePlace, Executed, IInv, RestTypeOK
<1>3. SameCounts
  <2>1. exec \in Executor
    BY DEF IInv, RestTypeOK
  <2>2. x.book = exec.book
    BY <2>1 DEF Executor
  <2> QED
    BY <1>2, <2>2 DEF SameCounts
<1> HIDE DEF x
<1>4. Requests' = {}
  BY <1>1, <1>2, RefusedFits, Answers DEF Todo
<1>5. SameLots
  BY <1>1 DEF SameLots
<1>6. core.contracts = 1 => OneLot' /\ \A o \in Own' : venue'[o].filled # 1
  BY <1>1, <1>3, <1>4, <1>5, PlaceLot, OneLotStays DEF Lots, OneLot, SameCounts, Own
<1> QED
  BY <1>1, <1>2, <1>6, RefusedLots

\* A create without an answer (PlaceUnknown).
LEMMA PlaceUnknownLots == IInv /\ IInv' /\ LotInv /\ PlaceUnknown => LotInv'
<1> SUFFICES ASSUME IInv, IInv', LotInv, PlaceUnknown PROVE LotInv'
  OBVIOUS
<1> DEFINE a == Head(acts)
           rec == [NoRecord EXCEPT !.count = 1, !.bucket = core.bucket, !.status = "unknown"]
           x == [exec EXCEPT !.book[a.coid] = rec, !.rejects = @ + 1, !.down = TRUE]
<1>1. /\ Todo("place") /\ RefusePlace(x) /\ notices' = notices /\ Len(venue) < MaxOrders
      /\ venue' \in {venue, Append(venue, [coid |-> a.coid, rem |-> a.count, filled |-> 0, open |-> TRUE])}
  BY DEF PlaceUnknown
<1>2. x = exec' /\ x \in Executor /\ exec \in Executor /\ exec.book \in [Coids -> Record]
  BY <1>1 DEF RefusePlace, Executed, IInv, RestTypeOK, Executor
<1>3. rec.count = 1
  BY DEF NoRecord
<1> HIDE DEF rec, a
<1>4. core.contracts = 1 => \A c \in Coids : exec'.book[c].count <= 1
  <2> SUFFICES ASSUME core.contracts = 1 PROVE \A c \in Coids : exec'.book[c].count <= 1
    OBVIOUS
  <2>1. \A c \in Coids : exec.book[c].count <= 1
    BY DEF LotInv, Lots, OneLot, Todo, IInv, SlotInv, PlaceUnknown
  <2>2. x.book = [exec.book EXCEPT ![a.coid] = rec]
    BY <1>2 DEF Executor
  <2> HIDE DEF x
  <2> QED
    BY <1>2, <1>3, <2>1, <2>2
<1> HIDE DEF x
<1>5. Requests' = {}
  BY <1>1, <1>2, RefusedFits, Answers DEF Todo
<1>6. core.contracts = 1 => OneLot' /\ \A o \in Own' : venue'[o].filled # 1
  <2>1. CASE venue' = venue
    <3>1. SameLots
      BY <2>1 DEF SameLots
    <3> QED
      BY <1>1, <1>4, <1>5, <2>1, <3>1, PlaceLot, OneLotStays DEF Lots, Own
  <2>2. CASE venue' # venue
    BY <1>1, <1>4, <1>5, <2>2, LotCreated DEF a
  <2> QED
    BY <2>1, <2>2
<1> QED
  BY <1>1, <1>2, <1>6, RefusedLots

\* Standing the hour down touches no count of the rest book.
LEMMA DownCounts ==
  ASSUME RestTypeOK, exec' = [exec EXCEPT !.down = TRUE]
  PROVE  SameCounts
<1>1. exec \in Executor
  BY DEF RestTypeOK
<1>2. exec'.book = exec.book
  BY <1>1 DEF Executor
<1> QED
  BY <1>2 DEF SameCounts

\* A create that finds a stray leaves our lots alone (PlaceStray).
LEMMA PlaceStrayLots == IInv /\ IInv' /\ LotInv /\ PlaceStray => LotInv'
<1> SUFFICES ASSUME IInv, IInv', LotInv, PlaceStray PROVE LotInv'
  OBVIOUS
<1> DEFINE x == [exec EXCEPT !.down = TRUE]
<1>1. /\ Todo("place") /\ RefusePlace(x) /\ notices' = notices /\ RestTypeOK
      /\ \/ venue' = [o \in DOMAIN venue |-> [venue[o] EXCEPT !.open = @ /\ o \notin Listed({})]]
         \/ venue' = venue
  BY DEF PlaceStray, IInv
<1>2. x = exec' /\ x \in Executor
  BY <1>1 DEF RefusePlace, Executed, IInv, RestTypeOK
<1>3. SameCounts
  BY <1>1, <1>2, DownCounts
<1> HIDE DEF x
<1>4. Requests' = {}
  BY <1>1, <1>2, RefusedFits, Answers DEF Todo
<1>5. SameLots
  <2>1. CASE venue' = venue
    BY <2>1 DEF SameLots
  <2>2. CASE venue' = [o \in DOMAIN venue |-> [venue[o] EXCEPT !.open = @ /\ o \notin Listed({})]]
    <3>1. \A o \in DOMAIN venue : venue[o] \in VenueOrder
      BY <1>1 DEF RestTypeOK
    <3>2. ASSUME NEW o \in DOMAIN venue
          PROVE  /\ venue'[o].coid = venue[o].coid /\ venue'[o].filled = venue[o].filled
                 /\ venue'[o].rem = venue[o].rem /\ (venue'[o].open => venue[o].open)
      <4>1. venue'[o] = [venue[o] EXCEPT !.open = venue[o].open /\ o \notin Listed({})]
        BY <2>2
      <4>2. venue'[o].open <=> venue[o].open /\ o \notin Listed({})
        BY <3>1, <4>1 DEF VenueOrder
      <4> QED
        BY <3>1, <4>1, <4>2 DEF VenueOrder
    <3>3. DOMAIN venue' = DOMAIN venue
      BY <2>2
    <3> QED
      BY <3>2, <3>3 DEF SameLots
  <2> QED
    BY <1>1, <2>1, <2>2
<1>6. core.contracts = 1 => OneLot' /\ \A o \in Own' : venue'[o].filled # 1
  <2> SUFFICES ASSUME core.contracts = 1 PROVE OneLot' /\ \A o \in Own' : venue'[o].filled # 1
    OBVIOUS
  <2>1. Lots /\ \A o \in Own : venue[o].filled # 1
    BY <1>1, PlaceLot
  <2>2. Own' = Own /\ Own \subseteq DOMAIN venue
    BY <1>5, LotsStay DEF Own
  <2>3. OneLot'
    BY <1>1, <1>3, <1>4, <1>5, <2>1, OneLotStays DEF Lots, OneLot, SameCounts
  <2> QED
    BY <1>5, <2>1, <2>2, <2>3 DEF SameLots
<1> QED
  BY <1>1, <1>2, <1>6, RefusedLots

\* A create that finds a filled stray leaves our lots alone (PlaceFilledStray).
LEMMA PlaceFilledStrayLots == IInv /\ IInv' /\ LotInv /\ PlaceFilledStray => LotInv'
<1> SUFFICES ASSUME IInv, IInv', LotInv, PlaceFilledStray PROVE LotInv'
  OBVIOUS
<1> DEFINE x == [exec EXCEPT !.down = TRUE]
<1>1. Todo("place") /\ RefusePlace(x) /\ notices' = notices /\ venue' = venue /\ RestTypeOK
  BY FilledStray DEF PlaceFilledStray, IInv
<1>2. x = exec' /\ x \in Executor
  BY <1>1 DEF RefusePlace, Executed, IInv, RestTypeOK
<1>3. SameCounts
  BY <1>1, <1>2, DownCounts
<1> HIDE DEF x
<1>4. Requests' = {}
  BY <1>1, <1>2, RefusedFits, Answers DEF Todo
<1>5. SameLots
  BY <1>1 DEF SameLots
<1>6. core.contracts = 1 => OneLot' /\ \A o \in Own' : venue'[o].filled # 1
  BY <1>1, <1>3, <1>4, <1>5, PlaceLot, OneLotStays DEF Lots, OneLot, SameCounts, Own
<1> QED
  BY <1>1, <1>2, <1>6, RefusedLots

\* A cancel reports the lot of its order, or stands the hour down (_cancel_rest, _amend_fallback).
LEMMA CancelEndLots ==
  ASSUME IInv, IInv', LotInv, acts # <<>>, Head(acts).kind \in {"cancel", "amend"}, mode = "armed",
         NEW o, o = Head(acts).oid, CancelEnds(o)
  PROVE  LotInv'
<1> PICK a : a = Head(acts)
  OBVIOUS
<1>1. RestTypeOK /\ SlotInv /\ a.kind # "take" /\ mode # "dry"
  BY DEF IInv
<1>2. /\ o \in DOMAIN venue /\ o \in Oids /\ exec.by_oid[o] \in Coids /\ exec.by_oid[o] # None
      /\ Requests = {a} /\ a.oid = o /\ (a.kind = "amend" => core.live.oid = o)
  BY CancelTarget, Identifiers DEF Amending
<1>3. PICK e, x : Cancelled(o, e, x)
  BY <1>1, <1>2, CancelOutcome
<1>4. /\ e \in OrderEvent /\ e.kind = "cancelled" /\ e.oid = o
      /\ x \in Executor /\ (exec.down => x.down)
      /\ Executed(<<e>>, x) /\ notices' = notices
      /\ \A c \in Coids : x.book[c].count = exec.book[c].count
      /\ \/ /\ venue' = [venue EXCEPT ![o].open = FALSE]
            /\ \/ e.n = venue[o].filled
               \/ e.n = Max({0, exec.book[exec.by_oid[o]].count - venue[o].rem}) /\ venue[o].open
         \/ venue' = venue /\ x.down /\ e.n = 0
  BY <1>3 DEF Cancelled
<1>5. Reports = {} /\ Requests' = {} /\ Reports' = {e} /\ exec' = x /\ Like(core, core')
  BY <1>1, <1>4, Answers
<1>6. o \in Own
  BY <1>1, <1>2 DEF SlotInv, Booked
<1>7. SameLots /\ (~venue'[o].open \/ x.down)
  <2>1. CASE venue' = venue /\ x.down
    BY <2>1 DEF SameLots
  <2>2. CASE venue' = [venue EXCEPT ![o].open = FALSE]
    <3> DEFINE r == [venue[o] EXCEPT !.open = FALSE]
    <3>1. venue \in Seq(VenueOrder) /\ venue[o] \in VenueOrder
      BY <1>1, <1>2 DEF RestTypeOK
    <3>2. r.coid = venue[o].coid /\ r.filled = venue[o].filled /\ r.rem = venue[o].rem /\ ~r.open
      BY <3>1 DEF VenueOrder
    <3>3. venue' = [venue EXCEPT ![o] = r]
      BY <1>2, <2>2, <3>1
    <3> HIDE DEF r
    <3> QED
      BY <1>2, <3>1, <3>2, <3>3 DEF SameLots
  <2> QED
    BY <1>4, <2>1, <2>2
<1>8. Own' = Own /\ Filled' = Filled /\ Own \subseteq DOMAIN venue
  BY <1>7, LotsStay DEF Own
<1> SUFFICES ASSUME core.contracts = 1
             PROVE  /\ OneLot' /\ (Filled => Filled') /\ ReportLot(e)'
                    /\ \A p \in Own' : venue'[p].filled = 1 => Asked(p)'
  BY <1>1, <1>4, AnswerLots
<1>9. Lots
  BY <1>1 DEF LotInv
<1>10. OneLot'
  BY <1>4, <1>5, <1>7, <1>9, OneLotStays DEF Lots, OneLot
<1>11. (x.down /\ e.n = 0) \/ e.n = venue[o].filled
  <2>1. venue[o].filled \in Nat /\ venue[o].filled + venue[o].rem = 1
        /\ (venue[o].open => venue[o].filled = 0)
    <3>1. venue[o] \in VenueOrder
      BY <1>1, <1>2 DEF RestTypeOK
    <3> QED
      BY <1>6, <1>9, <3>1 DEF Lots, OneLot, VenueOrder
  <2>2. ASSUME e.n = Max({0, exec.book[exec.by_oid[o]].count - venue[o].rem}), venue[o].open
        PROVE  e.n = venue[o].filled
    <3> PICK k : k = exec.book[exec.by_oid[o]].count
      OBVIOUS
    <3>1. k \in Nat /\ k <= 1
      <4>1. exec.book[exec.by_oid[o]] \in Record
        BY <1>1, <1>2 DEF RestTypeOK, Executor
      <4> QED
        BY <1>2, <1>9, <4>1 DEF Record, Lots, OneLot
    <3>2. venue[o].rem = 1 /\ venue[o].filled = 0
      <4>1. venue[o] \in VenueOrder
        BY <1>1, <1>2 DEF RestTypeOK
      <4> QED
        BY <2>1, <2>2, <4>1 DEF VenueOrder
    <3>3. PICK i \in Int : i = k - 1 /\ i <= 0
      BY <3>1
    <3>4. e.n = Max({0, i})
      <4>1. exec.book[exec.by_oid[o]].count - venue[o].rem = i
        BY <3>2, <3>3
      <4> QED
        BY <2>2, <4>1
    <3>5. Max({0, i}) \in {0, i} /\ Max({0, i}) \in Nat
      BY MaxWithZero
    <3>6. e.n = 0
      <4>1. e.n \in {0, i} /\ e.n \in Nat
        BY <3>4, <3>5
      <4> QED
        BY <3>3, <4>1
    <3> QED
      BY <3>2, <3>6
  <2> QED
    BY <1>4, <2>2
<1>12. venue[o].filled \in {0, 1}
  <2>1. venue[o] \in VenueOrder /\ venue[o].filled + venue[o].rem = 1
    BY <1>1, <1>2, <1>6, <1>9 DEF RestTypeOK, Lots, OneLot
  <2> QED
    BY <2>1 DEF VenueOrder
<1>13. ReportLot(e)'
  <2>1. e.n = 1 => Filled
    BY <1>6, <1>11 DEF Filled
  <2>2. venue'[o].filled = venue[o].filled
    BY <1>2, <1>7 DEF SameLots
  <2> QED
    BY <1>4, <1>5, <1>6, <1>7, <1>8, <1>11, <1>12, <2>1, <2>2 DEF ReportLot
<1>14. ASSUME NEW p \in Own', venue'[p].filled = 1 PROVE Asked(p)'
  <2>1. p \in DOMAIN venue /\ venue[p].filled = 1 /\ Asked(p)
    BY <1>7, <1>8, <1>9, <1>14 DEF Lots, SameLots
  <2>2. /\ core'.live = core.live /\ core'.done = core.done /\ core'.cancel_ctx = core.cancel_ctx
    BY <1>5 DEF Like
  <2>3. CASE x.down
    BY <1>5, <2>3 DEF Asked
  <2>4. CASE core.done \/ p = core.live.oid
    BY <2>2, <2>4 DEF Asked
  <2>5. CASE a.kind = "cancel" /\ p = o /\ ~x.down
    <3>1. core.cancel_ctx[o] # None
      BY <1>2, <1>9, <2>5 DEF Lots
    <3>2. e.n = 1
      BY <1>11, <2>1, <2>5
    <3> QED
      BY <1>4, <1>5, <2>2, <2>5, <3>1, <3>2 DEF Asked
  <2> QED
    BY <1>2, <1>4, <1>5, <2>1, <2>3, <2>4, <2>5 DEF Asked
<1> QED
  BY <1>8, <1>10, <1>13, <1>14

\* _cancel_rest keeps the lots.
LEMMA CancelLots == IInv /\ IInv' /\ LotInv /\ _cancel_rest => LotInv'
<1> SUFFICES ASSUME IInv, IInv', LotInv, _cancel_rest PROVE LotInv'
  OBVIOUS
<1>1. acts # <<>> /\ Head(acts).kind = "cancel" /\ Head(acts).kind \in {"cancel", "amend"} /\ mode = "armed"
  BY DEF _cancel_rest, Todo
<1>2. Head(acts).oid \in DOMAIN venue /\ Target = Head(acts).oid /\ RestTypeOK
  BY <1>1, CancelTarget DEF IInv
<1>3. Target # None
  BY <1>2, VenueIds
<1>4. CancelEnds(Head(acts).oid)
  BY <1>2, <1>3 DEF _cancel_rest, CancelEnds
<1> QED
  BY <1>1, <1>4, CancelEndLots

\* _amend_fallback keeps the lots.
LEMMA FallbackLots == IInv /\ IInv' /\ LotInv /\ _amend_fallback => LotInv'
<1> SUFFICES ASSUME IInv, IInv', LotInv, _amend_fallback PROVE LotInv'
  OBVIOUS
<1>1. acts # <<>> /\ Head(acts).kind = "amend" /\ Head(acts).kind \in {"cancel", "amend"} /\ mode = "armed"
  BY DEF _amend_fallback, Todo
<1>2. Target = Head(acts).oid
  BY <1>1, CancelTarget
<1>3. CancelEnds(Head(acts).oid)
  BY <1>2 DEF _amend_fallback, CancelEnds
<1> QED
  BY <1>1, <1>3, CancelEndLots

\* An amend of one lot crosses whole or not at all, on the order that rests (_amend_rest).
LEMMA AmendLots == IInv /\ IInv' /\ LotInv /\ _amend_rest => LotInv'
<1> SUFFICES ASSUME IInv, IInv', LotInv, _amend_rest PROVE LotInv'
  OBVIOUS
<1>1. acts # <<>> /\ Head(acts).kind = "amend" /\ Head(acts).kind \in {"cancel", "amend"}
      /\ Head(acts).kind # "take" /\ mode = "armed" /\ mode # "dry" /\ RestTypeOK /\ SlotInv
  BY DEF _amend_rest, Todo, IInv
<1> PICK a : a = Head(acts)
  OBVIOUS
<1> PICK o : o = a.oid
  OBVIOUS
<1>2. /\ o \in DOMAIN venue /\ o \in Oids /\ exec.by_oid[o] \in Coids
      /\ Requests = {a} /\ Amending(a) /\ a \in Action /\ exec.by_oid[o] # None
  BY <1>1, CancelTarget, Identifiers
<1>3. /\ a.coid \in Coids /\ a.new \in Coids /\ a.new # a.coid /\ a.count \in Nat
      /\ core.live.oid = o /\ o \in Own /\ a.new # None
  BY <1>1, <1>2 DEF Amending, Action, SlotInv, Booked
<1>4. PICK n \in 0..a.count :
             /\ venue' = [venue EXCEPT ![o] = [coid |-> a.new, rem |-> a.count - n,
                                               filled |-> @.filled + n, open |-> n < a.count]]
             /\ notices' = IF n = 0 THEN notices
                           ELSE notices \cup {[coid |-> a.new, oid |-> o, n |-> n,
                                               id |-> venue[o].filled + n]}
             /\ Executed(<<Event("amended", a.new, o, n)>>,
                  [exec EXCEPT !.book = [@ EXCEPT ![a.coid].status = "amended",
                                                  ![a.new] = [exec.book[a.coid] EXCEPT !.count = a.count,
                                                    !.status = IF n > 0 THEN "filled" ELSE "live"]],
                               !.by_oid[o] = a.new])
  BY DEF _amend_rest
<1>5. venue[o].open
  BY DEF _amend_rest
<1> PICK e : e = Event("amended", a.new, o, n)
  OBVIOUS
<1> DEFINE st == IF n > 0 THEN "filled" ELSE "live"
           x == Amended(exec, a.coid, a.new, o, a.count, st)
           r == [coid |-> a.new, rem |-> a.count - n, filled |-> venue[o].filled + n,
                 open |-> n < a.count]
<1>6. Executed(<<e>>, x) /\ venue' = [venue EXCEPT ![o] = r]
  BY <1>4 DEF Amended
<1>7. st \in Statuses /\ exec \in Executor /\ n \in Nat
  BY <1>1, <1>3 DEF Statuses, RestTypeOK
<1> HIDE DEF st
<1>8. /\ x \in Executor /\ x.down = exec.down
      /\ \A d \in Coids : d # a.new => x.book[d].count = exec.book[d].count
      /\ x.book[a.new].count = a.count
  BY <1>2, <1>3, <1>7, BookAmended
<1> HIDE DEF x
<1>9. e \in OrderEvent /\ e.kind = "amended" /\ e.oid = o /\ e.n = n
  BY <1>2, <1>3, <1>7 DEF Event, OrderEvent
<1>10. Reports = {} /\ Requests' = {} /\ Reports' = {e} /\ exec' = x /\ Like(core, core')
  BY <1>1, <1>6, <1>8, <1>9, Answers
<1> SUFFICES ASSUME core.contracts = 1
             PROVE  /\ OneLot' /\ (Filled => Filled') /\ ReportLot(e)'
                    /\ \A p \in Own' : venue'[p].filled = 1 => Asked(p)'
  BY <1>1, <1>6, <1>8, <1>9, AnswerLots
<1>11. Lots /\ a.count = 1 /\ n \in {0, 1}
  BY <1>1, <1>2, <1>7 DEF LotInv, Lots, OneLot
<1>12. venue[o].filled = 0 /\ venue[o].rem = 1 /\ Hot(o)
  <2>1. venue[o] \in VenueOrder
    BY <1>1, <1>2 DEF RestTypeOK
  <2>2. venue[o].filled = 0 /\ venue[o].filled + venue[o].rem = 1
    BY <1>3, <1>5, <1>11 DEF Lots, OneLot
  <2> QED
    BY <1>3, <1>5, <2>1, <2>2 DEF VenueOrder, Hot
<1>13. r.coid = a.new /\ r.rem = 1 - n /\ r.filled = n /\ (r.open <=> n = 0)
  <2>1. a.count - n = 1 - n /\ venue[o].filled + n = n /\ (n < a.count <=> n = 0)
    BY <1>11, <1>12
  <2> QED
    BY <2>1
<1> HIDE DEF r
<1>14. /\ DOMAIN venue' = DOMAIN venue /\ venue'[o] = r
       /\ \A p \in DOMAIN venue : p # o => venue'[p] = venue[p]
  <2>1. venue \in Seq(VenueOrder)
    BY <1>1 DEF RestTypeOK
  <2> QED
    BY <1>2, <1>6, <2>1
<1>15. Own' = Own /\ Own \subseteq DOMAIN venue
  BY <1>2, <1>3, <1>13, <1>14 DEF Own
<1>16. \A p \in Own : p # o => venue'[p] = venue[p] /\ venue[p].filled # 1 /\ ~venue[p].open
  <2>1. \A p \in Own : p # o => ~Hot(p)
    BY <1>2, <1>11, <1>12, <1>15 DEF Lots, OneLot
  <2> QED
    BY <1>14, <1>15, <2>1 DEF Hot
<1>17. Filled => Filled'
  BY <1>3, <1>12, <1>16 DEF Filled
<1>18. ReportLot(e)'
  <2>1. n = 1 => Filled'
    BY <1>3, <1>13, <1>14, <1>15 DEF Filled
  <2> QED
    BY <1>9, <1>11, <2>1 DEF ReportLot
<1>19. ASSUME NEW p \in Own', venue'[p].filled = 1 PROVE Asked(p)'
  <2>1. p = o
    BY <1>15, <1>16, <1>19
  <2>2. core'.live = core.live
    BY <1>10 DEF Like
  <2> QED
    BY <1>3, <2>1, <2>2 DEF Asked
<1>20. OneLot'
  <2>1. \A p \in Own' : venue'[p].filled + venue'[p].rem = 1 /\ (venue'[p].open => venue'[p].filled = 0)
    <3> SUFFICES ASSUME NEW p \in Own'
                 PROVE venue'[p].filled + venue'[p].rem = 1 /\ (venue'[p].open => venue'[p].filled = 0)
      OBVIOUS
    <3>1. CASE p = o
      <4>1. r.filled + r.rem = 1 /\ (r.open => r.filled = 0)
        BY <1>11, <1>13
      <4> QED
        BY <1>14, <3>1, <4>1
    <3>2. CASE p # o
      <4>1. venue'[p] = venue[p] /\ p \in Own
        BY <1>15, <1>16, <3>2
      <4>2. venue[p].filled + venue[p].rem = 1 /\ (venue[p].open => venue[p].filled = 0)
        BY <1>11, <4>1 DEF Lots, OneLot
      <4> QED
        BY <4>1, <4>2
    <3> QED
      BY <3>1, <3>2
  <2>2. \A p, q \in DOMAIN venue' : Hot(p)' /\ Hot(q)' => p = q
    <3>1. \A p \in DOMAIN venue' : Hot(p)' => p = o
      BY <1>15, <1>16 DEF Hot
    <3> QED
      BY <3>1
  <2>3. \A c \in Coids : exec'.book[c].count <= 1
    <3>1. \A c \in Coids : exec.book[c].count <= 1
      BY <1>11 DEF Lots, OneLot
    <3> QED
      BY <1>8, <1>10, <1>11, <3>1
  <2>4. ASSUME NEW m \in notices' PROVE m.n = 1 /\ m.oid \in Own' /\ venue'[m.oid].filled = 1
    <3>1. CASE m \in notices
      <4>1. m.n = 1 /\ m.oid \in Own /\ venue[m.oid].filled = 1
        BY <1>11, <3>1 DEF Lots, OneLot
      <4> QED
        BY <1>12, <1>15, <1>16, <4>1
    <3>2. CASE n # 0 /\ m = [coid |-> a.new, oid |-> o, n |-> n, id |-> venue[o].filled + n]
      <4>1. m.n = n /\ m.oid = o /\ n = 1
        BY <1>11, <3>2
      <4> QED
        BY <1>3, <1>13, <1>14, <1>15, <4>1
    <3> QED
      BY <1>4, <2>4, <3>1, <3>2
  <2> QED
    BY <1>10, <2>1, <2>2, <2>3, <2>4 DEF OneLot
<1> QED
  BY <1>17, <1>18, <1>19, <1>20

\* Sending the wings leaves the lots alone (_take_wings, FrozenExecutor).
LEMMA TakenLots ==
  ASSUME IInv, LotInv, acts # <<>>, Head(acts).kind = "take", Reports' = Reports,
         acts' = Tail(acts), core' = _apply_executor_standdown(core, exec.down, Tail(acts)),
         UNCHANGED <<mode, exec, venue, notices>>
  PROVE  LotInv'
<1>1. acts \in Seq(Action) /\ AskedLast(acts) /\ core \in State /\ core.out = <<>> /\ exec.down \in BOOLEAN
  BY DEF IInv, RestTypeOK, HoldInv, OneRequest, Executor
<1>2. Requests' = Requests
  BY <1>1, TakeDone DEF Requests
<1>3. Like(core, core')
  <2>1. core' = _apply_executor_standdown([core EXCEPT !.out = <<>>], exec.down, Tail(acts))
    BY <1>1, Emptied
  <2> QED
    BY <1>1, <2>1, StandDown
<1> SUFFICES ASSUME core.contracts = 1 PROVE LotInv'
  BY <1>3 DEF LotInv, Like
<1>4. CASE mode = "dry"
  BY <1>3, <1>4 DEF LotInv, DryLots, Unbooked, Like
<1>5. CASE mode # "dry"
  <2>1. Lots
    BY <1>5 DEF LotInv
  <2>2. SameLots
    BY DEF SameLots
  <2>3. Own' = Own /\ Filled' = Filled
    BY <2>2, LotsStay
  <2>4. OneLot'
    BY <1>2, <2>1, <2>2, OneLotStays DEF Lots, OneLot
  <2>5. CoreBooked'
    BY <1>3, <2>1, <2>3, CoreBookedStays DEF Lots
  <2>6. \A e \in Reports' : ReportLot(e)'
    BY <2>1, <2>3 DEF Lots, ReportLot
  <2>7. \A o \in Own' : venue'[o].filled = 1 => Asked(o)'
    BY <1>2, <1>3, <2>1, <2>3 DEF Lots, Asked, Like
  <2>8. \A a \in Requests' : a.kind = "cancel" => core'.cancel_ctx[a.oid] # None
    BY <1>2, <1>3, <2>1 DEF Lots, Like
  <2> QED
    BY <1>5, <2>4, <2>5, <2>6, <2>7, <2>8 DEF LotInv, Lots
<1> QED
  BY <1>4, <1>5

\* The wings leave the lots alone (_take_wings).
LEMMA TakeLots == IInv /\ IInv' /\ LotInv /\ _take_wings => LotInv'
BY WingsReported, TakenLots

\* A made-up answer counts nothing (FrozenExecutor).
LEMMA FrozenLots == IInv /\ IInv' /\ LotInv /\ FrozenExecutor => LotInv'
<1> SUFFICES ASSUME IInv, IInv', LotInv, FrozenExecutor PROVE LotInv'
  OBVIOUS
<1>1. /\ acts # <<>> /\ mode = "dry" /\ RestTypeOK /\ HoldInv
      /\ UNCHANGED <<venue, notices, faults>>
  BY DEF FrozenExecutor, IInv
<1>2. \E events, x : Executed(events, x)
  BY DEF FrozenExecutor
<1>3. mode' = mode
  BY <1>2 DEF Executed
<1> PICK a : a = Head(acts)
  OBVIOUS
<1>4. a \in Action
  BY <1>1 DEF RestTypeOK
<1>5. CASE a.kind = "take"
  <2>1. Executed(<<>>, exec)
    BY <1>5 DEF FrozenExecutor, FrozenAnswers
  <2>2. queue \in Seq(AnyEvent)
    BY <1>1 DEF RestTypeOK
  <2>3. queue' = queue /\ acts' = Tail(acts) /\ exec' = exec
        /\ core' = _apply_executor_standdown(core, exec.down, Tail(acts))
    BY <2>1, <2>2 DEF Executed
  <2>4. Reports' = Reports
    BY <2>3 DEF Reports
  <2> QED
    BY <1>1, <1>3, <1>5, <2>3, <2>4, TakenLots
<1>6. CASE a.kind # "take"
  <2>1. PICK e, x : Executed(<<e>>, x) /\ e.kind \in {"ack", "cancelled", "amended"} /\ e.n = 0
    <3>1. a.kind = "place" => \E x : Executed(<<Event("ack", a.coid, a.coid, 0)>>, x)
      BY DEF FrozenExecutor, FrozenAnswers
    <3>2. a.kind = "cancel" => \E x : Executed(<<Event("cancelled", a.coid, a.oid, 0)>>, x)
      BY DEF FrozenExecutor, FrozenAnswers
    <3>3. a.kind = "amend" => \E x : Executed(<<Event("amended", a.new, a.oid, 0)>>, x)
      BY DEF FrozenExecutor, FrozenAnswers
    <3>4. \A k, c, o : Event(k, c, o, 0).kind = k /\ Event(k, c, o, 0).n = 0
      BY DEF Event
    <3>5. a.kind \in {"place", "cancel", "amend"}
      BY <1>4, <1>6 DEF Action
    <3>6. \A k, c, o, x : Executed(<<Event(k, c, o, 0)>>, x) /\ k \in {"ack", "cancelled", "amended"} =>
            \E e : Executed(<<e>>, x) /\ e.kind \in {"ack", "cancelled", "amended"} /\ e.n = 0
      BY <3>4
    <3> QED
      BY <3>1, <3>2, <3>3, <3>5, <3>6
  <2>2. acts \in Seq(Action) /\ AskedLast(acts) /\ core \in State /\ core.out = <<>>
    BY <1>1 DEF RestTypeOK, HoldInv, OneRequest
  <2>3. Tail(acts) = <<>> /\ Requests = {a}
    BY <1>1, <1>6, <2>2, RequestDone DEF Requests
  <2>4. Reports = {} /\ queue \in Seq(AnyEvent) /\ queue' = queue \o <<e>>
    BY <1>1, <2>1, <2>3 DEF HoldInv, OneRequest, Executed, RestTypeOK
  <2>5. e \in AnyEvent
    <3>1. queue' \in Seq(AnyEvent)
      BY DEF IInv, RestTypeOK
    <3>2. Len(queue') = Len(queue) + 1 /\ queue'[Len(queue) + 1] = e /\ Len(queue) \in Nat
      BY <2>4
    <3> QED
      BY <3>1, <3>2
  <2>6. Reports' = {e}
    BY <1>1, <2>1, <2>4, <2>5, Queued DEF Reports, HoldInv, OneRequest
  <2>7. /\ core'.contracts = core.contracts /\ core'.done = core.done
        /\ core'.remaining = core.remaining /\ core'.batches = core.batches
        /\ core'.booked = core.booked /\ core'.cross = core.cross
    <3>1. core' = core \/ core' = [core EXCEPT !.stood_down = TRUE]
      BY <2>1 DEF Executed, _apply_executor_standdown
    <3> QED
      BY <2>2, <3>1 DEF State
  <2> QED
    BY <1>1, <1>3, <2>1, <2>6, <2>7 DEF LotInv, DryLots, Unbooked
<1> QED
  BY <1>5, <1>6

\* Init establishes the lots: nothing is ours and nothing booked.
LEMMA InitLots == Init => LotInv
<1> SUFFICES ASSUME Init, core.contracts = 1 PROVE IF mode = "dry" THEN DryLots ELSE Lots
  BY DEF LotInv
<1>1. PICK n \in Allotments : core = NewState(n)
  BY DEF Init
<1>2. n = 1
  BY <1>1 DEF NewState
<1>3. Unbooked(core)
  BY <1>1, <1>2 DEF NewState, Unbooked
<1>4. Requests = {} /\ Reports = {}
  BY DEF Init, Requests, RequestsOf, Reports, ReportsOf
<1>5. CASE mode = "dry"
  BY <1>3, <1>4, <1>5 DEF DryLots
<1>6. CASE mode # "dry"
  <2>1. Own = {}
    BY DEF Init, Own, Stray
  <2>2. \A c \in Coids : exec.book[c].count = 0
    <3>1. exec.book = [c \in Coids |-> NoRecord]
      BY DEF Init
    <3> QED
      BY <3>1 DEF NoRecord
  <2>3. OneLot
    BY <1>4, <2>1, <2>2 DEF OneLot, Hot, Init
  <2> QED
    BY <1>3, <1>4, <1>6, <2>1, <2>3 DEF Lots, CoreBooked
<1> QED
  BY <1>5, <1>6

\* Every step keeps the lots.
LEMMA NextLots == IInv /\ IInv' /\ LotInv /\ [Next]_vars => LotInv'
<1> SUFFICES ASSUME IInv, IInv', LotInv, [Next]_vars PROVE LotInv'
  OBVIOUS
<1>1. CASE UNCHANGED vars
  <2>1. UNCHANGED <<mode, core, exec, venue, notices, queue, acts>>
    BY <1>1 DEF vars
  <2>2. SameLots /\ SameCounts
    BY <2>1 DEF SameLots, SameCounts
  <2> QED
    BY <2>1, <2>2, LotsKept
<1>2. CASE Next
  BY <1>2, PumpLots, TickLots, NoticeLots, PollLots, PlaceAcceptedLots, RejectLots, PlaceUnknownLots,
     PlaceStrayLots, PlaceFilledStrayLots, BookLots, CancelLots, AmendLots, FallbackLots, TakeLots,
     FrozenLots, VenueFillLots
     DEF Next
<1> QED
  BY <1>1, <1>2

\* At an allotment of one lot, the lot is filled at most once and booked as it was filled.
THEOREM LotInvTheorem == Spec => [](IInv /\ LotInv)
<1>1. Init => IInv /\ LotInv
  BY InitInv, InitLots
<1>2. IInv /\ LotInv /\ [Next]_vars => (IInv /\ LotInv)'
  BY NextInv, NextLots
<1> QED
  BY <1>1, <1>2, PTL DEF Spec

-----------------------------------------------------------------------------
(* One lot: no rest is forgotten, no fill lost or booked twice *)

\* At an allotment of one lot, an order of ours that rests is the one the core tracks, unless the
\* executor has stood the hour down: a done core is no exception, because the lot was filled then.
THEOREM NoForgottenRestTheorem == Spec => []NoForgottenRest
<1>1. IInv /\ LotInv => NoForgottenRest
  <2> SUFFICES ASSUME IInv, LotInv, Quiet, core.contracts = 1, ~exec.down, NEW o \in Open \cap Own
               PROVE  o = core.live.oid
    BY DEF NoForgottenRest
  <2>1. o \in DOMAIN venue /\ venue[o].open /\ o \in Own /\ Requests = {} /\ Reports = {}
    BY AtQuiet DEF Open
  <2>2. mode # "dry" /\ Lots
    <3>1. mode # "dry"
      BY <2>1 DEF IInv, SlotInv
    <3> QED
      BY <3>1 DEF LotInv
  <2>3. Loose(o)
    BY <2>1 DEF Loose, Own
  <2>4. o = core.live.oid \/ core.done
    BY <2>1, <2>2, <2>3 DEF IInv, SlotInv, Tracked
  <2>5. ~core.done
    <3>1. ~Filled
      <4>1. \A p \in Own : venue[p].filled = 1 => p = o
        BY <2>1, <2>2 DEF Lots, OneLot, Hot, Own
      <4>2. venue[o].filled = 0
        BY <2>1, <2>2 DEF Lots, OneLot
      <4> QED
        BY <4>1, <4>2 DEF Filled
    <3> QED
      BY <2>2, <3>1 DEF Lots, CoreBooked, Unbooked
  <2> QED
    BY <2>4, <2>5
<1> QED
  BY <1>1, LotInvTheorem, PTL

\* What is booked of one lot.
LEMMA LotsBooked ==
  ASSUME RestTypeOK
  PROVE  (OneBooked(core) => BookedLots = 1) /\ (Unbooked(core) => BookedLots = 0)
<1> DEFINE B == UNION {{i} \X (1..core.batches[i].n) : i \in DOMAIN core.batches}
<1>1. BookedLots = Cardinality(B)
  BY DEF BookedLots
<1>2. ASSUME OneBooked(core) PROVE B = {<<1, 1>>}
  <2>1. core.batches \in Seq(Batch) /\ Len(core.batches) = 1 /\ core.batches[1].n = 1
    BY <1>2 DEF OneBooked, RestTypeOK, State
  <2>2. DOMAIN core.batches = {1}
    BY <2>1
  <2>3. B = {1} \X (1..1)
    BY <2>1, <2>2
  <2> QED
    BY <2>3
<1>3. ASSUME Unbooked(core) PROVE B = {}
  BY <1>3 DEF Unbooked
<1> HIDE DEF B
<1> QED
  BY <1>1, <1>2, <1>3, FS_Singleton, FS_EmptySet

\* What was filled of one lot.
LEMMA LotsFilled ==
  ASSUME RestTypeOK, Lots
  PROVE  (Filled => FilledLots = 1) /\ (~Filled => FilledLots = 0)
<1> DEFINE F == UNION {{o} \X (1..venue[o].filled) : o \in Own}
<1>1. FilledLots = Cardinality(F)
  BY DEF FilledLots
<1>2. \A o \in Own : venue[o].filled \in {0, 1}
  <2> SUFFICES ASSUME NEW o \in Own PROVE venue[o].filled \in {0, 1}
    OBVIOUS
  <2>1. venue[o] \in VenueOrder
    BY DEF RestTypeOK, Own
  <2>2. venue[o].filled + venue[o].rem = 1
    BY DEF Lots, OneLot
  <2> QED
    BY <2>1, <2>2 DEF VenueOrder
<1>3. ASSUME Filled PROVE \E z : F = {z}
  <2>1. PICK o \in Own : venue[o].filled = 1
    BY <1>3 DEF Filled
  <2>2. \A p \in Own : p # o => venue[p].filled = 0
    <3>1. \A p \in Own : venue[p].filled = 1 => p = o
      BY <2>1 DEF Lots, OneLot, Hot, Own
    <3> QED
      BY <1>2, <3>1
  <2>3. ASSUME NEW z PROVE z \in F <=> z = <<o, 1>>
    <3>1. z \in F <=> \E p \in Own : z \in {p} \X (1..venue[p].filled)
      OBVIOUS
    <3>2. \A p \in Own : p # o => {p} \X (1..venue[p].filled) = {}
      BY <2>2
    <3>3. z \in {o} \X (1..venue[o].filled) <=> z = <<o, 1>>
      BY <2>1
    <3> HIDE DEF F
    <3> QED
      BY <3>1, <3>2, <3>3
  <2> HIDE DEF F
  <2>4. F = {<<o, 1>>}
    BY <2>3
  <2> QED
    BY <2>4
<1>4. ASSUME ~Filled PROVE F = {}
  <2>1. \A o \in Own : venue[o].filled = 0
    BY <1>2, <1>4 DEF Filled
  <2> QED
    BY <2>1
<1> HIDE DEF F
<1> QED
  BY <1>1, <1>3, <1>4, FS_Singleton, FS_EmptySet

\* At an allotment of one lot, the lot is booked once and only if it was filled; and once the core
\* tracks no order it is booked, its notice heard or not, unless the executor has stood the hour down.
THEOREM BookedOnceTheorem == Spec => []BookedOnce
<1>1. IInv /\ LotInv => BookedOnce
  <2> SUFFICES ASSUME IInv, LotInv, core.contracts = 1
               PROVE  /\ BookedLots <= FilledLots
                      /\ Quiet /\ core.live = NoOrder /\ ~exec.down => BookedLots = FilledLots
    BY DEF BookedOnce
  <2>1. RestTypeOK
    BY DEF IInv
  <2>2. CASE mode = "dry"
    <3>1. BookedLots = 0
      BY <2>1, <2>2, LotsBooked DEF LotInv, DryLots
    <3>2. Own = {}
      BY <2>2 DEF IInv, SlotInv, Own
    <3>3. UNION {{o} \X (1..venue[o].filled) : o \in Own} = {}
      BY <3>2
    <3>4. FilledLots = 0
      BY <3>3, FS_EmptySet DEF FilledLots
    <3> QED
      BY <3>1, <3>4
  <2>3. CASE mode # "dry"
    <3>1. Lots
      BY <2>3 DEF LotInv
    <3>2. /\ OneBooked(core) /\ Filled => BookedLots = 1 /\ FilledLots = 1
          /\ Unbooked(core) => BookedLots = 0
          /\ FilledLots \in {0, 1} /\ (~Filled => FilledLots = 0)
      BY <2>1, <3>1, LotsBooked, LotsFilled
    <3>3. ASSUME Quiet, core.live = NoOrder, ~exec.down, Filled PROVE core.done
      <4>1. PICK o \in Own : venue[o].filled = 1
        BY <3>3 DEF Filled
      <4>2. Requests = {} /\ Reports = {}
        BY <3>3, AtQuiet
      <4>3. Asked(o)
        BY <3>1, <4>1 DEF Lots
      <4>4. o # core.live.oid
        BY <2>1, <3>3, VenueIds, NoOrderType DEF Own
      <4> QED
        BY <3>3, <4>2, <4>3, <4>4 DEF Asked
    <3> QED
      BY <3>1, <3>2, <3>3 DEF Lots, CoreBooked, Unbooked
  <2> QED
    BY <2>2, <2>3
<1> QED
  BY <1>1, LotInvTheorem, PTL

=============================================================================
