---------------------------- MODULE WritesProofs ----------------------------
(***************************************************************************)
(* Proofs about Writes: what the core is told of an order is so, nothing   *)
(* is left resting after a stand-down, and the pre-place check ends the    *)
(* hour only over an order that may stand in the way; and the pacer keeps  *)
(* its headroom -- for every number of orders, strays, workers, retries    *)
(* and faults.                                                             *)
(***************************************************************************)
EXTENDS Writes, TLAPS, FiniteSetTheorems

Ops   == {"create", "cancel", "wing"}
Steps == {"new", "paced", "list", "relist", "settle", "stray", "post", "throttled", "delete", "backoff"}
Https == {"idle", "queued", "running", "answered"}
Answers == {"none", "ok", "refused", "429", "lost", "404", "failed"}

Jobs == [op : Ops, id : Coids \cup Wings, step : Steps, batch : Int, wait : Int, tries : Int,
         http : Https, ans : Answers, seen : SUBSET Orders]

Deleting(j) == j.step \in {"delete", "backoff"}
Creating(j) == j.op = "create" /\ ~Deleting(j)

\* the POST of a create has been answered, and the coroutine has not looked at it yet
PostAnswered(j) == j.op = "create" /\ j.step = "post" /\ j.http = "answered"

WritesTypeOK ==
  /\ jobs \subseteq Jobs /\ tokens \in Int /\ sent \in Int
  /\ core \in [Coids -> {"new", "live", "cancelling", "dropped", "off"}]
  /\ told \in [Coids -> {"nothing", "none", "all"}]
  /\ venue \in [Orders -> {"none", "resting", "filled", "gone"}]
  /\ rest_book \in [Coids -> {"unseen", "live", "hit", "cancelled", "filled", "cancel_failed",
                              "unknown"}]
  /\ inflight \subseteq Coids /\ pending \subseteq Coids /\ oids \subseteq Coids

\* what a job of each kind may be doing
JobShape ==
  \A j \in jobs :
    /\ j.op = "create" => j.id \in Coids /\ j.step # "new"
    /\ j.op = "cancel" => j.id \in Coids /\ Deleting(j)
    /\ j.op = "wing" => j.step \in {"paced", "post", "throttled"}

\* at most one coroutine works on an order
OneOwner ==
  \A j, k \in jobs : j.op # "wing" /\ k.op # "wing" /\ j.id = k.id => j = k

\* an order whose create is under way
CreateState ==
  \A j \in jobs : Creating(j) =>
    /\ j.id \in inflight /\ j.id \notin oids
    /\ rest_book[j.id] = "unseen" /\ told[j.id] = "nothing"
    /\ core[j.id] \in {"live", "dropped"}
    /\ ~PostAnswered(j) => venue[j.id] = "none"
    /\ PostAnswered(j) /\ j.ans \in {"refused", "429"} => venue[j.id] = "none"
    /\ PostAnswered(j) => j.ans \in {"ok", "refused", "429", "lost"}

\* an order whose DELETE is under way
DeleteState ==
  \A j \in jobs : Deleting(j) =>
    /\ j.id \in oids /\ rest_book[j.id] \in {"live", "hit", "cancel_failed"}
    /\ j.http = "answered" /\ j.ans = "ok" => venue[j.id] = "gone"

\* the registers of the executor speak of coroutines that exist
Registered ==
  /\ \A c \in oids : \E j \in jobs : Deleting(j) /\ j.id = c
  /\ \A c \in inflight : \E j \in jobs : j.op = "create" /\ j.id = c

\* what is known of an order at the exchange from what the executor and the core remember
OrderState ==
  \A c \in Coids :
    /\ core[c] = "new" => rest_book[c] = "unseen" /\ venue[c] = "none" /\ told[c] = "nothing"
    /\ rest_book[c] = "unseen" /\ venue[c] # "none" => \E j \in jobs : j.id = c /\ PostAnswered(j)
    /\ rest_book[c] = "cancelled" => venue[c] # "resting"
    /\ rest_book[c] = "filled" => venue[c] = "filled"
    /\ rest_book[c] = "hit" => venue[c] = "filled"
    /\ core[c] = "live" => rest_book[c] \in {"unseen", "live"}

Owned == /\ WritesTypeOK /\ JobShape /\ OneOwner /\ CreateState /\ DeleteState /\ Registered
         /\ OrderState /\ CancelledMeansGone

\* Nothing is under way when the hour begins.
LEMMA InitOwned == Init => Owned
<1> SUFFICES ASSUME Init PROVE Owned
  OBVIOUS
<1>1. WritesTypeOK
  <2>1. tokens \in Int /\ sent \in Int
    BY WriterAssumption DEF Init
  <2>2. venue \in [Orders -> {"none", "resting", "filled", "gone"}]
    BY DEF Init
  <2> QED
    BY <2>1, <2>2 DEF Init, WritesTypeOK
<1>2. \A c \in Coids : venue[c] = "none"
  BY WritesAssumption DEF Init, Orders
<1>3. OrderState /\ CancelledMeansGone
  BY <1>2 DEF Init, OrderState, CancelledMeansGone
<1>4. JobShape /\ OneOwner /\ CreateState /\ DeleteState /\ Registered
  BY DEF Init, JobShape, OneOwner, CreateState, DeleteState, Registered
<1> QED
  BY <1>1, <1>3, <1>4 DEF Owned


-----------------------------------------------------------------------------
(* The operators on jobs *)

\* What a coroutine that sends a request becomes (the executor's await of an HTTP call).
LEMMA AwaitJob ==
  ASSUME NEW j \in Jobs, NEW s \in Steps
  PROVE  LET k == Await(j, s)
         IN /\ k \in Jobs /\ k.op = j.op /\ k.id = j.id /\ k.step = s /\ k.http = "queued"
            /\ k.batch = j.batch /\ k.tries = j.tries /\ k.wait = 0
<1> DEFINE k == Await(j, s)
<1>1. k = [j EXCEPT !.step = s, !.wait = 0, !.http = "queued", !.ans = "none", !.seen = {}]
  BY DEF Await
<1>2. "queued" \in Https /\ "none" \in Answers /\ {} \in SUBSET Orders /\ 0 \in Int
  BY DEF Https, Answers
<1>3. k \in Jobs
  BY <1>1, <1>2 DEF Jobs
<1> QED
  BY <1>1, <1>3 DEF Jobs

\* What a coroutine that goes to sleep becomes.
LEMMA SleepJob ==
  ASSUME NEW j \in Jobs, NEW s \in Steps, NEW w \in Int
  PROVE  LET k == Sleep(j, s, w)
         IN /\ k \in Jobs /\ k.op = j.op /\ k.id = j.id /\ k.step = s /\ k.http = "idle"
            /\ k.batch = j.batch /\ k.tries = j.tries /\ k.wait = w
  BY DEF Sleep, Jobs, Https, Answers

\* A coroutine that has just been scheduled.
LEMMA NewJobJob ==
  ASSUME NEW op \in Ops, NEW id \in Coids \cup Wings
  PROVE  LET k == NewJob(op, id)
         IN k \in Jobs /\ k.op = op /\ k.id = id /\ k.step = "new" /\ k.http = "idle"
  BY DEF NewJob, Jobs, Https, Answers, Steps

\* a round trip ends: the job has its answer and is otherwise what it was
LEMMA AnswerJob ==
  ASSUME NEW j \in Jobs, NEW ans \in Answers, NEW seen \in SUBSET Orders, Answer(j, ans, seen)
  PROVE  \E k \in Jobs : /\ jobs' = (jobs \ {j}) \cup {k}
                         /\ k.op = j.op /\ k.id = j.id /\ k.step = j.step /\ k.http = "answered"
                         /\ k.ans = ans /\ k.seen = seen /\ k.batch = j.batch
<1> DEFINE k == [j EXCEPT !.http = "answered", !.ans = ans, !.seen = seen]
<1>1. /\ k \in Jobs /\ k.op = j.op /\ k.id = j.id /\ k.step = j.step /\ k.http = "answered"
      /\ k.ans = ans /\ k.seen = seen /\ k.batch = j.batch
  BY DEF Jobs, Https
<1> QED
  BY <1>1 DEF Answer

-----------------------------------------------------------------------------
(* Every step preserves it *)

\* The exchange answers a POST: the order may rest though the answer is lost.
LEMMA PostOwned ==
  ASSUME Owned, NEW j \in jobs, rest_post(j) PROVE Owned'
<1> USE DEF Owned
<1>1. PICK ans \in {"ok", "refused", "429", "lost"}, taken \in BOOLEAN :
        /\ ans = "ok" => taken
        /\ ans \in {"refused", "429"} => ~taken
        /\ venue' = IF taken /\ j.op = "create" THEN [venue EXCEPT ![j.id] = "resting"] ELSE venue
        /\ Answer(j, ans, {})
  BY DEF rest_post
<1>2. PICK k \in Jobs : /\ jobs' = (jobs \ {j}) \cup {k}
                        /\ k.op = j.op /\ k.id = j.id /\ k.step = j.step /\ k.http = "answered"
                        /\ k.ans = ans
  BY <1>1, AnswerJob DEF WritesTypeOK, Answers
<1>3. /\ j.http = "running" /\ j.step = "post"
      /\ UNCHANGED <<core, told, rest_book, inflight, pending, oids, tokens, sent>>
  BY DEF rest_post, exec, pacer
<1>4. j.op = "create" => j.id \in Coids /\ j.id \in Orders
  BY DEF JobShape, Orders
<1>5. WritesTypeOK'
  BY <1>1, <1>2, <1>3, <1>4 DEF WritesTypeOK
<1>6. JobShape' /\ OneOwner'
  BY <1>2, <1>3 DEF JobShape, OneOwner, Deleting
<1>7. CreateState'
  BY <1>1, <1>2, <1>3, <1>4 DEF CreateState, Creating, Deleting, PostAnswered, OneOwner, WritesTypeOK
<1>8. DeleteState'
  BY <1>1, <1>2, <1>3, <1>4 DEF DeleteState, CreateState, Creating, Deleting, OneOwner, WritesTypeOK
<1>9. Registered'
  BY <1>2, <1>3 DEF Registered, Deleting
<1>10. OrderState' /\ CancelledMeansGone'
  BY <1>1, <1>2, <1>3, <1>4 DEF OrderState, CancelledMeansGone, CreateState, Creating, Deleting, PostAnswered, WritesTypeOK
<1> QED
  BY <1>5, <1>6, <1>7, <1>8, <1>9, <1>10


\* a coroutine goes on: its order stays as it is
LEMMA MoveOwned ==
  ASSUME Owned, NEW j \in jobs, NEW k \in Jobs, jobs' = (jobs \ {j}) \cup {k},
         k.op = j.op, k.id = j.id, Deleting(k) <=> Deleting(j), k.step # "new",
         k.op = "wing" => k.step \in {"paced", "post", "throttled"},
         ~PostAnswered(k), PostAnswered(j) => j.ans = "429", Deleting(k) => k.http # "answered",
         UNCHANGED <<core, told, venue, rest_book, inflight, pending, oids>>,
         tokens' \in Int, sent' \in Int
  PROVE  Owned'
<1> USE DEF Owned
<1>1. j.op # "wing" => j.id \in Coids /\ j.id \in Orders
  BY DEF JobShape, Orders, WritesTypeOK, Jobs, Ops
<1>2. WritesTypeOK' /\ JobShape' /\ OneOwner'
  BY DEF WritesTypeOK, JobShape, OneOwner
<1>3. CreateState' /\ DeleteState'
  BY <1>1 DEF CreateState, DeleteState, Creating
<1>4. Registered'
  BY DEF Registered
<1>5. OrderState' /\ CancelledMeansGone'
  BY <1>1 DEF OrderState, CancelledMeansGone, CreateState, Creating, PostAnswered, Deleting
<1> QED
  BY <1>2, <1>3, <1>4, <1>5

\* a create ends with nothing at the exchange, and the core is told so
LEMMA DropOwned ==
  ASSUME Owned, NEW j \in jobs, Creating(j), jobs' = jobs \ {j},
         venue[j.id] = "none", OrderCancelled(j.id, "none"),
         UNCHANGED <<venue, rest_book, oids>>,
         inflight' = inflight \ {j.id}, pending' = pending \ {j.id},
         tokens' \in Int, sent' \in Int
  PROVE  Owned'
<1> USE DEF Owned
<1>1. j.id \in Coids /\ j.op = "create"
  BY DEF JobShape, Creating
<1>2. /\ told' = [told EXCEPT ![j.id] = "none"]
      /\ core' = [core EXCEPT ![j.id] = IF @ = "dropped" THEN @ ELSE "off"]
  BY DEF OrderCancelled
<1>3. WritesTypeOK' /\ JobShape' /\ OneOwner'
  BY <1>1, <1>2 DEF WritesTypeOK, JobShape, OneOwner
<1>4. CreateState'
  BY <1>1, <1>2 DEF CreateState, Creating, OneOwner, JobShape, WritesTypeOK
<1>5. DeleteState' /\ Registered'
  BY <1>1 DEF DeleteState, Registered, Creating, OneOwner, JobShape
<1>6. OrderState' /\ CancelledMeansGone'
  BY <1>1, <1>2 DEF OrderState, CancelledMeansGone, CreateState, Creating, PostAnswered, WritesTypeOK
<1> QED
  BY <1>3, <1>4, <1>5, <1>6

\* the pacer's arithmetic
LEMMA AcquireType ==
  ASSUME tokens \in Int, sent \in Int, NEW cost \in Int, NEW p, NEW fit, acquire_async(cost, p, fit)
  PROVE  tokens' \in Int /\ sent' \in Int /\ PaceWait(cost, p, fit) \in Int
  BY WriterAssumption DEF acquire_async, Leave, PaceWait, Floor

\* The costs and the retry wait are integers.
LEMMA CostTypes == CostCreate \in Int /\ CostCancel \in Int /\ RetryWait \in Int
  BY WriterAssumption

\* The exchange answers the list of the resting orders.
LEMMA GetOwned ==
  ASSUME Owned, NEW j \in jobs, rest_get(j) PROVE Owned'
<1>1. PICK seen \in SUBSET Orders : Answer(j, "ok", seen)
  BY DEF rest_get
<1>2. PICK k \in Jobs : /\ jobs' = (jobs \ {j}) \cup {k}
                        /\ k.op = j.op /\ k.id = j.id /\ k.step = j.step /\ k.http = "answered"
  BY <1>1, AnswerJob DEF Owned, WritesTypeOK, Answers
<1>3. /\ j.http = "running" /\ j.step \in {"list", "relist"}
      /\ UNCHANGED <<core, told, venue, rest_book, inflight, pending, oids, tokens, sent>>
  BY DEF rest_get, exec, pacer
<1>4. tokens' \in Int /\ sent' \in Int
  BY <1>3 DEF Owned, WritesTypeOK
<1>5. j.op # "wing"
  BY <1>3 DEF Owned, JobShape
<1> QED
  BY <1>2, <1>3, <1>4, <1>5, MoveOwned DEF PostAnswered, Deleting

\* A POST met a 429 for the first time: the coroutine sleeps before its retry.
LEMMA ThrottledOwned ==
  ASSUME Owned, NEW j \in jobs, _apost(j) PROVE Owned'
<1> DEFINE s == Sleep(j, "throttled", RetryWait)  k == [s EXCEPT !.tries = 1]
<1>1. j \in Jobs
  BY DEF Owned, WritesTypeOK
<1>2. /\ s \in Jobs /\ s.op = j.op /\ s.id = j.id /\ s.step = "throttled" /\ s.http = "idle"
  BY <1>1, SleepJob, CostTypes DEF Steps
<1> HIDE DEF s
<1>3. k \in Jobs /\ k.op = j.op /\ k.id = j.id /\ k.step = "throttled" /\ k.http = "idle"
  BY <1>2 DEF Jobs
<1>4. jobs' = (jobs \ {j}) \cup {k}
  BY DEF _apost, s
<1>5. /\ j.step = "post" /\ j.ans = "429"
      /\ UNCHANGED <<core, told, venue, rest_book, inflight, pending, oids, tokens, sent>>
  BY DEF _apost, world, exec, pacer
<1>6. tokens' \in Int /\ sent' \in Int
  BY <1>5 DEF Owned, WritesTypeOK
<1> HIDE DEF k
<1> QED
  BY <1>3, <1>4, <1>5, <1>6, MoveOwned DEF PostAnswered, Deleting

\* A worker takes up a queued request.
LEMMA RunOwned ==
  ASSUME Owned, NEW j \in jobs, _run_off_loop(j), UNCHANGED <<core, told, world, exec>>
  PROVE  Owned'
<1> DEFINE k == [j EXCEPT !.http = "running"]
<1>1. k \in Jobs /\ k.op = j.op /\ k.id = j.id /\ k.step = j.step /\ k.http = "running"
  BY DEF Owned, WritesTypeOK, Jobs, Https
<1>2. /\ jobs' = (jobs \ {j}) \cup {k} /\ j.http = "queued"
      /\ UNCHANGED <<core, told, venue, rest_book, inflight, pending, oids, tokens, sent>>
  BY DEF _run_off_loop, CanRun, world, exec, pacer
<1>3. tokens' \in Int /\ sent' \in Int
  BY <1>2 DEF Owned, WritesTypeOK
<1>4. j.step # "new" /\ (j.op = "wing" => j.step \in {"paced", "post", "throttled"})
  BY DEF Owned, JobShape, WritesTypeOK, Jobs, Ops, Deleting
<1> HIDE DEF k
<1> QED
  BY <1>1, <1>2, <1>3, <1>4, MoveOwned DEF PostAnswered, Deleting

\* A coroutine's sleep is over: it goes on with the step it slept before.
LEMMA WakesOwned ==
  ASSUME Owned, NEW j \in jobs, Wake(j) PROVE Owned'
<1> DEFINE step == CASE j.step = "paced" -> (IF j.op = "create" THEN "list" ELSE "post")
                     [] j.step = "throttled" -> "post"
                     [] j.step = "settle" -> "relist"
                     [] OTHER -> "delete"
           k == Await(j, step)
<1>1. j \in Jobs /\ j.step \in {"paced", "settle", "backoff", "throttled"}
  BY DEF Owned, WritesTypeOK, Wake, Due
<1>2. /\ step \in Steps /\ step # "new" /\ (step = "delete" <=> j.step = "backoff")
      /\ step # "backoff"
  BY <1>1 DEF Steps
<1>3. j.op = "wing" => step = "post"
  BY <1>1 DEF Owned, JobShape
<1> HIDE DEF step
<1>4. k \in Jobs /\ k.op = j.op /\ k.id = j.id /\ k.step = step /\ k.http = "queued"
  BY <1>1, <1>2, AwaitJob
<1>5. jobs' = (jobs \ {j}) \cup {k}
  BY DEF Wake, step
<1>6. /\ UNCHANGED <<core, told, venue, rest_book, inflight, pending, oids, tokens>>
      /\ sent' = sent \/ Leave(PacedCost(j), j.op # "create")
  BY DEF Wake, world, exec
<1>7. tokens' \in Int /\ sent' \in Int
  <2>1. tokens \in Int /\ sent \in Int
    BY DEF Owned, WritesTypeOK
  <2>2. j.op = "create" => PacedCost(j) \in Int
    BY CostTypes DEF PacedCost
  <2> QED
    BY <1>6, <2>1, <2>2 DEF Leave
<1> HIDE DEF k
<1> QED
  BY <1>1, <1>2, <1>3, <1>4, <1>5, <1>6, <1>7, MoveOwned DEF PostAnswered, Deleting

\* The exchange answers a DELETE: gone, or not, or the answer is lost.
LEMMA DeleteTripOwned ==
  ASSUME Owned, NEW j \in jobs, rest_delete(j) PROVE Owned'
<1> USE DEF Owned
<1>1. PICK o \in Slot(j), ans \in {"ok", "404", "failed"}, pulled \in BOOLEAN :
        /\ ans = "ok" => pulled
        /\ pulled => venue[o] = "resting"
        /\ venue' = IF pulled THEN [venue EXCEPT ![o] = "gone"] ELSE venue
        /\ Answer(j, ans, j.seen)
  BY DEF rest_delete
<1>2. PICK k \in Jobs : /\ jobs' = (jobs \ {j}) \cup {k}
                        /\ k.op = j.op /\ k.id = j.id /\ k.step = j.step /\ k.http = "answered"
                        /\ k.ans = ans
  <2>1. j \in Jobs /\ j.seen \in SUBSET Orders
    BY DEF WritesTypeOK, Jobs
  <2> QED
    BY <1>1, <2>1, AnswerJob DEF Answers
<1>3. /\ j.http = "running" /\ j.step \in {"delete", "stray"}
      /\ UNCHANGED <<core, told, rest_book, inflight, pending, oids, tokens, sent>>
  BY DEF rest_delete, exec, pacer
<1>4. j.op # "wing" /\ j.id \in Coids /\ j.id \in Orders
  BY <1>3 DEF JobShape, Orders, WritesTypeOK, Jobs, Ops
<1>5. j.step = "delete" => o = j.id
  BY <1>1 DEF Slot
<1>6. WritesTypeOK'
  <2>1. pulled => o \in Orders \/ venue' = venue
    BY <1>1 DEF WritesTypeOK
  <2> QED
    BY <1>1, <1>2, <1>3, <2>1 DEF WritesTypeOK
<1>7. JobShape' /\ OneOwner' /\ Registered'
  BY <1>2, <1>3 DEF JobShape, OneOwner, Registered, Deleting
<1>8. CreateState'
  BY <1>1, <1>2, <1>3, <1>4 DEF CreateState, Creating, Deleting, PostAnswered, WritesTypeOK
<1>9. DeleteState'
  BY <1>1, <1>2, <1>3, <1>4, <1>5 DEF DeleteState, Deleting, OneOwner, WritesTypeOK
<1>10. OrderState' /\ CancelledMeansGone'
  BY <1>1, <1>2, <1>3, <1>4 DEF OrderState, CancelledMeansGone, PostAnswered, WritesTypeOK, Orders
<1> QED
  BY <1>6, <1>7, <1>8, <1>9, <1>10

\* The boot sweep cancels orders of a crashed process.
LEMMA BootOwned ==
  ASSUME Owned, NEW pulled \in SUBSET Strays, cancel_stale_open_orders(pulled) PROVE Owned'
<1> USE DEF Owned
<1>1. /\ venue' = [o \in Orders |-> IF o \in pulled THEN "gone" ELSE venue[o]]
      /\ UNCHANGED <<jobs, core, told, rest_book, inflight, pending, oids, tokens, sent>>
  BY DEF cancel_stale_open_orders, pacer
<1>2. \A c \in Coids : venue'[c] = venue[c]
  BY <1>1, WritesAssumption DEF Orders
<1>3. WritesTypeOK' /\ JobShape' /\ OneOwner' /\ Registered'
  BY <1>1 DEF WritesTypeOK, JobShape, OneOwner, Registered, Deleting
<1>4. CreateState' /\ DeleteState'
  <2>1. \A j \in jobs : j.op # "wing" => venue'[j.id] = venue[j.id]
    BY <1>2 DEF JobShape, WritesTypeOK, Jobs, Ops
  <2> QED
    BY <1>1, <2>1 DEF CreateState, DeleteState, Creating, PostAnswered, Deleting, JobShape
<1>5. OrderState' /\ CancelledMeansGone'
  BY <1>1, <1>2 DEF OrderState, CancelledMeansGone, PostAnswered
<1> QED
  BY <1>3, <1>4, <1>5

\* The exchange fills a resting order.
LEMMA FillOwned ==
  ASSUME Owned, NEW c \in Coids, VenueFill(c) PROVE Owned'
<1> USE DEF Owned
<1>1. /\ venue[c] = "resting" /\ venue' = [venue EXCEPT ![c] = "filled"]
      /\ UNCHANGED <<jobs, core, told, rest_book, inflight, pending, oids, tokens, sent>>
  BY DEF VenueFill, exec, pacer
<1>2. WritesTypeOK' /\ JobShape' /\ OneOwner' /\ Registered'
  BY <1>1 DEF WritesTypeOK, JobShape, OneOwner, Registered, Orders, Deleting
<1>3. CreateState' /\ DeleteState'
  BY <1>1 DEF CreateState, DeleteState, WritesTypeOK, Creating, PostAnswered, Deleting
<1>4. OrderState' /\ CancelledMeansGone'
  BY <1>1 DEF OrderState, CancelledMeansGone, WritesTypeOK, PostAnswered
<1> QED
  BY <1>2, <1>3, <1>4

\* The notice of a fill reaches the core.
LEMMA OnFillOwned ==
  ASSUME Owned, NEW c \in Coids, on_fill(c) PROVE Owned'
<1> USE DEF Owned
<1>1. /\ venue[c] = "filled" /\ core[c] \in {"live", "cancelling"} /\ rest_book[c] = "live"
      /\ rest_book' = [rest_book EXCEPT ![c] = "hit"]
      /\ core' = [core EXCEPT ![c] = IF @ = "live" THEN "off" ELSE @]
      /\ UNCHANGED <<jobs, told, venue, inflight, pending, oids, tokens, sent>>
  BY DEF on_fill, world, pacer
<1>2. WritesTypeOK' /\ JobShape' /\ OneOwner' /\ Registered'
  BY <1>1 DEF WritesTypeOK, JobShape, OneOwner, Registered, Deleting
<1>3. CreateState' /\ DeleteState'
  BY <1>1 DEF CreateState, DeleteState, WritesTypeOK, Creating, PostAnswered, Deleting
<1>4. OrderState' /\ CancelledMeansGone'
  BY <1>1 DEF OrderState, CancelledMeansGone, WritesTypeOK, PostAnswered
<1> QED
  BY <1>2, <1>3, <1>4


\* The core schedules a create: the order had no coroutine before.
LEMMA PlaceOwned ==
  ASSUME Owned, NEW c \in Coids, _place_rest_async(c) PROVE Owned'
<1> USE DEF Owned
<1>1. /\ core[c] = "new" /\ rest_book[c] = "unseen" /\ venue[c] = "none" /\ told[c] = "nothing"
      /\ UNCHANGED <<venue, rest_book, pending, oids>>
  BY DEF _place_rest_async, MayPlace, OrderState, world
<1>2. \A j \in jobs : j.op # "wing" => j.id # c
  <2>1. \A j \in jobs : Creating(j) \/ Deleting(j) => j.id # c
    BY <1>1 DEF CreateState, DeleteState
  <2> QED
    BY <2>1 DEF JobShape, Creating, WritesTypeOK, Jobs, Ops
<1>3. c \notin oids
  BY <1>2 DEF Registered, Deleting, JobShape
<1>4. CASE /\ stand_down # "no" /\ OrderCancelled(c, "none")
           /\ UNCHANGED <<jobs, pacer, inflight>>
  <2>1. /\ told' = [told EXCEPT ![c] = "none"] /\ core' = [core EXCEPT ![c] = "off"]
        /\ UNCHANGED <<jobs, tokens, sent, inflight>>
    BY <1>1, <1>4 DEF OrderCancelled, pacer, WritesTypeOK
  <2>2. WritesTypeOK' /\ JobShape' /\ OneOwner' /\ Registered'
    BY <1>1, <2>1 DEF WritesTypeOK, JobShape, OneOwner, Registered
  <2>3. CreateState' /\ DeleteState'
    BY <1>1, <1>2, <2>1 DEF CreateState, DeleteState, Creating, JobShape, WritesTypeOK
  <2>4. OrderState' /\ CancelledMeansGone'
    BY <1>1, <2>1 DEF OrderState, CancelledMeansGone, WritesTypeOK
  <2> QED
    BY <2>2, <2>3, <2>4
<1>5. CASE ~(/\ stand_down # "no" /\ OrderCancelled(c, "none")
             /\ UNCHANGED <<jobs, pacer, inflight>>)
  <2> DEFINE w == PaceWait(CostCreate, FALSE, FALSE)  j == NewJob("create", c)
             m == IF w > 0 THEN Sleep(j, "paced", w) ELSE Await(j, "list")
  <2>1. /\ core' = [core EXCEPT ![c] = "live"] /\ inflight' = inflight \cup {c}
        /\ acquire_async(CostCreate, FALSE, FALSE) /\ jobs' = jobs \cup {m}
        /\ told' = told
    BY <1>5 DEF _place_rest_async
  <2>2. tokens' \in Int /\ sent' \in Int /\ w \in Int
    BY <2>1, AcquireType, CostTypes DEF WritesTypeOK
  <2>3. j \in Jobs /\ j.op = "create" /\ j.id = c
    BY NewJobJob DEF Ops
  <2> HIDE DEF w, j
  <2>4. PICK k \in Jobs : /\ jobs' = jobs \cup {k} /\ k.op = "create" /\ k.id = c
                          /\ k.step \in {"paced", "list"} /\ k.http # "answered"
    <3>1. "paced" \in Steps /\ "list" \in Steps
      BY DEF Steps
    <3>2. CASE w > 0
      <4>1. m = Sleep(j, "paced", w)
        BY <3>2
      <4>2. w \in Int
        BY <2>2
      <4>3. LET k == Sleep(j, "paced", w)
            IN k \in Jobs /\ k.op = j.op /\ k.id = j.id /\ k.step = "paced" /\ k.http = "idle"
        BY <2>3, <3>1, <4>2, SleepJob
      <4> HIDE DEF m
      <4> QED
        BY <2>1, <2>3, <4>1, <4>3
    <3>3. CASE ~(w > 0)
      <4>1. m = Await(j, "list")
        BY <3>3
      <4>2. m \in Jobs /\ m.op = "create" /\ m.id = c /\ m.step = "list" /\ m.http = "queued"
        BY <2>3, <3>1, <4>1, AwaitJob
      <4> QED
        BY <2>1, <4>2
    <3> QED
      BY <3>2, <3>3
  <2> HIDE DEF m
  <2>5. WritesTypeOK' /\ JobShape'
    BY <1>1, <2>1, <2>2, <2>4 DEF WritesTypeOK, JobShape, Deleting
  <2>6. OneOwner'
    BY <1>2, <2>4 DEF OneOwner
  <2>7. CreateState'
    BY <1>1, <1>2, <1>3, <2>1, <2>4 DEF CreateState, Creating, Deleting, PostAnswered, WritesTypeOK, JobShape
  <2>8. DeleteState' /\ Registered'
    BY <1>1, <2>1, <2>4 DEF DeleteState, Registered, Deleting
  <2>9. OrderState' /\ CancelledMeansGone'
    BY <1>1, <2>1, <2>4 DEF OrderState, CancelledMeansGone, WritesTypeOK
  <2> QED
    BY <2>5, <2>6, <2>7, <2>8, <2>9
<1> QED
  BY <1>4, <1>5

\* A create is given up before its POST was sent: the order never was at the exchange.
LEMMA SkipOwned ==
  ASSUME Owned, NEW j \in jobs, j.op = "create", ~Deleting(j), j.step # "post", _skip_before_post(j),
         UNCHANGED <<venue, rest_book, oids>>, tokens' \in Int, sent' \in Int
  PROVE  Owned'
<1>1. Creating(j) /\ ~PostAnswered(j) /\ j \in Jobs
  BY DEF Creating, PostAnswered, Owned, WritesTypeOK
<1>2. venue[j.id] = "none"
  BY <1>1 DEF Owned, CreateState
<1>3. CASE j.id \in pending \/ stand_down # "no"
  BY <1>1, <1>2, <1>3, DropOwned DEF _skip_before_post
<1>4. CASE ~(j.id \in pending \/ stand_down # "no")
  <2> DEFINE k == Await(j, "post")
  <2>1. /\ jobs' = (jobs \ {j}) \cup {k}
        /\ UNCHANGED <<core, told, venue, rest_book, inflight, pending, oids>>
    BY <1>4 DEF _skip_before_post
  <2>2. k \in Jobs /\ k.op = j.op /\ k.id = j.id /\ k.step = "post" /\ k.http = "queued"
    BY <1>1, AwaitJob DEF Steps
  <2> HIDE DEF k
  <2> QED
    BY <1>1, <2>1, <2>2, MoveOwned DEF PostAnswered, Deleting
<1> QED
  BY <1>3, <1>4

\* the coroutine goes on with the cancel of a set of strays
LEMMA StrayOwned ==
  ASSUME Owned, NEW j \in jobs, j.op = "create", ~Deleting(j), j.step # "post",
         NEW S \in SUBSET Orders,
         jobs' = (jobs \ {j}) \cup {[Await(j, "stray") EXCEPT !.seen = S]},
         UNCHANGED <<core, told, venue, rest_book, inflight, pending, oids>>,
         tokens' \in Int, sent' \in Int
  PROVE  Owned'
<1> DEFINE a == Await(j, "stray")  k == [a EXCEPT !.seen = S]
<1>1. a \in Jobs /\ a.op = j.op /\ a.id = j.id /\ a.step = "stray" /\ a.http = "queued"
  BY AwaitJob DEF Steps, Owned, WritesTypeOK
<1> HIDE DEF a
<1>2. k \in Jobs /\ k.op = j.op /\ k.id = j.id /\ k.step = "stray" /\ k.http = "queued"
  BY <1>1 DEF Jobs
<1>3. jobs' = (jobs \ {j}) \cup {k}
  BY DEF a
<1> HIDE DEF k
<1> QED
  BY <1>2, <1>3, MoveOwned DEF PostAnswered, Deleting

\* A create sleeps before it lists the resting orders again.
LEMMA SleepOwned ==
  ASSUME Owned, NEW j \in jobs, j.op = "create", ~Deleting(j), j.step # "post",
         jobs' = (jobs \ {j}) \cup {Sleep(j, "settle", RetryWait)},
         UNCHANGED <<core, told, venue, rest_book, inflight, pending, oids>>,
         tokens' \in Int, sent' \in Int
  PROVE  Owned'
<1> DEFINE k == Sleep(j, "settle", RetryWait)
<1>1. k \in Jobs /\ k.op = j.op /\ k.id = j.id /\ k.step = "settle" /\ k.http = "idle"
  <2>1. j \in Jobs /\ "settle" \in Steps
    BY DEF Steps, Owned, WritesTypeOK
  <2> QED
    BY <2>1, SleepJob, CostTypes
<1>3. jobs' = (jobs \ {j}) \cup {k}
  OBVIOUS
<1> HIDE DEF k
<1> QED
  BY <1>1, <1>3, MoveOwned DEF PostAnswered, Deleting

\* The pre-place check: every verdict keeps the registers right.
LEMMA CheckOwned ==
  ASSUME Owned, NEW j \in jobs, _pre_place_invariant_async(j) PROVE Owned'
<1> DEFINE seen == _exclude_cancelling(j.seen)  verdict == _invariant_verdict(seen, j.id)
<1>1. /\ j.op = "create" /\ j.step \in {"list", "relist"} /\ ~Deleting(j)
      /\ Creating(j) /\ ~PostAnswered(j) /\ UNCHANGED <<venue, rest_book, oids>>
      /\ tokens \in Int /\ sent \in Int
  BY DEF _pre_place_invariant_async, Deleting, Creating, PostAnswered, world, Owned, WritesTypeOK
<1>2. seen \in SUBSET Orders
  BY DEF _exclude_cancelling, Owned, WritesTypeOK, Jobs
<1>3. venue[j.id] = "none"
  BY <1>1 DEF Owned, CreateState
<1>4. \/ _skip_before_post(j) /\ UNCHANGED pacer
      \/ /\ jobs' = (jobs \ {j}) \cup {Sleep(j, "settle", RetryWait)}
         /\ UNCHANGED <<pacer, told, core, pending, inflight>>
      \/ /\ acquire_async(CostCancel, TRUE, FALSE)
         /\ jobs' = (jobs \ {j}) \cup {[Await(j, "stray") EXCEPT !.seen = StraysOf(seen)]}
         /\ UNCHANGED <<told, core, pending, inflight>>
      \/ /\ OrderCancelled(j.id, "none")
         /\ pending' = pending \ {j.id} /\ inflight' = inflight \ {j.id}
         /\ jobs' = jobs \ {j} /\ UNCHANGED pacer
  BY DEF _pre_place_invariant_async
<1> HIDE DEF seen, verdict
<1>5. CASE _skip_before_post(j) /\ UNCHANGED pacer
  BY <1>1, <1>5, SkipOwned DEF pacer
<1>6. CASE /\ jobs' = (jobs \ {j}) \cup {Sleep(j, "settle", RetryWait)}
           /\ UNCHANGED <<pacer, told, core, pending, inflight>>
  BY <1>1, <1>6, SleepOwned DEF pacer
<1>7. CASE /\ acquire_async(CostCancel, TRUE, FALSE)
           /\ jobs' = (jobs \ {j}) \cup {[Await(j, "stray") EXCEPT !.seen = StraysOf(seen)]}
           /\ UNCHANGED <<told, core, pending, inflight>>
  <2>1. tokens' \in Int /\ sent' \in Int
    BY <1>1, <1>7, AcquireType, CostTypes
  <2>2. StraysOf(seen) \in SUBSET Orders
    BY <1>2 DEF StraysOf
  <2> QED
    BY <1>1, <1>7, <2>1, <2>2, StrayOwned
<1>8. CASE /\ OrderCancelled(j.id, "none")
           /\ pending' = pending \ {j.id} /\ inflight' = inflight \ {j.id}
           /\ jobs' = jobs \ {j} /\ UNCHANGED pacer
  BY <1>1, <1>3, <1>8, DropOwned DEF pacer
<1> QED
  BY <1>4, <1>5, <1>6, <1>7, <1>8

\* The pre-place check cancels a stray and goes on.
LEMMA StrayCancelledOwned ==
  ASSUME Owned, NEW j \in jobs, _cancel_stray_async(j) PROVE Owned'
<1> DEFINE rest == j.seen \ Slot(j)
<1>1. /\ j.step = "stray" /\ ~Deleting(j) /\ UNCHANGED <<venue, rest_book, oids>>
      /\ tokens \in Int /\ sent \in Int /\ rest \in SUBSET Orders
  BY DEF _cancel_stray_async, Deleting, world, Owned, WritesTypeOK, Jobs
<1>2. j.op = "create"
  BY <1>1 DEF Owned, JobShape, WritesTypeOK, Jobs, Ops
<1>3. \/ _skip_before_post(j) /\ UNCHANGED pacer
      \/ /\ acquire_async(CostCancel, TRUE, FALSE)
         /\ jobs' = (jobs \ {j}) \cup {[Await(j, "stray") EXCEPT !.seen = rest]}
         /\ UNCHANGED <<told, core, pending, inflight>>
  BY DEF _cancel_stray_async
<1> HIDE DEF rest
<1>4. CASE _skip_before_post(j) /\ UNCHANGED pacer
  BY <1>1, <1>2, <1>4, SkipOwned DEF pacer
<1>5. CASE /\ acquire_async(CostCancel, TRUE, FALSE)
           /\ jobs' = (jobs \ {j}) \cup {[Await(j, "stray") EXCEPT !.seen = rest]}
           /\ UNCHANGED <<told, core, pending, inflight>>
  <2>1. tokens' \in Int /\ sent' \in Int
    BY <1>1, <1>5, AcquireType, CostTypes
  <2> QED
    BY <1>1, <1>2, <1>5, <2>1, StrayOwned
<1> QED
  BY <1>3, <1>4, <1>5


\* The create looks at the answer to its POST: live, refused, retried or unknown.
LEMMA PlacedOwned ==
  ASSUME Owned, NEW j \in jobs, _place_rest_inflight_async(j) PROVE Owned'
<1> USE DEF Owned
<1> DEFINE c == j.id
<1>1. /\ PostAnswered(j) /\ Creating(j) /\ ~Deleting(j) /\ j \in Jobs /\ c \in Coids
      /\ UNCHANGED <<venue, tokens, sent>> /\ pending' = pending \ {c}
      /\ rest_book' = [rest_book EXCEPT ![c] =
           CASE j.ans = "ok" -> "live" [] j.ans = "lost" -> "unknown" [] OTHER -> @]
  BY DEF _place_rest_inflight_async, world, pacer, PostAnswered, Creating, Deleting, WritesTypeOK, JobShape
<1>2. /\ c \in inflight /\ c \notin oids /\ rest_book[c] = "unseen" /\ told[c] = "nothing"
      /\ core[c] \in {"live", "dropped"} /\ j.ans \in {"ok", "refused", "429", "lost"}
      /\ j.ans \in {"refused", "429"} => venue[c] = "none"
  BY <1>1 DEF CreateState
<1>3. \A k \in jobs \ {j} : k.op # "wing" => k.id # c
  BY <1>1 DEF OneOwner, PostAnswered
<1>4. CASE j.ans # "ok"
  <2>1. /\ OrderCancelled(c, "none")
        /\ jobs' = jobs \ {j} /\ inflight' = inflight \ {c} /\ UNCHANGED oids
    BY <1>4 DEF _place_rest_inflight_async
  <2>2. /\ told' = [told EXCEPT ![c] = "none"]
        /\ core' = [core EXCEPT ![c] = IF @ = "dropped" THEN @ ELSE "off"]
        /\ rest_book' = [rest_book EXCEPT ![c] = IF j.ans = "lost" THEN "unknown" ELSE "unseen"]
    BY <1>1, <1>2, <1>4, <2>1 DEF OrderCancelled
  <2> HIDE DEF c
  <2>3. WritesTypeOK' /\ JobShape' /\ OneOwner'
    BY <1>1, <2>1, <2>2 DEF WritesTypeOK, JobShape, OneOwner
  <2>4. CreateState'
    BY <1>1, <1>3, <2>1, <2>2 DEF CreateState, Creating, JobShape, WritesTypeOK
  <2>5. DeleteState' /\ Registered'
    BY <1>1, <1>2, <1>3, <2>1, <2>2 DEF DeleteState, Registered, JobShape, WritesTypeOK, c, Jobs, Ops, Deleting
  <2>6. OrderState'
    BY <1>1, <1>2, <1>3, <2>1, <2>2 DEF OrderState, WritesTypeOK, c
  <2>7. CancelledMeansGone'
    BY <1>1, <1>2, <2>2 DEF CancelledMeansGone, WritesTypeOK
  <2> QED
    BY <2>3, <2>4, <2>5, <2>6, <2>7
<1>5. CASE j.ans = "ok" /\ c \notin pending
  <2>1. /\ jobs' = jobs \ {j} /\ inflight' = inflight \ {c} /\ UNCHANGED <<told, core, oids>>
    BY <1>5 DEF _place_rest_inflight_async
  <2>2. rest_book' = [rest_book EXCEPT ![c] = "live"]
    BY <1>1, <1>5
  <2> HIDE DEF c
  <2>3. WritesTypeOK' /\ JobShape' /\ OneOwner'
    BY <1>1, <2>1, <2>2 DEF WritesTypeOK, JobShape, OneOwner
  <2>4. CreateState'
    BY <1>1, <1>3, <2>1, <2>2 DEF CreateState, Creating, JobShape, WritesTypeOK
  <2>5. DeleteState' /\ Registered'
    BY <1>1, <1>2, <1>3, <2>1, <2>2 DEF DeleteState, Registered, JobShape, WritesTypeOK, c, Jobs, Ops, Deleting
  <2>6. OrderState'
    BY <1>1, <1>2, <1>3, <2>1, <2>2 DEF OrderState, WritesTypeOK, c
  <2>7. CancelledMeansGone'
    BY <1>1, <1>2, <2>1, <2>2 DEF CancelledMeansGone, WritesTypeOK
  <2> QED
    BY <2>3, <2>4, <2>5, <2>6, <2>7
<1>6. CASE j.ans = "ok" /\ c \in pending
  <2> DEFINE a == Await(j, "delete")  m == [a EXCEPT !.tries = 0]
  <2>1. /\ jobs' = (jobs \ {j}) \cup {m} /\ oids' = oids \cup {c}
        /\ UNCHANGED <<told, core, inflight>>
    BY <1>6 DEF _place_rest_inflight_async
  <2>2. rest_book' = [rest_book EXCEPT ![c] = "live"]
    BY <1>1, <1>6
  <2>3. /\ m \in Jobs /\ m.op = "create" /\ m.id = c /\ m.step = "delete" /\ m.http = "queued"
    <3>1. a \in Jobs /\ a.op = "create" /\ a.id = c /\ a.step = "delete" /\ a.http = "queued"
      BY <1>1, AwaitJob DEF Steps, PostAnswered
    <3> HIDE DEF a
    <3> QED
      BY <3>1 DEF Jobs
  <2> HIDE DEF c, m
  <2>4. WritesTypeOK' /\ JobShape'
    BY <1>1, <2>1, <2>2, <2>3 DEF WritesTypeOK, JobShape
  <2>5. OneOwner'
    BY <1>1, <1>3, <2>1, <2>3 DEF OneOwner
  <2>6. CreateState'
    BY <1>1, <1>3, <2>1, <2>2, <2>3 DEF CreateState, Creating, Deleting, JobShape, WritesTypeOK
  <2>7. DeleteState' /\ Registered'
    BY <1>1, <1>2, <1>3, <2>1, <2>2, <2>3 DEF DeleteState, Registered, JobShape, WritesTypeOK, c, Jobs, Ops, Deleting
  <2>8. OrderState'
    BY <1>1, <1>2, <1>3, <2>1, <2>2 DEF OrderState, WritesTypeOK, c
  <2>9. CancelledMeansGone'
    BY <1>1, <1>2, <2>1, <2>2 DEF CancelledMeansGone, WritesTypeOK
  <2> QED
    BY <2>4, <2>5, <2>6, <2>7, <2>8, <2>9
<1> QED
  BY <1>4, <1>5, <1>6

\* a DELETE begins for an order that has a venue id and none under way
LEMMA NewCancelJob ==
  ASSUME NEW c \in Coids
  PROVE  LET k == Await(NewJob("cancel", c), "delete")
         IN k \in Jobs /\ k.op = "cancel" /\ k.id = c /\ k.step = "delete" /\ k.http = "queued"
<1>1. NewJob("cancel", c) \in Jobs /\ NewJob("cancel", c).op = "cancel" /\ NewJob("cancel", c).id = c
  BY NewJobJob DEF Ops
<1> QED
  BY <1>1, AwaitJob DEF Steps

\* The core cancels an order: at once, or once its create is over.
LEMMA CancelOwned ==
  ASSUME Owned, NEW c \in Coids, _cancel_rest_async(c) PROVE Owned'
<1> USE DEF Owned
<1>1. /\ core[c] = "live" /\ UNCHANGED <<venue, rest_book, inflight, told>>
      /\ acquire_async(CostCancel, TRUE, FALSE)
  BY DEF _cancel_rest_async, CancelDeferred, world
<1>2. tokens' \in Int /\ sent' \in Int
  BY <1>1, AcquireType, CostTypes DEF WritesTypeOK
<1>3. rest_book[c] \in {"unseen", "live"}
  BY <1>1 DEF OrderState
<1>4. CASE CancelDeferred(c)
  <2>1. /\ pending' = pending \cup {c} /\ core' = [core EXCEPT ![c] = "dropped"]
        /\ UNCHANGED <<jobs, oids>>
    BY <1>4 DEF CancelDeferred
  <2>2. WritesTypeOK' /\ JobShape' /\ OneOwner' /\ Registered'
    BY <1>1, <1>2, <2>1 DEF WritesTypeOK, JobShape, OneOwner, Registered
  <2>3. CreateState' /\ DeleteState'
    BY <1>1, <2>1 DEF CreateState, DeleteState, WritesTypeOK, Creating, JobShape
  <2>4. OrderState' /\ CancelledMeansGone'
    BY <1>1, <2>1 DEF OrderState, CancelledMeansGone, WritesTypeOK
  <2> QED
    BY <2>2, <2>3, <2>4
<1>5. CASE /\ HasVenueId(c) /\ c \notin oids
           /\ jobs' = jobs \cup {Await(NewJob("cancel", c), "delete")}
           /\ oids' = oids \cup {c}
           /\ core' = [core EXCEPT ![c] = "cancelling"]
           /\ UNCHANGED pending
  <2>1. rest_book[c] = "live"
    BY <1>3, <1>5 DEF HasVenueId
  <2>2. \A k \in jobs : k.op # "wing" => k.id # c
    BY <1>5, <2>1 DEF CreateState, DeleteState, JobShape, Creating, WritesTypeOK, Jobs, Ops
  <2>3. PICK k \in Jobs : /\ jobs' = jobs \cup {k} /\ k.op = "cancel" /\ k.id = c
                          /\ k.step = "delete" /\ k.http = "queued"
    BY <1>5, NewCancelJob
  <2>4. WritesTypeOK' /\ JobShape'
    BY <1>1, <1>2, <1>5, <2>3 DEF WritesTypeOK, JobShape, Deleting
  <2>5. OneOwner'
    BY <2>2, <2>3 DEF OneOwner
  <2>6. CreateState'
    BY <1>1, <1>5, <2>2, <2>3 DEF CreateState, Creating, Deleting, WritesTypeOK, JobShape
  <2>7. DeleteState' /\ Registered'
    BY <1>1, <1>5, <2>1, <2>3 DEF DeleteState, Registered, Deleting
  <2>8. OrderState' /\ CancelledMeansGone'
    BY <1>1, <1>5, <2>3 DEF OrderState, CancelledMeansGone, WritesTypeOK
  <2> QED
    BY <2>4, <2>5, <2>6, <2>7, <2>8
<1>6. CASE /\ HasVenueId(c) /\ c \in oids
           /\ core' = [core EXCEPT ![c] = "cancelling"]
           /\ UNCHANGED <<jobs, pending, oids>>
  <2>1. rest_book[c] = "live"
    BY <1>3, <1>6 DEF HasVenueId
  <2>2. WritesTypeOK' /\ JobShape' /\ OneOwner' /\ Registered'
    BY <1>1, <1>2, <1>6 DEF WritesTypeOK, JobShape, OneOwner, Registered
  <2>3. CreateState' /\ DeleteState'
    BY <1>1, <1>6, <2>1 DEF CreateState, DeleteState, WritesTypeOK, Creating, JobShape
  <2>4. OrderState' /\ CancelledMeansGone'
    BY <1>1, <1>6 DEF OrderState, CancelledMeansGone, WritesTypeOK
  <2> QED
    BY <2>2, <2>3, <2>4
<1> QED
  BY <1>4, <1>5, <1>6 DEF _cancel_rest_async

\* A cancel looks at the answer to its DELETE: gone, filled, retried or given up.
LEMMA ResolveOwned ==
  ASSUME Owned, NEW j \in jobs, _delete_and_resolve_async(j) PROVE Owned'
<1> DEFINE c == j.id
<1>1. /\ j.step = "delete" /\ j.http = "answered" /\ Deleting(j) /\ j \in Jobs
      /\ UNCHANGED <<venue, pending, tokens, sent>> /\ tokens \in Int /\ sent \in Int
  BY DEF _delete_and_resolve_async, pacer, Deleting, Owned, WritesTypeOK
<1>2. j.op # "wing" /\ c \in Coids
  BY <1>1 DEF Owned, JobShape, WritesTypeOK, Jobs, Ops
<1>3. c \in oids /\ rest_book[c] \in {"live", "hit", "cancel_failed"} /\ (j.ans = "ok" => venue[c] = "gone")
  BY <1>1 DEF Owned, DeleteState
<1>4. \A k \in jobs \ {j} : k.op # "wing" => k.id # c
  BY <1>2 DEF Owned, OneOwner
<1>5. ASSUME NEW filled \in {"none", "all"}, NEW status \in {"cancelled", "filled", "cancel_failed"},
             rest_book' = [rest_book EXCEPT ![c] = status], OrderCancelled(c, filled),
             oids' = oids \ {c}, inflight' = inflight \ {c}, jobs' = jobs \ {j},
             status = "cancelled" => venue[c] # "resting",
             status = "filled" => venue[c] = "filled",
             filled = "none" => venue[c] \notin {"resting", "filled"} \/ status = "cancel_failed"
      PROVE  Owned'
  <2> HIDE DEF c
  <2>1. /\ told' = [told EXCEPT ![c] = filled]
        /\ core' = [core EXCEPT ![c] = IF @ = "dropped" THEN @ ELSE "off"]
    BY <1>5 DEF OrderCancelled
  <2>2. WritesTypeOK' /\ JobShape' /\ OneOwner'
    BY <1>1, <1>2, <1>5, <2>1 DEF Owned, WritesTypeOK, JobShape, OneOwner
  <2>3. CreateState'
    BY <1>1, <1>2, <1>4, <1>5, <2>1 DEF Owned, CreateState, Creating, JobShape, WritesTypeOK
  <2>4. DeleteState'
    BY <1>1, <1>2, <1>4, <1>5 DEF Owned, DeleteState, Deleting, JobShape, WritesTypeOK
  <2>5. Registered'
    BY <1>1, <1>2, <1>5 DEF Owned, Registered, JobShape, WritesTypeOK, Jobs, Ops, c
  <2>6. OrderState'
    BY <1>1, <1>2, <1>3, <1>5, <2>1 DEF Owned, OrderState, WritesTypeOK, PostAnswered
  <2>7. CancelledMeansGone'
    BY <1>1, <1>2, <1>5, <2>1 DEF Owned, CancelledMeansGone, WritesTypeOK
  <2> QED
    BY <2>2, <2>3, <2>4, <2>5, <2>6, <2>7 DEF Owned
<1>6. CASE (j.ans = "ok" \/ venue[c] # "resting") /\ _finish_cancel(j)
  BY <1>1, <1>3, <1>5, <1>6 DEF _finish_cancel
<1>7. CASE jobs' = (jobs \ {j}) \cup {[Sleep(j, "backoff", RetryWait) EXCEPT !.tries = @ + 1]}
           /\ UNCHANGED <<rest_book, told, core, oids, inflight>>
  <2> DEFINE s == Sleep(j, "backoff", RetryWait)  k == [s EXCEPT !.tries = @ + 1]
  <2>1. /\ s \in Jobs /\ s.op = j.op /\ s.id = j.id /\ s.step = "backoff" /\ s.http = "idle"
    BY <1>1, SleepJob, CostTypes DEF Steps
  <2> HIDE DEF s
  <2>2. k \in Jobs /\ k.op = j.op /\ k.id = j.id /\ k.step = "backoff" /\ k.http = "idle"
    BY <2>1 DEF Jobs
  <2>3. jobs' = (jobs \ {j}) \cup {k}
    BY <1>7 DEF s
  <2> HIDE DEF k
  <2> QED
    BY <1>1, <1>2, <1>7, <2>2, <2>3, MoveOwned DEF PostAnswered, Deleting
<1>8. CASE /\ rest_book' = [rest_book EXCEPT ![c] = "cancel_failed"]
           /\ OrderCancelled(c, "none")
           /\ oids' = oids \ {c} /\ inflight' = inflight \ {c}
           /\ jobs' = jobs \ {j}
  BY <1>5, <1>8
<1> QED
  BY <1>6, <1>7, <1>8 DEF _delete_and_resolve_async

\* The stand-down sweep takes over every order that may rest and has no coroutine.
LEMMA SweepOwned ==
  ASSUME Owned, standdown_sweep_async PROVE Owned'
<1> USE DEF Owned
<1> DEFINE T == SweepTargets \ oids
<1>1. /\ jobs' = jobs \cup { Await(NewJob("cancel", c), "delete") : c \in T }
      /\ oids' = oids \cup SweepTargets /\ pending' = pending \cup inflight
      /\ UNCHANGED <<core, told, venue, rest_book, inflight>>
      /\ tokens' = tokens - CostCancel * Cardinality(SweepTargets)
      /\ Leave(CostCancel * Cardinality(SweepTargets), TRUE)
  BY DEF standdown_sweep_async, DeferredCancels, world
<1>2. tokens' \in Int /\ sent' \in Int
  <2>1. Cardinality(SweepTargets) \in Nat
    BY WritesAssumption, FS_Subset, FS_CardinalityType DEF SweepTargets
  <2> QED
    BY <1>1, <2>1, CostTypes DEF Leave, WritesTypeOK
<1>3. /\ SweepTargets \subseteq Coids
      /\ \A c \in SweepTargets : rest_book[c] \in {"live", "hit", "cancel_failed"}
  BY DEF SweepTargets
<1>4. \A k \in jobs : k.op # "wing" => k.id \notin T
  BY <1>3 DEF CreateState, DeleteState, JobShape, Creating, WritesTypeOK, Jobs, Ops
<1>5. /\ jobs \subseteq jobs'
      /\ \A k \in jobs' \ jobs : /\ k \in Jobs /\ k.op = "cancel" /\ k.id \in T /\ k.step = "delete"
                                 /\ k.http = "queued" /\ k = Await(NewJob("cancel", k.id), "delete")
      /\ \A c \in T : \E k \in jobs' : k.id = c /\ k.step = "delete"
  <2>1. \A c \in T : LET k == Await(NewJob("cancel", c), "delete")
                     IN k \in Jobs /\ k.op = "cancel" /\ k.id = c /\ k.step = "delete" /\ k.http = "queued"
    BY <1>3, NewCancelJob
  <2> HIDE DEF T
  <2> QED
    BY <1>1, <2>1
<1>6. \A c \in SweepTargets \cap oids : \E k \in jobs : k.id = c /\ Deleting(k)
  BY DEF Registered
<1> HIDE DEF T
<1>7. WritesTypeOK' /\ JobShape'
  BY <1>1, <1>2, <1>3, <1>5, SMTT(20) DEF WritesTypeOK, JobShape, Deleting, T
<1>8. OneOwner'
  BY <1>4, <1>5 DEF OneOwner
<1>9. CreateState'
  BY <1>1, <1>3, <1>5 DEF CreateState, Creating, Deleting, PostAnswered
<1>10. DeleteState'
  BY <1>1, <1>3, <1>5 DEF DeleteState, Deleting, T
<1>11. Registered'
  BY <1>1, <1>5, <1>6 DEF Registered, Deleting, T
<1>12. OrderState' /\ CancelledMeansGone'
  BY <1>1, <1>5 DEF OrderState, CancelledMeansGone
<1> QED
  BY <1>7, <1>8, <1>9, <1>10, <1>11, <1>12


\* a wing take goes on, begins or ends: no resting order is concerned
LEMMA WingOwned ==
  ASSUME Owned, NEW j, j \in jobs => j.op = "wing", NEW M \in SUBSET Jobs,
         \A k \in M : k.op = "wing" /\ k.step \in {"paced", "post", "throttled"},
         jobs' = (jobs \ {j}) \cup M,
         UNCHANGED <<core, told, venue, rest_book, inflight, pending, oids>>,
         tokens' \in Int, sent' \in Int
  PROVE  Owned'
<1> USE DEF Owned
<1>1. WritesTypeOK' /\ JobShape'
  BY DEF WritesTypeOK, JobShape
<1>2. OneOwner'
  BY DEF OneOwner
<1>3. CreateState' /\ DeleteState'
  BY DEF CreateState, DeleteState, Creating, Deleting, PostAnswered
<1>4. Registered' /\ OrderState' /\ CancelledMeansGone'
  BY DEF Registered, OrderState, CancelledMeansGone, Deleting, PostAnswered, JobShape
<1> QED
  BY <1>1, <1>2, <1>3, <1>4

\* The smaller of two integers.
LEMMA MinOfTwo ==
  ASSUME NEW a \in Int, NEW b \in Int
  PROVE  Min({a, b}) \in {a, b} /\ Min({a, b}) <= a /\ Min({a, b}) <= b
<1>1. \E x \in {a, b} : \A y \in {a, b} : x <= y
  <2>1. CASE a <= b
    BY <2>1
  <2>2. CASE b <= a
    BY <2>2
  <2> QED
    BY <2>1, <2>2
<1> QED
  BY <1>1 DEF Min

\* The larger of two integers.
LEMMA MaxOfTwo ==
  ASSUME NEW a \in Int, NEW b \in Int
  PROVE  Max({a, b}) \in {a, b} /\ Max({a, b}) >= a /\ Max({a, b}) >= b
<1>1. \E x \in {a, b} : \A y \in {a, b} : x >= y
  <2>1. CASE a <= b
    BY <2>1
  <2>2. CASE b <= a
    BY <2>2
  <2> QED
    BY <2>1, <2>2
<1> QED
  BY <1>1 DEF Max

\* Both are integers.
LEMMA MinMaxInt == \A a, b \in Int : Min({a, b}) \in Int /\ Max({a, b}) \in Int
  BY MinOfTwo, MaxOfTwo

\* the number of orders of a sub-batch
LEMMA SubBatchInt == \A i \in Int : SubBatch(i) \in Int
<1>0. WingBatchMax \in Int /\ 1 \in Int
  BY WritesAssumption
<1>1. Size \div CostCreate \in Int
  BY WriterAssumption
<1>2. Min({WingBatchMax, Size \div CostCreate}) \in Int
  BY <1>1, MinMaxInt, <1>0, Zenon
<1>3. wing_batch_max_orders \in Int
  BY <1>0, <1>2, MinMaxInt, Zenon DEF wing_batch_max_orders
<1> TAKE i \in Int
<1>4. WingOrders - (i - 1) * wing_batch_max_orders \in Int
  BY <1>3, WritesAssumption
<1> QED
  BY <1>3, <1>4, MinMaxInt, Zenon DEF SubBatch

\* A wing's sub-batch is sent, or slept for.
LEMMA SendOwned ==
  ASSUME Owned, NEW j \in Jobs, j.op = "wing", NEW i \in Int, SendSubBatch(j, i),
         UNCHANGED <<core, told, world, exec>>
  PROVE  Owned'
<1> DEFINE cost == CostCreate * SubBatch(i)
           w == PaceWait(cost, TRUE, i > 1)
           b == [j EXCEPT !.batch = i, !.tries = 0]
           k == IF w > 0 THEN Sleep(b, "paced", w) ELSE Await(b, "post")
<1>1. cost \in Int
  BY SubBatchInt, CostTypes
<1>2. acquire_async(cost, TRUE, i > 1) /\ jobs' = (jobs \ {j}) \cup {k}
  BY DEF SendSubBatch
<1> HIDE DEF cost
<1>3. tokens' \in Int /\ sent' \in Int /\ w \in Int
  BY <1>1, <1>2, AcquireType DEF Owned, WritesTypeOK
<1>4. b \in Jobs /\ b.op = "wing"
  <2>1. 0 \in Int
    OBVIOUS
  <2> QED
    BY <2>1 DEF Jobs
<1> HIDE DEF b, w
<1>5. k \in Jobs /\ k.op = "wing" /\ k.step \in {"paced", "post"}
  <2>1. "paced" \in Steps /\ "post" \in Steps
    BY DEF Steps
  <2>2. CASE w > 0
    <3>1. w \in Int
      BY <1>3
    <3>2. LET s == Sleep(b, "paced", w) IN s \in Jobs /\ s.op = b.op /\ s.step = "paced"
      BY <1>4, <2>1, <3>1, SleepJob
    <3> QED
      BY <1>4, <2>2, <3>2
  <2>3. CASE ~(w > 0)
    BY <1>4, <2>1, <2>3, AwaitJob
  <2> QED
    BY <2>2, <2>3
<1>6. UNCHANGED <<core, told, venue, rest_book, inflight, pending, oids>>
  BY DEF world, exec
<1> HIDE DEF k
<1> QED
  BY <1>2, <1>3, <1>5, <1>6, WingOwned

\* The wings of a fill are bought: the first sub-batch.
LEMMA TakeOwned ==
  ASSUME Owned, NEW w \in Wings, _take_wings_send(w) PROVE Owned'
<1>1. NewJob("wing", w) \in Jobs /\ NewJob("wing", w).op = "wing"
  BY NewJobJob DEF Ops
<1>2. SendSubBatch(NewJob("wing", w), 1) /\ UNCHANGED <<core, told, world, exec>>
  BY DEF _take_wings_send
<1> QED
  BY <1>1, <1>2, SendOwned

\* The next sub-batch of a wing.
LEMMA NextBatchOwned ==
  ASSUME Owned, NEW j \in jobs, NextSubBatch(j) PROVE Owned'
<1>1. j \in Jobs /\ j.op = "wing" /\ j.batch + 1 \in Int /\ tokens \in Int /\ sent \in Int
  BY DEF NextSubBatch, Owned, WritesTypeOK, Jobs
<1>2. UNCHANGED <<core, told, world, exec>>
  BY DEF NextSubBatch
<1>3. CASE SendSubBatch(j, j.batch + 1)
  BY <1>1, <1>2, <1>3, SendOwned
<1>4. CASE jobs' = jobs \ {j} /\ UNCHANGED pacer
  <2> DEFINE M == {}
  <2>1. jobs' = (jobs \ {j}) \cup M /\ M \in SUBSET Jobs
    BY <1>4
  <2>2. tokens' \in Int /\ sent' \in Int
    BY <1>1, <1>4 DEF pacer
  <2>3. UNCHANGED <<core, told, venue, rest_book, inflight, pending, oids>>
    BY <1>2 DEF world, exec
  <2>4. \A k \in M : k.op = "wing" /\ k.step \in {"paced", "post", "throttled"}
    OBVIOUS
  <2> HIDE DEF M
  <2> QED
    BY <1>1, <2>1, <2>2, <2>3, <2>4, WingOwned
<1> QED
  BY <1>3, <1>4 DEF NextSubBatch

\* time passes: the coroutines sleep less, and stay where they are
LEMMA TimeOwned ==
  ASSUME Owned, Time PROVE Owned'
<1> USE DEF Owned
<1> DEFINE Slept(j) == [j EXCEPT !.wait = IF @ > 0 THEN @ - 1 ELSE 0]
<1>1. /\ jobs' = { Slept(j) : j \in jobs }
      /\ UNCHANGED <<core, told, venue, rest_book, inflight, pending, oids>>
      /\ tokens' = Min({Size, tokens + 1}) /\ sent' = Min({Size, sent + 1})
  BY DEF Time, Tick, _refill, world, exec
<1>2. tokens' \in Int /\ sent' \in Int
  <2>1. Size \in Int /\ tokens + 1 \in Int /\ sent + 1 \in Int
    BY WriterAssumption DEF WritesTypeOK
  <2> QED
    BY <1>1, <2>1, MinMaxInt, Zenon
<1>3. \A j \in jobs : /\ Slept(j) \in Jobs /\ Slept(j).op = j.op /\ Slept(j).id = j.id
                      /\ Slept(j).step = j.step /\ Slept(j).http = j.http /\ Slept(j).ans = j.ans
  BY DEF WritesTypeOK, Jobs
<1> HIDE DEF Slept
<1>4. WritesTypeOK' /\ JobShape'
  BY <1>1, <1>2, <1>3 DEF WritesTypeOK, JobShape, Deleting
<1>5. OneOwner'
  BY <1>1, <1>3 DEF OneOwner
<1>6. CreateState'
  BY <1>1, <1>3 DEF CreateState, Creating, Deleting, PostAnswered
<1>7. DeleteState'
  BY <1>1, <1>3 DEF DeleteState, Deleting
<1>8. Registered'
  BY <1>1, <1>3 DEF Registered, Deleting
<1>9. OrderState' /\ CancelledMeansGone'
  BY <1>1, <1>3 DEF OrderState, CancelledMeansGone, PostAnswered
<1> QED
  BY <1>4, <1>5, <1>6, <1>7, <1>8, <1>9

\* A stuttering step keeps the invariant.
LEMMA StutterOwned == Owned /\ UNCHANGED vars => Owned'
  BY DEF vars, exec, Owned, WritesTypeOK, JobShape, OneOwner, CreateState, DeleteState, Registered,
         OrderState, CancelledMeansGone, Creating, PostAnswered, Deleting

\* Every step keeps the invariant.
LEMMA NextOwned == Owned /\ [Next]_vars => Owned'
<1> SUFFICES ASSUME Owned, [Next]_vars PROVE Owned'
  OBVIOUS
<1>1. CASE Dispatch
  BY <1>1, RunOwned DEF Dispatch
<1>2. CASE Core
  BY <1>2, PlaceOwned, CancelOwned, TakeOwned DEF Core
<1>3. CASE Venue
  BY <1>3, BootOwned, FillOwned DEF Venue
<1>4. CASE Proxy
  BY <1>4, PostOwned, DeleteTripOwned, GetOwned DEF Proxy
<1>5. CASE Loop
  BY <1>5, OnFillOwned, CheckOwned, StrayCancelledOwned, PlacedOwned, ResolveOwned, NextBatchOwned,
     ThrottledOwned, WakesOwned, SweepOwned DEF Loop
<1>6. CASE Time
  BY <1>6, TimeOwned
<1>7. CASE UNCHANGED vars
  BY <1>7, StutterOwned
<1> QED
  BY <1>1, <1>2, <1>3, <1>4, <1>5, <1>6, <1>7 DEF Next

\* Whatever the orders, strays, workers, retries and faults: an order the core was told is cancelled
\* in full does not rest at the exchange (_finish_cancel and the resolution of a DELETE).
THEOREM CancelledMeansGoneTheorem == Spec => []CancelledMeansGone
<1>1. Owned => CancelledMeansGone
  BY DEF Owned
<1> QED
  BY <1>1, InitOwned, NextOwned, PTL DEF Spec


-----------------------------------------------------------------------------
(* The stand-down sweep leaves nothing behind *)

\* after the sweep every create in flight is to be cancelled, and every order that
\* may rest has a DELETE under way
Swept ==
  swept => /\ stand_down # "no" /\ inflight \subseteq pending \cup oids
           /\ \A c \in Coids : rest_book[c] \in {"live", "hit"} => c \in oids

\* the steps that touch none of the registers the sweep is about
LEMMA SweptFrame ==
  ASSUME Swept, UNCHANGED <<swept, stand_down, inflight, pending, oids, rest_book>> PROVE Swept'
  BY DEF Swept

\* After the sweep nothing is placed any more.
LEMMA PlaceSwept ==
  ASSUME Owned, Swept, NEW c \in Coids, _place_rest_async(c) PROVE Swept'
<1>1. UNCHANGED <<rest_book, pending, oids, stand_down, swept>>
  BY DEF _place_rest_async
<1>2. UNCHANGED inflight \/ stand_down = "no"
  BY DEF _place_rest_async
<1> QED
  BY <1>1, <1>2 DEF Swept

\* A cancel adds to what is being cancelled.
LEMMA CancelSwept ==
  ASSUME Owned, Swept, NEW c \in Coids, _cancel_rest_async(c) PROVE Swept'
<1>1. /\ pending \subseteq pending' /\ oids \subseteq oids'
      /\ UNCHANGED <<rest_book, inflight, stand_down, swept>>
  BY DEF _cancel_rest_async, CancelDeferred
<1> QED
  BY <1>1 DEF Swept

\* A create given up leaves both registers at once.
LEMMA SkipSwept ==
  ASSUME Owned, Swept, NEW j, _skip_before_post(j), UNCHANGED <<rest_book, oids, stand_down, swept>>
  PROVE  Swept'
<1>1. \/ UNCHANGED <<pending, inflight>>
      \/ pending' = pending \ {j.id} /\ inflight' = inflight \ {j.id}
  BY DEF _skip_before_post
<1> QED
  BY <1>1 DEF Swept

\* The pre-place check ends the create or leaves the registers alone.
LEMMA CheckSwept ==
  ASSUME Owned, Swept, NEW j \in jobs, _pre_place_invariant_async(j) PROVE Swept'
<1>1. UNCHANGED <<rest_book, oids, swept>>
  BY DEF _pre_place_invariant_async
<1>2. \/ _skip_before_post(j) /\ UNCHANGED stand_down
      \/ UNCHANGED <<pending, inflight, stand_down>>
      \/ /\ StandDown("rest_invariant_violation")
         /\ pending' = pending \ {j.id} /\ inflight' = inflight \ {j.id}
  BY DEF _pre_place_invariant_async
<1>3. CASE _skip_before_post(j) /\ UNCHANGED stand_down
  BY <1>1, <1>3, SkipSwept
<1>4. CASE UNCHANGED <<pending, inflight, stand_down>>
  BY <1>1, <1>4 DEF Swept
<1>5. CASE /\ StandDown("rest_invariant_violation")
           /\ pending' = pending \ {j.id} /\ inflight' = inflight \ {j.id}
  BY <1>1, <1>5 DEF Swept, StandDown
<1> QED
  BY <1>2, <1>3, <1>4, <1>5

\* So does the cancel of a stray.
LEMMA StrayCancelledSwept ==
  ASSUME Owned, Swept, NEW j \in jobs, _cancel_stray_async(j) PROVE Swept'
<1>1. /\ UNCHANGED <<rest_book, oids, stand_down, swept>>
      /\ _skip_before_post(j) \/ UNCHANGED <<pending, inflight>>
  BY DEF _cancel_stray_async
<1> QED
  BY <1>1, SkipSwept, SweptFrame

\* A create that came to rest after the sweep is handed to its deferred cancel.
LEMMA PlacedSwept ==
  ASSUME Owned, Swept, NEW j \in jobs, _place_rest_inflight_async(j) PROVE Swept'
<1> DEFINE c == j.id
<1>1. /\ Creating(j) /\ c \in Coids /\ rest_book \in [Coids -> {"unseen", "live", "hit", "cancelled",
             "filled", "cancel_failed", "unknown"}]
  BY DEF _place_rest_inflight_async, Creating, Deleting, Owned, JobShape, WritesTypeOK
<1>2. c \in inflight /\ c \notin oids /\ rest_book[c] = "unseen"
  BY <1>1 DEF Owned, CreateState
<1>3. /\ pending' = pending \ {c} /\ swept' = swept
      /\ rest_book' = [rest_book EXCEPT ![c] =
           CASE j.ans = "ok" -> "live" [] j.ans = "lost" -> "unknown" [] OTHER -> @]
      /\ stand_down # "no" => stand_down' # "no"
  BY DEF _place_rest_inflight_async, StandDown
<1>4. \/ j.ans # "ok" /\ inflight' = inflight \ {c} /\ UNCHANGED oids
      \/ j.ans = "ok" /\ c \notin pending /\ inflight' = inflight \ {c} /\ UNCHANGED oids
      \/ j.ans = "ok" /\ c \in pending /\ oids' = oids \cup {c} /\ UNCHANGED inflight
  BY DEF _place_rest_inflight_async
<1> HIDE DEF c
<1> SUFFICES ASSUME swept PROVE Swept'
  BY <1>3 DEF Swept
<1>5. c \in pending
  BY <1>2 DEF Swept
<1>6. inflight' \subseteq pending' \cup oids'
  BY <1>3, <1>4, <1>5 DEF Swept
<1>7. \A d \in Coids : rest_book'[d] \in {"live", "hit"} => d \in oids'
  BY <1>1, <1>2, <1>3, <1>4, <1>5 DEF Swept
<1> QED
  BY <1>3, <1>6, <1>7 DEF Swept

\* A cancel leaves the register only with its order, or ends the hour.
LEMMA ResolveSwept ==
  ASSUME Owned, Swept, NEW j \in jobs, _delete_and_resolve_async(j) PROVE Swept'
<1>1. /\ UNCHANGED <<pending, swept>>
      /\ stand_down # "no" => stand_down' # "no"
      /\ \/ UNCHANGED <<rest_book, oids, inflight>>
         \/ /\ oids' = oids \ {j.id} /\ inflight' = inflight \ {j.id}
            /\ \E s \in {"filled", "cancelled", "cancel_failed"} : rest_book' = [rest_book EXCEPT ![j.id] = s]
  BY DEF _delete_and_resolve_async, _finish_cancel, StandDown
<1>2. rest_book \in [Coids -> {"unseen", "live", "hit", "cancelled", "filled", "cancel_failed", "unknown"}]
  BY DEF Owned, WritesTypeOK
<1>3. CASE UNCHANGED <<rest_book, oids, inflight>>
  BY <1>1, <1>3 DEF Swept
<1>4. ASSUME NEW s \in {"filled", "cancelled", "cancel_failed"},
             rest_book' = [rest_book EXCEPT ![j.id] = s],
             oids' = oids \ {j.id}, inflight' = inflight \ {j.id}
      PROVE  Swept'
  <2>1. \A c \in Coids : rest_book'[c] \in {"live", "hit"} => rest_book[c] \in {"live", "hit"} /\ c # j.id
    BY <1>2, <1>4
  <2> QED
    BY <1>1, <1>4, <2>1 DEF Swept
<1> QED
  BY <1>1, <1>3, <1>4

\* The sweep establishes the invariant.
LEMMA SweepSwept ==
  ASSUME Owned, Swept, standdown_sweep_async PROVE Swept'
<1>1. /\ stand_down' # "no" /\ pending' = pending \cup inflight /\ oids' = oids \cup SweepTargets
      /\ UNCHANGED <<rest_book, inflight>>
  BY DEF standdown_sweep_async, DeferredCancels
<1> QED
  BY <1>1 DEF Swept, SweepTargets

\* Every step keeps it.
LEMMA NextSwept == Owned /\ Swept /\ [Next]_vars => Swept'
<1> SUFFICES ASSUME Owned, Swept, [Next]_vars PROVE Swept'
  OBVIOUS
<1>1. CASE Dispatch
  BY <1>1, SweptFrame DEF Dispatch, exec
<1>2. CASE Core
  BY <1>2, PlaceSwept, CancelSwept, SweptFrame DEF Core, _take_wings_send, exec
<1>3. CASE Venue
  BY <1>3, SweptFrame DEF Venue, cancel_stale_open_orders, VenueFill, exec
<1>4. CASE Proxy
  BY <1>4, SweptFrame DEF Proxy, rest_post, rest_delete, rest_get, exec
<1>5. CASE \E c \in Coids : on_fill(c)
  <2>1. PICK c \in Coids : on_fill(c)
    BY <1>5
  <2>2. /\ rest_book[c] = "live" /\ rest_book' = [rest_book EXCEPT ![c] = "hit"]
        /\ UNCHANGED <<swept, stand_down, inflight, pending, oids>>
    BY <2>1 DEF on_fill
  <2> QED
    BY <2>2 DEF Swept, Owned, WritesTypeOK
<1>6. CASE Loop /\ ~ \E c \in Coids : on_fill(c)
  BY <1>6, CheckSwept, StrayCancelledSwept, PlacedSwept, ResolveSwept, SweepSwept, SweptFrame
  DEF Loop, NextSubBatch, _apost, Wake, exec
<1>7. CASE Time \/ UNCHANGED vars
  BY <1>7, SweptFrame DEF Time, vars, exec
<1> QED
  BY <1>1, <1>2, <1>3, <1>4, <1>5, <1>6, <1>7 DEF Next

\* Once the coroutines have run out, what still rests is what the executor could not cancel.
LEMMA SweptLeavesNothing == Owned /\ Swept => NothingLeftResting
<1> SUFFICES ASSUME Owned, Swept, swept, jobs = {}, NEW c \in Coids, venue[c] = "resting"
    PROVE  rest_book[c] \in {"unknown", "cancel_failed"}
  BY DEF NothingLeftResting
<1>1. rest_book[c] \notin {"live", "hit"}
  BY DEF Swept, Owned, Registered
<1>2. rest_book[c] \notin {"unseen", "cancelled", "filled"}
  BY DEF Owned, OrderState
<1> QED
  BY <1>1, <1>2 DEF Owned, WritesTypeOK

\* When the stand-down sweep has been made and its coroutines have ended, no order of this process
\* rests at the exchange but those the executor recorded as unknown or as not cancelled
\* (standdown_sweep_async), whatever was in flight when it began.
THEOREM NothingLeftRestingTheorem == Spec => []NothingLeftResting
<1>1. Init => Swept
  BY DEF Init, Swept
<1> QED
  BY <1>1, InitOwned, NextOwned, NextSwept, SweptLeavesNothing, PTL DEF Spec


-----------------------------------------------------------------------------
(* The pre-place check accuses only when something may be in the way *)

Live == { c \in Coids : core[c] = "live" }

\* something the check may rightly stumble over, for good: an earlier process's
\* order, or a create the core cancelled before it was answered
Excused == (\E o \in Strays : venue[o] # "none") \/ (\E c \in Coids : core[c] = "dropped")

\* a list has come back that the coroutine has not looked at
Checking(j) == j.op = "create" /\ j.step \in {"list", "relist"} /\ j.http = "answered"

\* what is left of the list leaves room for the order, at its price
Fits(j) ==
  LET S == _exclude_cancelling(j.seen) IN
  S \subseteq Coids /\ Cardinality(S) < K /\ \A o \in S : Price[o] # Price[j.id]

LadderKept ==
  /\ ladder \in Ladders /\ Cardinality(Live) <= K
  /\ \A c, d \in Coids : core[c] \in {"live", "cancelling"} /\ core[d] \in {"live", "cancelling"}
                         /\ Price[c] = Price[d] => c = d

\* an order the executor holds live is so to the core, unless its cancel is under way
LiveKnown ==
  \A c \in Coids : rest_book[c] = "live" =>
    core[c] \in {"live", "dropped"} \/ (core[c] = "cancelling" /\ c \in oids)

Untroubled == stand_down = "no" => \A c \in Coids : rest_book[c] \notin {"unknown", "cancel_failed"}
Blamed == stand_down = "rest_invariant_violation" => Excused
SeenFits == stand_down = "no" /\ ~Excused => \A j \in jobs : Checking(j) => Fits(j)

Fair == LadderKept /\ LiveKnown /\ Untroubled /\ Blamed /\ SeenFits


\* a step that places nothing and reads no list
LEMMA FairStep ==
  ASSUME Owned, Fair, UNCHANGED ladder,
         core' \in [Coids -> {"new", "live", "cancelling", "dropped", "off"}], oids' \subseteq Coids,
         \A c \in Coids : core'[c] = "live" => core[c] = "live",
         \A c \in Coids : core'[c] = "cancelling" => core[c] \in {"live", "cancelling"},
         \A c \in Coids : core[c] = "dropped" => core'[c] = "dropped",
         \A o \in Strays : venue[o] # "none" => venue'[o] # "none",
         stand_down # "no" => stand_down' = stand_down,
         stand_down' = "rest_invariant_violation" => stand_down = "rest_invariant_violation" \/ Excused,
         stand_down' = "no" => \A c \in Coids : rest_book'[c] \in {"unknown", "cancel_failed"}
                                                => rest_book[c] \in {"unknown", "cancel_failed"},
         stand_down' = "no" => \A c \in Coids : c \in oids \/ rest_book[c] \in {"cancelled", "filled"}
                                                => c \in oids' \/ rest_book'[c] \in {"cancelled", "filled"},
         LiveKnown',
         \A j \in jobs' : Checking(j) => \E i \in jobs : Checking(i) /\ i.seen = j.seen /\ i.id = j.id
  PROVE  Fair'
<1>1. IsFiniteSet(Coids) /\ K \in Nat /\ K' = K /\ Price' = Price
  BY WritesAssumption DEF Fair, LadderKept, K, Price
<1>2. Excused => Excused'
  BY DEF Excused
<1>3. LadderKept'
  <2>1. Live' \subseteq Live /\ Live \subseteq Coids
    BY DEF Live
  <2>2. Cardinality(Live') <= Cardinality(Live) /\ Cardinality(Live) \in Nat /\ Cardinality(Live') \in Nat
    BY <1>1, <2>1, FS_Subset, FS_CardinalityType
  <2>3. Cardinality(Live') <= K
    BY <1>1, <2>2 DEF Fair, LadderKept
  <2>4. \A c \in Coids : core'[c] \in {"live", "cancelling"} => core[c] \in {"live", "cancelling"}
    OBVIOUS
  <2> QED
    BY <1>1, <2>3, <2>4 DEF Fair, LadderKept
<1>4. Untroubled' /\ Blamed'
  BY <1>2 DEF Fair, Untroubled, Blamed
<1>5. SeenFits'
  <2> SUFFICES ASSUME stand_down' = "no", ~Excused', NEW j \in jobs', Checking(j) PROVE Fits(j)'
    BY DEF SeenFits, Checking
  <2>1. PICK i \in jobs : Checking(i) /\ i.seen = j.seen /\ i.id = j.id
    OBVIOUS
  <2> DEFINE S == _exclude_cancelling(i.seen)  R == _exclude_cancelling(j.seen)'
  <2>2. Fits(i)
    BY <1>2, <2>1 DEF Fair, SeenFits
  <2>3. S \subseteq Coids /\ Cardinality(S) < K /\ \A o \in S : Price[o] # Price[i.id]
    BY <2>2 DEF Fits
  <2>4. i.seen \subseteq Orders
    BY <2>1 DEF Owned, WritesTypeOK, Jobs
  <2>5. R \subseteq S
    BY <2>1, <2>4, WritesAssumption DEF _exclude_cancelling, Orders, Owned, WritesTypeOK
  <2> HIDE DEF S, R
  <2>6. IsFiniteSet(S) /\ Cardinality(R) <= Cardinality(S) /\ Cardinality(S) \in Nat /\ Cardinality(R) \in Nat
    BY <1>1, <2>3, <2>5, FS_Subset, FS_CardinalityType
  <2>7. R \subseteq Coids /\ Cardinality(R) < K' /\ \A o \in R : Price'[o] # Price'[j.id]
    BY <1>1, <2>1, <2>3, <2>5, <2>6
  <2> QED
    BY <2>7 DEF Fits, R
<1> QED
  BY <1>3, <1>4, <1>5 DEF Fair

\* a step of the round trips and of the pacer
LEMMA FairFrame ==
  ASSUME Owned, Fair, UNCHANGED <<ladder, core, rest_book, oids, stand_down>>,
         \A o \in Strays : venue[o] # "none" => venue'[o] # "none",
         \A j \in jobs' : Checking(j) => \E i \in jobs : Checking(i) /\ i.seen = j.seen /\ i.id = j.id
  PROVE  Fair'
<1>1. LiveKnown'
  BY DEF Fair, LiveKnown
<1>2. core' \in [Coids -> {"new", "live", "cancelling", "dropped", "off"}] /\ oids' \subseteq Coids
  BY DEF Owned, WritesTypeOK
<1> QED
  BY <1>1, <1>2, FairStep

\* The core places within its ladder, at a price of its own.
LEMMA PlaceFair ==
  ASSUME Owned, Fair, NEW c \in Coids, _place_rest_async(c) PROVE Fair'
<1>1. /\ core[c] = "new" /\ UNCHANGED <<ladder, venue, rest_book, oids, stand_down>>
      /\ Cardinality(Live) < K
      /\ \A d \in Coids : core[d] \in {"live", "cancelling"} => Price[d] # Price[c]
  BY DEF _place_rest_async, MayPlace, world, Live
<1>2. rest_book[c] = "unseen"
  BY <1>1 DEF Owned, OrderState
<1>3. CASE stand_down # "no" /\ OrderCancelled(c, "none") /\ UNCHANGED jobs
  <2>1. core' = [core EXCEPT ![c] = "off"] /\ UNCHANGED jobs
    BY <1>1, <1>3 DEF OrderCancelled, Owned, WritesTypeOK
  <2>2. LiveKnown' /\ core' \in [Coids -> {"new", "live", "cancelling", "dropped", "off"}] /\ oids' \subseteq Coids
    BY <1>1, <1>2, <2>1 DEF Fair, LiveKnown, Owned, WritesTypeOK
  <2>3. \A d \in Coids : core'[d] = core[d] \/ (d = c /\ core'[d] = "off")
    BY <2>1 DEF Owned, WritesTypeOK
  <2> QED
    BY <1>1, <2>1, <2>2, <2>3, FairStep
<1>4. CASE core' = [core EXCEPT ![c] = "live"] /\ \A j \in jobs' \ jobs : j.http # "answered"
  <2>1. IsFiniteSet(Coids) /\ K \in Nat /\ K' = K /\ Price' = Price
    BY <1>1, WritesAssumption DEF Fair, LadderKept, K, Price
  <2>2. Live' = Live \cup {c} /\ c \notin Live /\ IsFiniteSet(Live)
    <3>1. IsFiniteSet(Live)
      BY <2>1, FS_Subset DEF Live
    <3> QED
      BY <1>1, <1>4, <3>1 DEF Live, Owned, WritesTypeOK
  <2>3. Cardinality(Live') = Cardinality(Live) + 1 /\ Cardinality(Live) \in Nat
    BY <2>2, FS_AddElement, FS_CardinalityType
  <2>4. LadderKept'
    BY <1>1, <1>4, <2>1, <2>3 DEF Fair, LadderKept, Owned, WritesTypeOK
  <2>5. LiveKnown' /\ Untroubled'
    BY <1>1, <1>2, <1>4 DEF Fair, LiveKnown, Untroubled, Owned, WritesTypeOK
  <2>6. Excused <=> Excused'
    BY <1>1, <1>4 DEF Excused, Owned, WritesTypeOK
  <2>7. Blamed'
    BY <1>1, <2>6 DEF Fair, Blamed
  <2>8. SeenFits'
    BY <1>1, <1>4, <2>1, <2>6 DEF Fair, SeenFits, Checking, Fits, _exclude_cancelling
  <2> QED
    BY <2>4, <2>5, <2>7, <2>8 DEF Fair
<1>5. NewJob("create", c).http = "idle"
  BY DEF NewJob
<1>6. \A s, w : /\ Sleep(NewJob("create", c), s, w).http = "idle"
                /\ Await(NewJob("create", c), s).http = "queued"
  BY DEF NewJob, Sleep, Await
<1> QED
  BY <1>3, <1>4, <1>6 DEF _place_rest_async

\* A list that comes back shows, besides what is being cancelled, live orders of this process only.
LEMMA GetFair ==
  ASSUME Owned, Fair, NEW j \in jobs, rest_get(j) PROVE Fair'
<1>1. /\ UNCHANGED <<ladder, core, venue, rest_book, oids, stand_down>>
      /\ j.http = "running" /\ j.step \in {"list", "relist"}
  BY DEF rest_get, exec
<1>2. PICK seen \in SUBSET { o \in Orders : venue[o] = "resting" } : Answer(j, "ok", seen)
  BY DEF rest_get
<1>3. seen \in SUBSET Orders /\ j \in Jobs /\ "ok" \in Answers
  BY <1>2 DEF Owned, WritesTypeOK, Answers
<1>4. PICK k \in Jobs : /\ jobs' = (jobs \ {j}) \cup {k} /\ k.op = j.op /\ k.id = j.id /\ k.seen = seen
  BY <1>2, <1>3, AnswerJob
<1>5. K' = K /\ Price' = Price /\ (Excused' <=> Excused)
  BY <1>1 DEF K, Price, Excused
<1>6. LadderKept' /\ LiveKnown' /\ Untroubled' /\ Blamed'
  BY <1>1, <1>5 DEF Fair, LadderKept, LiveKnown, Untroubled, Blamed, Live
<1>7. ASSUME stand_down = "no", ~Excused, j.op = "create" PROVE Fits(k)'
  <2> DEFINE S == _exclude_cancelling(seen)
  <2>1. j.id \in Coids /\ core[j.id] = "live" /\ venue[j.id] = "none"
    BY <1>1, <1>7 DEF Owned, JobShape, CreateState, Creating, Deleting, PostAnswered, Excused
  <2>2. \A o \in S : o \in Coids /\ core[o] = "live" /\ o # j.id
    <3> SUFFICES ASSUME NEW o \in S PROVE o \in Coids /\ core[o] = "live" /\ o # j.id
      OBVIOUS
    <3>1. o \in Orders /\ venue[o] = "resting" /\ o \notin oids
      BY DEF _exclude_cancelling
    <3>2. o \in Coids /\ o \notin Strays
      BY <1>7, <3>1 DEF Excused, Orders
    <3>3. rest_book[o] \in {"unseen", "live"}
      BY <1>7, <3>1, <3>2 DEF _exclude_cancelling, Fair, Untroubled, Owned, OrderState, WritesTypeOK
    <3>4. CASE rest_book[o] = "live"
      BY <1>7, <2>1, <3>1, <3>2, <3>4 DEF Fair, LiveKnown, Excused
    <3>5. CASE rest_book[o] = "unseen"
      <4>1. PICK i \in jobs : i.id = o /\ PostAnswered(i)
        BY <3>1, <3>2, <3>5 DEF Owned, OrderState
      <4>2. core[o] \in {"live", "dropped"}
        BY <4>1 DEF Owned, CreateState, Creating, Deleting, PostAnswered
      <4> QED
        BY <1>7, <2>1, <3>1, <3>2, <4>2 DEF Excused
    <3> QED
      BY <2>1, <3>1, <3>2, <3>3, <3>4, <3>5
  <2> HIDE DEF S
  <2>3. S \subseteq Live \ {j.id} /\ j.id \in Live /\ Live \subseteq Coids /\ IsFiniteSet(Live)
    BY <2>1, <2>2, FS_Subset, WritesAssumption DEF Live
  <2>4. /\ Cardinality(S) <= Cardinality(Live \ {j.id}) /\ Cardinality(Live \ {j.id}) = Cardinality(Live) - 1
        /\ Cardinality(S) \in Nat /\ Cardinality(Live) \in Nat /\ Cardinality(Live \ {j.id}) \in Nat
    <3>1. IsFiniteSet(Live \ {j.id})
      BY <2>3, FS_RemoveElement
    <3>2. IsFiniteSet(S) /\ Cardinality(S) <= Cardinality(Live \ {j.id})
      BY <2>3, <3>1, FS_Subset
    <3>3. Cardinality(Live \ {j.id}) = Cardinality(Live) - 1
      BY <2>3, FS_RemoveElement
    <3> QED
      BY <2>3, <3>1, <3>2, <3>3, FS_CardinalityType
  <2>5. K \in Nat /\ Cardinality(Live) <= K
    BY WritesAssumption DEF Fair, LadderKept, K
  <2>6. Cardinality(S) < K
    BY <2>4, <2>5
  <2>7. \A o \in S : Price[o] # Price[j.id]
    BY <2>1, <2>2 DEF Fair, LadderKept
  <2>8. _exclude_cancelling(k.seen)' = S
    BY <1>1, <1>4 DEF S, _exclude_cancelling
  <2>9. S \subseteq Coids
    BY <2>2
  <2> QED
    BY <1>4, <1>5, <2>6, <2>7, <2>8, <2>9 DEF Fits
<1>8. SeenFits'
  <2> SUFFICES ASSUME stand_down = "no", ~Excused, NEW i \in jobs', Checking(i) PROVE Fits(i)'
    BY <1>1, <1>5 DEF SeenFits, Checking
  <2>1. CASE i = k
    BY <1>4, <1>7, <2>1 DEF Checking
  <2>2. CASE i \in jobs
    <3>1. Fits(i)
      BY <2>2 DEF Fair, SeenFits
    <3> QED
      BY <1>1, <1>5, <3>1 DEF Fits, _exclude_cancelling
  <2> QED
    BY <1>4, <2>1, <2>2
<1> QED
  BY <1>6, <1>8 DEF Fair


\* The answer to a POST leaves what the core knows alone.
LEMMA PostFair ==
  ASSUME Owned, Fair, NEW j \in jobs, rest_post(j) PROVE Fair'
<1>1. /\ j.step = "post" /\ UNCHANGED <<ladder, core, rest_book, oids, stand_down>>
      /\ venue' = venue \/ (j.op = "create" /\ venue' = [venue EXCEPT ![j.id] = "resting"])
  BY DEF rest_post, exec
<1>2. PICK ans \in Answers : Answer(j, ans, {})
  BY DEF rest_post, Answers
<1>3. PICK k \in Jobs : jobs' = (jobs \ {j}) \cup {k} /\ k.step = j.step
  BY <1>2, AnswerJob DEF Owned, WritesTypeOK
<1>4. \A o \in Strays : venue[o] # "none" => venue'[o] # "none"
  BY <1>1 DEF Owned, WritesTypeOK, Orders
<1> QED
  BY <1>1, <1>3, <1>4, FairFrame DEF Checking

\* The answer to a DELETE leaves what the core knows alone.
LEMMA DeleteTripFair ==
  ASSUME Owned, Fair, NEW j \in jobs, rest_delete(j) PROVE Fair'
<1>1. /\ j.step \in {"delete", "stray"} /\ UNCHANGED <<ladder, core, rest_book, oids, stand_down>>
      /\ \E o \in Slot(j) : venue' = venue \/ venue' = [venue EXCEPT ![o] = "gone"]
  BY DEF rest_delete, exec
<1>2. PICK ans \in Answers : Answer(j, ans, j.seen)
  BY DEF rest_delete, Answers
<1>3. j \in Jobs /\ j.seen \in SUBSET Orders
  BY DEF Owned, WritesTypeOK, Jobs
<1>4. PICK k \in Jobs : jobs' = (jobs \ {j}) \cup {k} /\ k.step = j.step
  BY <1>2, <1>3, AnswerJob
<1>5. \A o \in Strays : venue[o] # "none" => venue'[o] # "none"
  BY <1>1 DEF Owned, WritesTypeOK, Orders
<1> QED
  BY <1>1, <1>4, <1>5, FairFrame DEF Checking

\* Fills and the boot sweep leave what the core knows alone.
LEMMA VenueFair ==
  ASSUME Owned, Fair, Venue PROVE Fair'
<1>1. UNCHANGED <<jobs, ladder, core, rest_book, oids, stand_down>>
  BY DEF Venue, cancel_stale_open_orders, VenueFill, exec
<1>2. \A o \in Strays : venue[o] # "none" => venue'[o] # "none"
  BY DEF Venue, cancel_stale_open_orders, VenueFill, Owned, WritesTypeOK, Orders
<1> QED
  BY <1>1, <1>2, FairFrame

\* A fill takes its order out of the ladder.
LEMMA OnFillFair ==
  ASSUME Owned, Fair, NEW c \in Coids, on_fill(c) PROVE Fair'
<1>1. /\ rest_book[c] = "live" /\ rest_book' = [rest_book EXCEPT ![c] = "hit"]
      /\ core' = [core EXCEPT ![c] = IF @ = "live" THEN "off" ELSE @]
      /\ UNCHANGED <<jobs, ladder, venue, oids, stand_down>>
  BY DEF on_fill, world
<1>2. /\ core' \in [Coids -> {"new", "live", "cancelling", "dropped", "off"}] /\ oids' \subseteq Coids
      /\ \A d \in Coids : core'[d] = core[d] \/ (core[d] = "live" /\ core'[d] = "off")
  BY <1>1 DEF Owned, WritesTypeOK
<1>3. \A d \in Coids : \/ rest_book'[d] = rest_book[d] /\ core'[d] = core[d]
                       \/ rest_book[d] = "live" /\ rest_book'[d] = "hit"
  BY <1>1 DEF Owned, WritesTypeOK
<1>4. LiveKnown'
  BY <1>1, <1>3 DEF Fair, LiveKnown
<1>5. Blamed
  BY DEF Fair
<1> QED
  BY <1>1, <1>2, <1>3, <1>4, <1>5, FairStep DEF Blamed

\* the core is told of an order that the executor does not hold live
LEMMA ToldFair ==
  ASSUME Owned, Fair, NEW c \in Coids, NEW filled, OrderCancelled(c, filled),
         UNCHANGED <<ladder, venue>>, oids' \subseteq oids,
         rest_book'[c] # "live", rest_book'[c] = "unknown" => stand_down' # "no",
         rest_book'[c] = "cancel_failed" => stand_down' # "no",
         c \in oids \/ rest_book[c] \in {"cancelled", "filled"}
           => rest_book'[c] \in {"cancelled", "filled"} \/ c \in oids' \/ stand_down' # "no",
         \A d \in Coids \ {c} : rest_book'[d] = rest_book[d] /\ (d \in oids => d \in oids'),
         stand_down # "no" => stand_down' = stand_down,
         stand_down' = "rest_invariant_violation" => stand_down = "rest_invariant_violation" \/ Excused,
         \A j \in jobs' : Checking(j) => \E i \in jobs : Checking(i) /\ i.seen = j.seen /\ i.id = j.id
  PROVE  Fair'
<1>1. core' = [core EXCEPT ![c] = IF @ = "dropped" THEN @ ELSE "off"]
  BY DEF OrderCancelled
<1>2. /\ core' \in [Coids -> {"new", "live", "cancelling", "dropped", "off"}] /\ oids' \subseteq Coids
      /\ \A d \in Coids \ {c} : core'[d] = core[d]
      /\ core'[c] \in {"dropped", "off"}
      /\ core[c] = "dropped" => core'[c] = "dropped"
  BY <1>1 DEF Owned, WritesTypeOK
<1>3. LiveKnown'
  BY <1>2 DEF Fair, LiveKnown
<1> QED
  BY <1>2, <1>3, FairStep

\* A create given up takes its order out of the ladder.
LEMMA SkipFair ==
  ASSUME Owned, Fair, NEW j \in jobs, j.op = "create", ~Deleting(j), j.step # "post",
         _skip_before_post(j), UNCHANGED <<ladder, venue, rest_book, oids, stand_down>>
  PROVE  Fair'
<1>1. j.id \in Coids /\ rest_book[j.id] = "unseen" /\ j.id \notin oids
  BY DEF Owned, JobShape, CreateState, Creating
<1>2. CASE j.id \in pending \/ stand_down # "no"
  <2>1. OrderCancelled(j.id, "none") /\ jobs' = jobs \ {j}
    BY <1>2 DEF _skip_before_post
  <2> DEFINE c == j.id
  <2>2. c \in Coids /\ rest_book[c] = "unseen" /\ c \notin oids /\ OrderCancelled(c, "none")
    BY <1>1, <2>1
  <2> HIDE DEF c
  <2> QED
    BY <2>1, <2>2, ToldFair
<1>3. CASE ~(j.id \in pending \/ stand_down # "no")
  <2>1. jobs' = (jobs \ {j}) \cup {Await(j, "post")} /\ UNCHANGED core
    BY <1>3 DEF _skip_before_post
  <2>2. Await(j, "post").step = "post"
    BY AwaitJob DEF Steps, Owned, WritesTypeOK
  <2> QED
    BY <2>1, <2>2, FairFrame DEF Checking
<1> QED
  BY <1>2, <1>3

\* the check finds fault only when something may really stand in the way
LEMMA CheckFair ==
  ASSUME Owned, Fair, NEW j \in jobs, _pre_place_invariant_async(j) PROVE Fair'
<1> DEFINE seen == _exclude_cancelling(j.seen)
<1>1. /\ j.op = "create" /\ ~Deleting(j) /\ j.step # "post" /\ Checking(j)
      /\ UNCHANGED <<ladder, venue, rest_book, oids>>
  BY DEF _pre_place_invariant_async, Deleting, Checking, world
<1>2. j.id \in Coids /\ rest_book[j.id] = "unseen" /\ j.id \notin oids
  BY <1>1 DEF Owned, JobShape, CreateState, Creating
<1>3. \/ _skip_before_post(j) /\ UNCHANGED stand_down
      \/ /\ jobs' = (jobs \ {j}) \cup {Sleep(j, "settle", RetryWait)}
         /\ UNCHANGED <<core, stand_down>>
      \/ /\ jobs' = (jobs \ {j}) \cup {[Await(j, "stray") EXCEPT !.seen = StraysOf(seen)]}
         /\ UNCHANGED <<core, stand_down>>
      \/ /\ _invariant_verdict(seen, j.id) = "violation"
         /\ StandDown("rest_invariant_violation")
         /\ OrderCancelled(j.id, "none") /\ jobs' = jobs \ {j}
  BY DEF _pre_place_invariant_async
<1> HIDE DEF seen
<1>4. CASE _skip_before_post(j) /\ UNCHANGED stand_down
  BY <1>1, <1>4, SkipFair
<1>5. CASE /\ jobs' = (jobs \ {j}) \cup {Sleep(j, "settle", RetryWait)}
           /\ UNCHANGED <<core, stand_down>>
  <2>1. Sleep(j, "settle", RetryWait).http = "idle"
    BY DEF Sleep, Owned, WritesTypeOK, Jobs
  <2> QED
    BY <1>1, <1>5, <2>1, FairFrame DEF Checking
<1>6. CASE /\ jobs' = (jobs \ {j}) \cup {[Await(j, "stray") EXCEPT !.seen = StraysOf(seen)]}
           /\ UNCHANGED <<core, stand_down>>
  <2>1. [Await(j, "stray") EXCEPT !.seen = StraysOf(seen)].http = "queued"
    BY DEF Await, Owned, WritesTypeOK, Jobs
  <2> QED
    BY <1>1, <1>6, <2>1, FairFrame DEF Checking
<1>7. CASE /\ _invariant_verdict(seen, j.id) = "violation"
           /\ StandDown("rest_invariant_violation")
           /\ OrderCancelled(j.id, "none") /\ jobs' = jobs \ {j}
  <2>1. stand_down = "no" => Excused
    <3> SUFFICES ASSUME stand_down = "no", ~Excused PROVE FALSE
      OBVIOUS
    <3>1. Overflow(seen) \/ DupPrice(seen, j.id)
      BY <1>7 DEF _invariant_verdict
    <3>2. Cardinality(seen) < K /\ \A o \in seen : Price[o] # Price[j.id]
      BY <1>1 DEF Fair, SeenFits, Fits, seen
    <3>3. seen \subseteq Coids
      BY <1>1 DEF Fair, SeenFits, Fits, seen
    <3>4. IsFiniteSet(seen) /\ Cardinality(seen) \in Nat /\ K \in Nat
      BY <3>3, WritesAssumption, FS_Subset, FS_CardinalityType DEF Fair, LadderKept, K
    <3>5. ~(Cardinality(seen) >= K)
      BY <3>2, <3>4
    <3>6. ~Overflow(seen)
      BY <3>5 DEF Overflow
    <3>7. ~DupPrice(seen, j.id)
      BY <3>2 DEF DupPrice
    <3> QED
      BY <3>1, <3>6, <3>7
  <2>2. /\ stand_down # "no" => stand_down' = stand_down
        /\ stand_down' = "rest_invariant_violation" => stand_down = "rest_invariant_violation" \/ Excused
    BY <1>7, <2>1 DEF StandDown
  <2> DEFINE c == j.id
  <2>3. c \in Coids /\ rest_book[c] = "unseen" /\ c \notin oids /\ OrderCancelled(c, "none")
    BY <1>2, <1>7
  <2> HIDE DEF c
  <2> QED
    BY <1>1, <1>7, <2>2, <2>3, ToldFair
<1> QED
  BY <1>3, <1>4, <1>5, <1>6, <1>7

\* A stray is cancelled only where there is one.
LEMMA StrayCancelledFair ==
  ASSUME Owned, Fair, NEW j \in jobs, _cancel_stray_async(j) PROVE Fair'
<1> DEFINE rest == j.seen \ Slot(j)
<1>1. /\ j.step = "stray" /\ ~Deleting(j) /\ UNCHANGED <<ladder, venue, rest_book, oids, stand_down>>
  BY DEF _cancel_stray_async, Deleting, world
<1>2. j.op = "create"
  BY <1>1 DEF Owned, JobShape, WritesTypeOK, Jobs, Ops
<1>3. \/ _skip_before_post(j)
      \/ /\ jobs' = (jobs \ {j}) \cup {[Await(j, "stray") EXCEPT !.seen = rest]}
         /\ UNCHANGED core
  BY DEF _cancel_stray_async
<1> HIDE DEF rest
<1>4. [Await(j, "stray") EXCEPT !.seen = rest].http = "queued"
  BY DEF Await, Owned, WritesTypeOK, Jobs
<1>5. CASE _skip_before_post(j)
  BY <1>1, <1>2, <1>5, SkipFair
<1>6. CASE /\ jobs' = (jobs \ {j}) \cup {[Await(j, "stray") EXCEPT !.seen = rest]}
           /\ UNCHANGED core
  BY <1>1, <1>4, <1>6, FairFrame DEF Checking
<1> QED
  BY <1>3, <1>5, <1>6

\* The create learns its fate.
LEMMA PlacedFair ==
  ASSUME Owned, Fair, NEW j \in jobs, _place_rest_inflight_async(j) PROVE Fair'
<1> DEFINE c == j.id
<1>1. /\ PostAnswered(j) /\ Creating(j) /\ c \in Coids /\ j \in Jobs
      /\ UNCHANGED <<venue, ladder>>
      /\ rest_book' = [rest_book EXCEPT ![c] =
           CASE j.ans = "ok" -> "live" [] j.ans = "lost" -> "unknown" [] OTHER -> @]
      /\ CASE j.ans = "lost" -> StandDown("post_unknown_outcome")
           [] j.ans = "refused" /\ rejects' >= MaxRejects -> StandDown("rest_rejected")
           [] OTHER -> UNCHANGED stand_down
  BY DEF _place_rest_inflight_async, world, PostAnswered, Creating, Deleting, Owned, JobShape, WritesTypeOK
<1>2. /\ rest_book[c] = "unseen" /\ core[c] \in {"live", "dropped"} /\ c \notin oids
  BY <1>1 DEF Owned, CreateState
<1>3. /\ stand_down # "no" => stand_down' = stand_down
      /\ stand_down' = "rest_invariant_violation" => stand_down = "rest_invariant_violation"
      /\ j.ans = "lost" => stand_down' # "no"
  BY <1>1 DEF StandDown
<1>4. \A d \in Coids \ {c} : rest_book'[d] = rest_book[d]
  BY <1>1 DEF Owned, WritesTypeOK
<1>5. CASE j.ans # "ok"
  <2>1. OrderCancelled(c, "none") /\ jobs' = jobs \ {j} /\ UNCHANGED oids
    BY <1>5 DEF _place_rest_inflight_async
  <2>2. /\ rest_book'[c] \in {"unseen", "unknown"}
        /\ rest_book'[c] = "unknown" => stand_down' # "no"
    BY <1>1, <1>2, <1>3, <1>5 DEF Owned, WritesTypeOK
  <2> HIDE DEF c
  <2> QED
    BY <1>1, <1>2, <1>3, <1>4, <2>1, <2>2, ToldFair
<1>6. CASE j.ans = "ok"
  <2>1. UNCHANGED core /\ (UNCHANGED oids \/ oids' = oids \cup {c})
    BY <1>6 DEF _place_rest_inflight_async
  <2>2. rest_book'[c] = "live"
    BY <1>1, <1>6 DEF Owned, WritesTypeOK
  <2>3. \A i \in jobs' : Checking(i) => i \in jobs
    <3>1. [Await(j, "delete") EXCEPT !.tries = 0].http = "queued"
      BY DEF Await, Owned, WritesTypeOK, Jobs
    <3> QED
      BY <1>6, <3>1 DEF _place_rest_inflight_async, Checking
  <2> HIDE DEF c
  <2>4. LiveKnown'
    BY <1>2, <1>4, <2>1, <2>2 DEF Fair, LiveKnown
  <2>5. core' \in [Coids -> {"new", "live", "cancelling", "dropped", "off"}] /\ oids' \subseteq Coids
    BY <1>1, <2>1 DEF Owned, WritesTypeOK
  <2>6. \A d \in Coids : rest_book'[d] \in {"unknown", "cancel_failed"} => rest_book[d] \in {"unknown", "cancel_failed"}
    BY <1>4, <2>2
  <2>7. \A d \in Coids : d \in oids \/ rest_book[d] \in {"cancelled", "filled"}
                         => d \in oids' \/ rest_book'[d] \in {"cancelled", "filled"}
    BY <1>2, <1>4, <2>1
  <2> QED
    BY <1>1, <1>3, <2>1, <2>3, <2>4, <2>5, <2>6, <2>7, FairStep
<1> QED
  BY <1>5, <1>6

\* A cancel takes its order out of the ladder but not out of the list, where it is excluded.
LEMMA CancelFair ==
  ASSUME Owned, Fair, NEW c \in Coids, _cancel_rest_async(c) PROVE Fair'
<1>1. /\ core[c] = "live" /\ UNCHANGED <<ladder, venue, rest_book, stand_down>>
      /\ oids \subseteq oids' /\ oids' \subseteq Coids
  BY DEF _cancel_rest_async, CancelDeferred, world, Owned, WritesTypeOK
<1>2. \/ ~HasVenueId(c) /\ core' = [core EXCEPT ![c] = "dropped"]
      \/ HasVenueId(c) /\ core' = [core EXCEPT ![c] = "cancelling"] /\ c \in oids'
  BY DEF _cancel_rest_async, CancelDeferred
<1>3. \A i \in jobs' : Checking(i) => i \in jobs
  BY NewCancelJob DEF _cancel_rest_async, CancelDeferred, Checking
<1>4. LiveKnown' /\ core' \in [Coids -> {"new", "live", "cancelling", "dropped", "off"}]
  BY <1>1, <1>2 DEF Fair, LiveKnown, Owned, WritesTypeOK, HasVenueId
<1>5. \A d \in Coids : core'[d] = core[d] \/ (core[d] = "live" /\ core'[d] \in {"cancelling", "dropped"})
  BY <1>1, <1>2 DEF Owned, WritesTypeOK
<1> QED
  BY <1>1, <1>3, <1>4, <1>5, FairStep

\* A cancel is resolved, or ends the hour as a failure of its own.
LEMMA ResolveFair ==
  ASSUME Owned, Fair, NEW j \in jobs, _delete_and_resolve_async(j) PROVE Fair'
<1> DEFINE c == j.id
<1>1. j.step = "delete" /\ j \in Jobs /\ UNCHANGED <<venue, ladder>>
  BY DEF _delete_and_resolve_async, _finish_cancel, Fault, Owned, WritesTypeOK
<1>2. c \in Coids
  BY <1>1 DEF Owned, JobShape, WritesTypeOK, Jobs, Ops, Deleting
<1>3. \/ /\ UNCHANGED <<rest_book, core, oids, stand_down>>
         /\ jobs' = (jobs \ {j}) \cup {[Sleep(j, "backoff", RetryWait) EXCEPT !.tries = @ + 1]}
      \/ /\ oids' = oids \ {c} /\ jobs' = jobs \ {j}
         /\ OrderCancelled(c, "none") \/ OrderCancelled(c, "all")
         /\ \/ \E s \in {"filled", "cancelled"} : rest_book' = [rest_book EXCEPT ![c] = s]
                                                  /\ UNCHANGED stand_down
            \/ rest_book' = [rest_book EXCEPT ![c] = "cancel_failed"] /\ StandDown("cancel_failed")
  BY DEF _delete_and_resolve_async, _finish_cancel
<1>4. CASE /\ UNCHANGED <<rest_book, core, oids, stand_down>>
           /\ jobs' = (jobs \ {j}) \cup {[Sleep(j, "backoff", RetryWait) EXCEPT !.tries = @ + 1]}
  <2>1. [Sleep(j, "backoff", RetryWait) EXCEPT !.tries = @ + 1].http = "idle"
    BY <1>1 DEF Sleep, Jobs
  <2> QED
    BY <1>1, <1>4, <2>1, FairFrame DEF Checking
<1>5. ASSUME NEW s \in {"filled", "cancelled", "cancel_failed"}, NEW filled,
             oids' = oids \ {c}, jobs' = jobs \ {j}, OrderCancelled(c, filled),
             rest_book' = [rest_book EXCEPT ![c] = s],
             IF s = "cancel_failed" THEN StandDown("cancel_failed") ELSE UNCHANGED stand_down
      PROVE  Fair'
  <2>1. /\ rest_book'[c] = s /\ \A d \in Coids \ {c} : rest_book'[d] = rest_book[d]
    BY <1>2, <1>5 DEF Owned, WritesTypeOK
  <2>2. /\ stand_down # "no" => stand_down' = stand_down
        /\ stand_down' = "rest_invariant_violation" => stand_down = "rest_invariant_violation"
        /\ s = "cancel_failed" => stand_down' # "no"
    BY <1>5 DEF StandDown
  <2> HIDE DEF c
  <2> QED
    BY <1>1, <1>2, <1>5, <2>1, <2>2, ToldFair
<1> HIDE DEF c
<1> QED
  BY <1>3, <1>4, <1>5

\* The sweep changes no verdict.
LEMMA SweepFair ==
  ASSUME Owned, Fair, standdown_sweep_async PROVE Fair'
<1>1. /\ UNCHANGED <<ladder, venue, core, rest_book, stand_down>> /\ oids \subseteq oids' /\ oids' \subseteq Coids
      /\ jobs' = jobs \cup { Await(NewJob("cancel", c), "delete") : c \in SweepTargets \ oids }
  BY DEF standdown_sweep_async, world, SweepTargets, Owned, WritesTypeOK
<1>2. \A c \in Coids : Await(NewJob("cancel", c), "delete").http = "queued"
  BY NewCancelJob
<1>3. \A i \in jobs' : Checking(i) => i \in jobs
  BY <1>1, <1>2 DEF Checking, SweepTargets
<1>4. LiveKnown' /\ core' \in [Coids -> {"new", "live", "cancelling", "dropped", "off"}]
  BY <1>1 DEF Fair, LiveKnown, Owned, WritesTypeOK
<1> QED
  BY <1>1, <1>3, <1>4, FairStep


\* wing takes, the pauses and the start of a round trip leave the lists as they are
LEMMA SendFair ==
  ASSUME Owned, Fair, NEW j \in Jobs, j.op = "wing", NEW i, SendSubBatch(j, i),
         UNCHANGED <<core, told, world, exec>>
  PROVE  Fair'
<1> DEFINE b == [j EXCEPT !.batch = i, !.tries = 0]
<1>1. \A s, w : /\ Sleep(b, s, w).op = "wing" /\ Await(b, s).op = "wing"
  BY DEF Sleep, Await, Jobs
<1>2. \A k \in jobs' : k \in jobs \/ k.op = "wing"
  BY <1>1 DEF SendSubBatch
<1> QED
  BY <1>2, FairFrame DEF Checking, world, exec

\* Workers and wakes move coroutines on without a list in their hands.
LEMMA MoveFair ==
  ASSUME Owned, Fair, NEW j \in jobs, Wake(j) \/ _apost(j) \/ (_run_off_loop(j) /\ UNCHANGED <<core, told, world, exec>>)
  PROVE  Fair'
<1>1. j \in Jobs
  BY DEF Owned, WritesTypeOK
<1>2. /\ \A s : Await(j, s).http = "queued"
      /\ \A s, w : [Sleep(j, s, w) EXCEPT !.tries = 1].http = "idle"
      /\ [j EXCEPT !.http = "running"].http = "running"
  BY <1>1 DEF Await, Sleep, Jobs
<1>3. \A k \in jobs' : k \in jobs \/ k.http # "answered"
  <2>1. CASE Wake(j)
    <3>1. PICK s : jobs' = (jobs \ {j}) \cup {Await(j, s)}
      BY <2>1 DEF Wake
    <3>2. Await(j, s).http = "queued"
      BY <1>2
    <3> QED
      BY <3>1, <3>2
  <2>2. CASE _apost(j)
    BY <1>2, <2>2 DEF _apost
  <2>3. CASE _run_off_loop(j)
    BY <1>2, <2>3 DEF _run_off_loop
  <2> QED
    BY <2>1, <2>2, <2>3
<1>4. UNCHANGED <<core, world, exec>>
  BY DEF Wake, _apost
<1> QED
  BY <1>3, <1>4, FairFrame DEF Checking, world, exec

\* So does time.
LEMMA TimeFair ==
  ASSUME Owned, Fair, Time PROVE Fair'
<1> DEFINE Slept(j) == [j EXCEPT !.wait = IF @ > 0 THEN @ - 1 ELSE 0]
<1>1. jobs' = { Slept(j) : j \in jobs } /\ UNCHANGED <<core, told, world, exec>>
  BY DEF Time, Tick
<1>2. \A j \in jobs : /\ Slept(j).op = j.op /\ Slept(j).id = j.id /\ Slept(j).seen = j.seen
                      /\ Slept(j).step = j.step /\ Slept(j).http = j.http
  BY DEF Owned, WritesTypeOK, Jobs
<1> HIDE DEF Slept
<1>3. \A k \in jobs' : Checking(k) => \E i \in jobs : Checking(i) /\ i.seen = k.seen /\ i.id = k.id
  BY <1>1, <1>2 DEF Checking
<1> QED
  BY <1>1, <1>3, FairFrame DEF world, exec

\* Every step keeps the invariant.
LEMMA NextFair == Owned /\ Fair /\ [Next]_vars => Fair'
<1> SUFFICES ASSUME Owned, Fair, [Next]_vars PROVE Fair'
  OBVIOUS
<1>1. CASE Dispatch
  BY <1>1, MoveFair DEF Dispatch
<1>2. CASE Core
  <2>1. \A w \in Wings : NewJob("wing", w) \in Jobs /\ NewJob("wing", w).op = "wing"
    BY NewJobJob DEF Ops
  <2> QED
    BY <1>2, <2>1, PlaceFair, CancelFair, SendFair DEF Core, _take_wings_send
<1>3. CASE Venue
  BY <1>3, VenueFair
<1>4. CASE Proxy
  BY <1>4, PostFair, DeleteTripFair, GetFair DEF Proxy
<1>5. CASE \E j \in jobs : NextSubBatch(j)
  <2>1. PICK j \in jobs : NextSubBatch(j)
    BY <1>5
  <2>2. j \in Jobs /\ j.op = "wing" /\ UNCHANGED <<core, told, world, exec>>
    BY <2>1 DEF NextSubBatch, Owned, WritesTypeOK
  <2>3. CASE SendSubBatch(j, j.batch + 1)
    BY <2>2, <2>3, SendFair
  <2>4. CASE jobs' = jobs \ {j}
    BY <2>2, <2>4, FairFrame DEF world, exec
  <2> QED
    BY <2>1, <2>3, <2>4 DEF NextSubBatch
<1>6. CASE Loop /\ ~ \E j \in jobs : NextSubBatch(j)
  BY <1>6, OnFillFair, CheckFair, StrayCancelledFair, PlacedFair, ResolveFair, MoveFair, SweepFair DEF Loop
<1>7. CASE Time
  BY <1>7, TimeFair
<1>8. CASE UNCHANGED vars
  BY <1>8, FairFrame DEF vars, exec
<1> QED
  BY <1>1, <1>2, <1>3, <1>4, <1>5, <1>6, <1>7, <1>8 DEF Next

\* Nothing rests and nobody is blamed when the hour begins.
LEMMA InitFair == Init => Fair
<1> SUFFICES ASSUME Init PROVE Fair
  OBVIOUS
<1>1. Live = {} /\ ladder \in Ladders /\ K \in Nat
  BY WritesAssumption DEF Init, Live, K
<1>2. LadderKept
  BY <1>1, FS_EmptySet DEF LadderKept, Init
<1> QED
  BY <1>2 DEF Init, Fair, LiveKnown, Untroubled, Blamed, SeenFits

\* The pre-place check (_pre_place_invariant_async) ends the hour as a violated rest invariant only
\* if an order of an earlier process was at the exchange or a create had been cancelled before it
\* was answered, whatever the order in which lists, creates and cancels overtake each other.
THEOREM NoFalseViolationTheorem == Spec => []NoFalseViolation
<1>1. Fair => NoFalseViolation
  BY DEF Fair, Blamed, Excused, NoFalseViolation
<1> QED
  BY <1>1, InitOwned, NextOwned, InitFair, NextFair, PTL DEF Spec

-----------------------------------------------------------------------------
(* The pacer (WriteTokenBucket, acquire_async): the headroom reserve under *)
(* any number of creates paced at the same time                            *)

\* a create that sleeps in the pacer
Paced(j) == j.op = "create" /\ j.step = "paced"

\* the orders that wait for the pacer, and those that wait no longer than j
Queue    == { c \in Coids : \E i \in jobs : Paced(i) /\ i.id = c }
UpTo(j)  == { c \in Coids : \E i \in jobs : Paced(i) /\ i.id = c /\ i.wait <= j.wait }

\* what is reserved for the whole queue, and for its head up to j
Owed      == CostCreate * Cardinality(Queue)
OwedTo(j) == CostCreate * Cardinality(UpTo(j))

\* the bucket of the writes that may wait is never behind what is promised
Sent == sent <= Size /\ sent >= tokens + Owed

\* when j wakes the bucket will hold the reserve and what is owed up to j
Covered == \A j \in jobs : Paced(j) => j.wait >= 0 /\ sent + j.wait >= Reserve + OwedTo(j)

\* j was granted the level that those after it left
Granted == \A j \in jobs : Paced(j) => tokens + j.wait + Owed <= Reserve + OwedTo(j)

\* two that sleep wake far enough apart to pay for those between them
Spaced ==
  \A i, j \in jobs : Paced(i) /\ Paced(j) /\ i.wait <= j.wait =>
    /\ j.wait + OwedTo(i) >= i.wait + OwedTo(j)
    /\ i # j => i.wait < j.wait

\* every place of the queue is taken
Ranked == \A n \in 1 .. Cardinality(Queue) : \E j \in jobs : Paced(j) /\ Cardinality(UpTo(j)) = n

\* a create that sleeps awaits no round trip
Idle == \A j \in jobs : Paced(j) => j.http = "idle"

PacerInv == Idle /\ Sent /\ Covered /\ Granted /\ Spaced /\ Ranked

\* The queues of the pacer are finite.
LEMMA Finite ==
  /\ IsFiniteSet(Queue) /\ Cardinality(Queue) \in Nat /\ Owed \in Nat
  /\ \A j : IsFiniteSet(UpTo(j)) /\ Cardinality(UpTo(j)) \in Nat /\ OwedTo(j) \in Nat
<1>1. Queue \subseteq Coids /\ \A j : UpTo(j) \subseteq Coids
  BY DEF Queue, UpTo
<1>2. IsFiniteSet(Queue) /\ Cardinality(Queue) \in Nat
  BY <1>1, WritesAssumption, FS_Subset, FS_CardinalityType
<1>3. \A j : IsFiniteSet(UpTo(j)) /\ Cardinality(UpTo(j)) \in Nat
  BY <1>1, WritesAssumption, FS_Subset, FS_CardinalityType
<1> QED
  BY <1>2, <1>3, WriterAssumption DEF Owed, OwedTo

\* what one more create owes
LEMMA OneMore ==
  ASSUME NEW n \in Nat PROVE CostCreate * (n + 1) = CostCreate * n + CostCreate
  BY WriterAssumption

\* a step that leaves the queue as it is, and takes no more than it did from the
\* bucket of the writes that may wait
LEMMA PacerFrame ==
  ASSUME Owned, PacerInv, UNCHANGED sent, tokens' \in Int, tokens' <= tokens,
         \A j \in jobs : Paced(j) => j \in jobs',
         \A j \in jobs' : Paced(j) => j \in jobs
  PROVE  PacerInv'
<1>1. Queue' = Queue /\ \A j : UpTo(j)' = UpTo(j)
  BY DEF Queue, UpTo
<1>2. Owed' = Owed /\ \A j : OwedTo(j)' = OwedTo(j)
  BY <1>1 DEF Owed, OwedTo
<1>3. tokens \in Int /\ sent \in Int /\ Owed \in Nat /\ \A j \in jobs : j.wait \in Int
  BY Finite DEF Owned, WritesTypeOK, Jobs
<1>4. \A j : OwedTo(j) \in Nat
  BY Finite
<1>5. Sent' /\ Covered'
  <2>1. Sent'
    <3>1. sent <= Size /\ sent >= tokens + Owed
      BY DEF PacerInv, Sent
    <3> DEFINE t == tokens'  u == sent'
    <3>2. t \in Int /\ u \in Int /\ t <= tokens /\ u = sent /\ Owed \in Int /\ sent \in Int /\ tokens \in Int
      BY <1>3
    <3> HIDE DEF t, u
    <3>3. u <= Size /\ u >= t + Owed
      BY <3>1, <3>2, WriterAssumption
    <3> QED
      BY <1>2, <3>3 DEF Sent, t, u
  <2>2. Covered'
    BY <1>2, <1>3 DEF PacerInv, Covered, Paced
  <2> QED
    BY <2>1, <2>2
<1>6. Granted'
  <2> SUFFICES ASSUME NEW j \in jobs', Paced(j) PROVE tokens' + j.wait + Owed <= Reserve + OwedTo(j)
    BY <1>2 DEF Granted, Paced
  <2> QED
    BY <1>3, <1>4, WriterAssumption DEF PacerInv, Granted
<1>7. Spaced' /\ Ranked' /\ Idle'
  BY <1>1, <1>2 DEF PacerInv, Spaced, Ranked, Idle, Paced
<1> QED
  BY <1>5, <1>6, <1>7 DEF PacerInv

\* the steps of time: nobody oversleeps, every level rises by one and every pause shrinks by one
LEMMA PacerTick ==
  ASSUME Owned, PacerInv, Time PROVE PacerInv' /\ sent' >= sent
<1> DEFINE Slept(j) == [j EXCEPT !.wait = IF @ > 0 THEN @ - 1 ELSE 0]
<1>1. /\ jobs' = { Slept(j) : j \in jobs } /\ \A j \in jobs : ~Due(j)
      /\ tokens' = Min({Size, tokens + 1}) /\ sent' = Min({Size, sent + 1})
  BY DEF Time, Tick, _refill
<1>2. /\ tokens \in Int /\ sent \in Int /\ Owed \in Nat /\ Size \in Int /\ Reserve \in Int
      /\ CostCreate \in Int /\ \A j : OwedTo(j) \in Nat
  BY Finite, WriterAssumption DEF Owned, WritesTypeOK
<1>3. /\ tokens' \in {Size, tokens + 1} /\ tokens' <= Size /\ tokens' <= tokens + 1
      /\ sent' \in {Size, sent + 1} /\ sent' <= Size /\ sent' <= sent + 1
  <2>1. Size \in Int /\ tokens + 1 \in Int /\ sent + 1 \in Int
    BY <1>2
  <2> HIDE DEF Slept
  <2> QED
    BY <1>1, <2>1, MinOfTwo
<1>4. sent <= Size
  BY DEF PacerInv, Sent
<1>5. sent' >= sent
  BY <1>2, <1>3, <1>4
<1>6. \A j \in jobs : /\ Slept(j).op = j.op /\ Slept(j).id = j.id /\ Slept(j).step = j.step
                      /\ j.wait \in Int /\ Slept(j).http = j.http
                      /\ j.wait > 0 => Slept(j).wait = j.wait - 1
  BY DEF Owned, WritesTypeOK, Jobs
<1>7. \A j \in jobs : Paced(j) => /\ j.wait \in Int /\ j.wait > 0
                                  /\ Paced(Slept(j)) /\ Slept(j).wait = j.wait - 1
  <2>1. \A j \in jobs : Paced(j) => j.wait \in Int /\ j.wait >= 0 /\ j.wait # 0
    BY <1>1 DEF Due, PacerInv, Covered, Paced, Owned, WritesTypeOK, Jobs
  <2> HIDE DEF Slept
  <2> QED
    BY <1>6, <2>1 DEF Paced
<1> HIDE DEF Slept
<1>8. \A k \in jobs' : Paced(k) => \E j \in jobs : Paced(j) /\ k = Slept(j)
  BY <1>1, <1>6 DEF Paced
<1>9. Queue' = Queue
  BY <1>1, <1>6, <1>8 DEF Queue, Paced
<1>10. \A j \in jobs : Paced(j) => UpTo(Slept(j))' = UpTo(j)
  <2> SUFFICES ASSUME NEW j \in jobs, Paced(j), NEW c \in Coids
               PROVE  (\E i \in jobs' : Paced(i) /\ i.id = c /\ i.wait <= Slept(j).wait)
                      <=> (\E i \in jobs : Paced(i) /\ i.id = c /\ i.wait <= j.wait)
    BY DEF UpTo, Paced
  <2>1. ASSUME NEW i \in jobs, Paced(i), i.id = c, i.wait <= j.wait
        PROVE  \E k \in jobs' : Paced(k) /\ k.id = c /\ k.wait <= Slept(j).wait
    <3>1. Slept(i) \in jobs' /\ Paced(Slept(i)) /\ Slept(i).id = c /\ Slept(i).wait = i.wait - 1
      BY <1>1, <1>6, <1>7, <2>1
    <3>2. Slept(j).wait = j.wait - 1 /\ i.wait \in Int /\ j.wait \in Int
      BY <1>7, <2>1
    <3> QED
      BY <2>1, <3>1, <3>2
  <2>2. ASSUME NEW k \in jobs', Paced(k), k.id = c, k.wait <= Slept(j).wait
        PROVE  \E i \in jobs : Paced(i) /\ i.id = c /\ i.wait <= j.wait
    <3>1. PICK i \in jobs : Paced(i) /\ k = Slept(i)
      BY <1>8, <2>2
    <3>2. /\ Slept(j).wait = j.wait - 1 /\ Slept(i).wait = i.wait - 1 /\ i.id = c
          /\ i.wait \in Int /\ j.wait \in Int
      BY <1>6, <1>7, <2>2, <3>1
    <3> QED
      BY <2>2, <3>1, <3>2
  <2> QED
    BY <2>1, <2>2
<1>11. Owed' = Owed /\ \A j \in jobs : Paced(j) => OwedTo(Slept(j))' = OwedTo(j)
  BY <1>9, <1>10 DEF Owed, OwedTo
\* the first of the queue: it has not waited its turn yet, so the bucket is not full
<1>12. Cardinality(Queue) # 0 =>
         \E m \in jobs : Paced(m) /\ OwedTo(m) = CostCreate /\ m.wait >= 1
  <2> SUFFICES ASSUME Cardinality(Queue) # 0
               PROVE  \E m \in jobs : Paced(m) /\ OwedTo(m) = CostCreate /\ m.wait >= 1
    OBVIOUS
  <2>1. 1 \in 1 .. Cardinality(Queue)
    BY Finite
  <2>2. PICK m \in jobs : Paced(m) /\ Cardinality(UpTo(m)) = 1
    BY <2>1 DEF PacerInv, Ranked
  <2>3. OwedTo(m) = CostCreate
    BY <1>2, <2>2 DEF OwedTo
  <2> QED
    BY <1>7, <2>2, <2>3
<1>13. Sent'
  <2>1. CASE Cardinality(Queue) = 0
    <3>1. Owed = 0
      BY <1>2, <2>1 DEF Owed
    <3>2. sent >= tokens
      BY <1>2, <3>1 DEF PacerInv, Sent
    <3> DEFINE t == tokens'  u == sent'
    <3>3. t \in Int /\ u \in {Size, sent + 1} /\ t <= tokens + 1 /\ t <= Size /\ u <= Size
      BY <1>2, <1>3
    <3> HIDE DEF t, u
    <3>4. u >= t
      BY <1>2, <3>2, <3>3
    <3>5. u >= t + Owed
      BY <1>2, <3>1, <3>3, <3>4
    <3> QED
      BY <1>11, <3>3, <3>5 DEF Sent, t, u
  <2>2. CASE Cardinality(Queue) # 0
    <3>1. PICK m \in jobs : Paced(m) /\ OwedTo(m) = CostCreate /\ m.wait >= 1
      BY <1>12, <2>2
    <3>2. tokens + m.wait + Owed <= Reserve + CostCreate /\ m.wait \in Int
      BY <1>7, <3>1 DEF PacerInv, Granted
    <3>3. tokens + 1 + Owed <= Size
      BY <1>2, <3>1, <3>2, WriterAssumption
    <3>4. sent >= tokens + Owed
      BY DEF PacerInv, Sent
    <3> DEFINE t == tokens'  u == sent'
    <3>5. t \in Int /\ u \in {Size, sent + 1} /\ t <= tokens + 1 /\ u <= Size
      BY <1>2, <1>3
    <3> HIDE DEF t, u
    <3>6. u >= t + Owed
      BY <1>2, <3>3, <3>4, <3>5
    <3> QED
      BY <1>11, <3>5, <3>6 DEF Sent, t, u
  <2> QED
    BY <2>1, <2>2
<1>14. Covered'
  <2> SUFFICES ASSUME NEW k \in jobs', Paced(k)
               PROVE  k.wait >= 0 /\ sent' + k.wait >= Reserve + OwedTo(k)'
    BY DEF Covered, Paced
  <2>1. PICK j \in jobs : Paced(j) /\ k = Slept(j)
    BY <1>8
  <2>2. k.wait = j.wait - 1 /\ j.wait \in Int /\ j.wait > 0 /\ OwedTo(k)' = OwedTo(j)
    BY <1>7, <1>11, <2>1
  <2>3. sent + j.wait >= Reserve + OwedTo(j)
    BY <2>1 DEF PacerInv, Covered
  <2>4. CASE sent' = sent + 1
    BY <1>2, <2>2, <2>3, <2>4
  <2>5. CASE sent' = Size
    <3>1. Cardinality(Queue) # 0
      <4>1. j.id \in Queue
        BY <2>1 DEF Queue, Paced, Owned, JobShape
      <4> QED
        BY <4>1, Finite, FS_EmptySet
    <3>2. PICK m \in jobs : Paced(m) /\ OwedTo(m) = CostCreate /\ m.wait >= 1
      BY <1>12, <3>1
    <3>3. m.wait \in Int
      BY <1>7, <3>2
    <3>4. CASE m.wait <= j.wait
      <4>1. j.wait + CostCreate >= m.wait + OwedTo(j)
        BY <2>1, <3>2, <3>4 DEF PacerInv, Spaced
      <4> QED
        BY <1>2, <2>2, <2>5, <3>2, <3>3, <4>1, WriterAssumption
    <3>5. CASE j.wait <= m.wait
      <4>1. UpTo(j) \subseteq UpTo(m)
        <5> SUFFICES ASSUME NEW i \in jobs, Paced(i), i.wait <= j.wait PROVE i.wait <= m.wait
          BY DEF UpTo
        <5> QED
          BY <1>7, <2>2, <3>3, <3>5
      <4>2. Cardinality(UpTo(j)) <= Cardinality(UpTo(m))
        BY <4>1, Finite, FS_Subset
      <4>3. OwedTo(j) <= OwedTo(m)
        BY <4>2, Finite, WriterAssumption DEF OwedTo
      <4> QED
        BY <1>2, <2>2, <2>5, <3>2, <4>3, WriterAssumption
    <3> QED
      BY <2>2, <3>3, <3>4, <3>5
  <2> QED
    BY <1>3, <2>4, <2>5
<1>15. Granted'
  <2> SUFFICES ASSUME NEW k \in jobs', Paced(k)
               PROVE  tokens' + k.wait + Owed' <= Reserve + OwedTo(k)'
    BY WriterAssumption DEF Granted, Paced
  <2>1. PICK j \in jobs : Paced(j) /\ k = Slept(j)
    BY <1>8
  <2>2. k.wait = j.wait - 1 /\ j.wait \in Int /\ OwedTo(k)' = OwedTo(j)
    BY <1>7, <1>11, <2>1
  <2>3. tokens + j.wait + Owed <= Reserve + OwedTo(j)
    BY <2>1 DEF PacerInv, Granted
  <2>4. tokens' \in Int
    BY <1>2, <1>3
  <2> QED
    BY <1>2, <1>3, <1>11, <2>2, <2>3, <2>4
<1>16. Spaced'
  <2> SUFFICES ASSUME NEW k \in jobs', NEW l \in jobs', Paced(k), Paced(l), k.wait <= l.wait
               PROVE  /\ l.wait + OwedTo(k)' >= k.wait + OwedTo(l)'
                      /\ k # l => k.wait < l.wait
    BY DEF Spaced, Paced
  <2>1. PICK i \in jobs : Paced(i) /\ k = Slept(i)
    BY <1>8
  <2>2. PICK j \in jobs : Paced(j) /\ l = Slept(j)
    BY <1>8
  <2>3. /\ k.wait = i.wait - 1 /\ i.wait \in Int /\ OwedTo(k)' = OwedTo(i)
        /\ l.wait = j.wait - 1 /\ j.wait \in Int /\ OwedTo(l)' = OwedTo(j)
    BY <1>7, <1>11, <2>1, <2>2
  <2>4. i.wait <= j.wait
    BY <2>3
  <2>5. j.wait + OwedTo(i) >= i.wait + OwedTo(j) /\ (i # j => i.wait < j.wait)
    BY <2>1, <2>2, <2>4 DEF PacerInv, Spaced
  <2> QED
    BY <1>2, <2>1, <2>2, <2>3, <2>5
<1>17. Ranked'
  <2> SUFFICES ASSUME NEW n \in 1 .. Cardinality(Queue)
               PROVE  \E k \in jobs' : Paced(k) /\ Cardinality(UpTo(k)') = n
    BY <1>9 DEF Ranked, Paced
  <2>1. PICK j \in jobs : Paced(j) /\ Cardinality(UpTo(j)) = n
    BY DEF PacerInv, Ranked
  <2>2. Slept(j) \in jobs' /\ Paced(Slept(j)) /\ UpTo(Slept(j))' = UpTo(j)
    BY <1>1, <1>7, <1>10, <2>1
  <2> QED
    BY <2>1, <2>2
<1>18. Idle'
  BY <1>6, <1>8 DEF PacerInv, Idle, Paced
<1> QED
  BY <1>5, <1>13, <1>14, <1>15, <1>16, <1>17, <1>18 DEF PacerInv

\* What is owed to the first coroutines of the queue is part of what is owed.
LEMMA OwedToLess ==
  ASSUME NEW j PROVE UpTo(j) \subseteq Queue /\ OwedTo(j) <= Owed
<1>1. UpTo(j) \subseteq Queue
  BY DEF UpTo, Queue
<1>2. Cardinality(UpTo(j)) <= Cardinality(Queue) /\ Cardinality(UpTo(j)) \in Nat /\ Cardinality(Queue) \in Nat
  BY <1>1, Finite, FS_Subset
<1> QED
  BY <1>1, <1>2, WriterAssumption DEF Owed, OwedTo

\* an order that the core has not placed yet has no coroutine
LEMMA NewHasNoJob ==
  ASSUME Owned, NEW c \in Coids, core[c] = "new" PROVE \A j \in jobs : j.op # "wing" => j.id # c
<1>1. rest_book[c] = "unseen"
  BY DEF Owned, OrderState
<1>2. \A j \in jobs : Creating(j) \/ Deleting(j) => j.id # c
  BY <1>1 DEF Owned, CreateState, DeleteState
<1> QED
  BY <1>2 DEF Owned, JobShape, Creating, WritesTypeOK, Jobs, Ops

\* a create that finds room sends at once, and leaves the reserve behind: nobody is waiting
LEMMA PacerRoom ==
  ASSUME Owned, PacerInv, NEW c \in Coids, tokens >= CostCreate + Reserve,
         tokens' = tokens - CostCreate, sent' = sent - CostCreate,
         NEW k, jobs' = jobs \cup {k}, k.step # "paced"
  PROVE  PacerInv' /\ sent' >= Reserve
<1>1. /\ tokens \in Int /\ sent \in Int /\ Owed \in Nat /\ Size \in Int /\ Reserve \in Nat
      /\ CostCreate \in Nat \ {0} /\ \A j : OwedTo(j) \in Nat
      /\ sent <= Size /\ sent >= tokens + Owed
  BY Finite, WriterAssumption DEF Owned, WritesTypeOK, PacerInv, Sent
<1>2. \A j \in jobs : ~Paced(j)
  <2> SUFFICES ASSUME NEW j \in jobs, Paced(j) PROVE FALSE
    OBVIOUS
  <2>1. tokens + j.wait + Owed <= Reserve + OwedTo(j) /\ j.wait >= 0 /\ j.wait \in Int
    BY DEF PacerInv, Granted, Covered, Owned, WritesTypeOK, Jobs
  <2>2. OwedTo(j) <= Owed
    BY OwedToLess
  <2> QED
    BY <1>1, <2>1, <2>2
<1>3. \A j \in jobs' : ~Paced(j)
  BY <1>2 DEF Paced
<1>4. Queue = {} /\ Queue' = {}
  BY <1>2, <1>3 DEF Queue, Paced
<1>5. Owed = 0 /\ Owed' = 0 /\ Cardinality(Queue') = 0
  BY <1>1, <1>4, FS_EmptySet DEF Owed
<1>6. /\ sent - CostCreate <= Size /\ sent - CostCreate >= (tokens - CostCreate) + 0
      /\ sent - CostCreate >= Reserve
  BY <1>1, <1>5
<1>7. Sent'
  BY <1>5, <1>6 DEF Sent
<1>8. Covered' /\ Granted' /\ Spaced' /\ Idle'
  BY <1>3 DEF Covered, Granted, Spaced, Idle, Paced
<1>9. Ranked'
  BY <1>5 DEF Ranked
<1> QED
  BY <1>6, <1>7, <1>8, <1>9 DEF PacerInv

\* a create that must wait goes to the end of the queue
LEMMA PacerEnqueue ==
  ASSUME Owned, PacerInv, NEW c \in Coids, \A j \in jobs : j.op # "wing" => j.id # c,
         tokens < CostCreate + Reserve, tokens' = tokens - CostCreate, sent' = sent,
         NEW k, jobs' = jobs \cup {k}, Paced(k), k.id = c, k.http = "idle",
         k.wait = CostCreate + Reserve - tokens
  PROVE  PacerInv'
<1>1. /\ tokens \in Int /\ sent \in Int /\ Owed \in Nat /\ Size \in Int /\ Reserve \in Nat
      /\ CostCreate \in Nat \ {0} /\ \A j : OwedTo(j) \in Nat
      /\ sent <= Size /\ sent >= tokens + Owed /\ k.wait \in Int /\ k.wait > 0
  BY Finite, WriterAssumption DEF Owned, WritesTypeOK, PacerInv, Sent
<1>2. \A j \in jobs : Paced(j) =>
        /\ j.wait \in Int /\ j.wait >= 0 /\ tokens + j.wait + Owed <= Reserve + OwedTo(j)
        /\ sent + j.wait >= Reserve + OwedTo(j) /\ j.id # c
  BY DEF PacerInv, Granted, Covered, Owned, WritesTypeOK, Jobs, Paced
<1>3. \A j \in jobs : Paced(j) => j.wait < k.wait
  <2> SUFFICES ASSUME NEW j \in jobs, Paced(j) PROVE j.wait < k.wait
    OBVIOUS
  <2>1. OwedTo(j) <= Owed
    BY OwedToLess
  <2> QED
    BY <1>1, <1>2, <2>1
<1>4. Queue' = Queue \cup {c} /\ c \notin Queue
  BY <1>2 DEF Queue, Paced
<1>5. \A j \in jobs : Paced(j) => UpTo(j)' = UpTo(j)
  <2> SUFFICES ASSUME NEW j \in jobs, Paced(j), NEW d \in Coids
               PROVE  (\E i \in jobs' : Paced(i) /\ i.id = d /\ i.wait <= j.wait)
                      <=> (\E i \in jobs : Paced(i) /\ i.id = d /\ i.wait <= j.wait)
    BY DEF UpTo, Paced
  <2>1. ~(k.wait <= j.wait)
    BY <1>1, <1>2, <1>3
  <2> QED
    BY <2>1
<1>6. UpTo(k)' = Queue'
  <2> SUFFICES ASSUME NEW i \in jobs', Paced(i) PROVE i.wait <= k.wait
    BY DEF UpTo, Queue, Paced
  <2> QED
    BY <1>1, <1>2, <1>3
<1>7. Cardinality(Queue') = Cardinality(Queue) + 1 /\ Cardinality(Queue) \in Nat
  BY <1>4, Finite, FS_AddElement
<1>8. Owed' = Owed + CostCreate /\ OwedTo(k)' = Owed + CostCreate
  BY <1>6, <1>7, OneMore DEF Owed, OwedTo
<1>9. \A j \in jobs : Paced(j) => OwedTo(j)' = OwedTo(j)
  BY <1>5 DEF OwedTo
<1>10. Sent'
  <2>1. sent >= (tokens - CostCreate) + (Owed + CostCreate)
    BY <1>1
  <2> QED
    BY <1>1, <1>8, <2>1 DEF Sent
<1>11. Covered'
  <2>1. k.wait >= 0 /\ sent + k.wait >= Reserve + (Owed + CostCreate)
    BY <1>1
  <2>2. \A j \in jobs' : Paced(j) => j.wait >= 0 /\ sent + j.wait >= Reserve + OwedTo(j)'
    BY <1>2, <1>8, <1>9, <2>1
  <2> QED
    BY <2>2, WriterAssumption DEF Covered, Paced
<1>12. Granted'
  <2>1. (tokens - CostCreate) + k.wait + (Owed + CostCreate) <= Reserve + (Owed + CostCreate)
    BY <1>1
  <2>2. \A j \in jobs : Paced(j) => (tokens - CostCreate) + j.wait + (Owed + CostCreate) <= Reserve + OwedTo(j)
    BY <1>1, <1>2
  <2>3. \A j \in jobs' : Paced(j) => tokens' + j.wait + Owed' <= Reserve + OwedTo(j)'
    BY <1>8, <1>9, <2>1, <2>2
  <2> QED
    BY <2>3 DEF Granted, Paced
<1>13. Spaced'
  <2>1. \A j \in jobs : Paced(j) => k.wait + OwedTo(j) >= j.wait + (Owed + CostCreate)
    BY <1>1, <1>2
  <2>2. \A i, j \in jobs : Paced(i) /\ Paced(j) /\ i.wait <= j.wait =>
          /\ j.wait + OwedTo(i) >= i.wait + OwedTo(j)
          /\ i # j => i.wait < j.wait
    BY DEF PacerInv, Spaced
  <2>3. \A j \in jobs : Paced(j) => ~(k.wait <= j.wait)
    BY <1>1, <1>2, <1>3
  <2>4. \A i, j \in jobs' : Paced(i) /\ Paced(j) /\ i.wait <= j.wait =>
          /\ j.wait + OwedTo(i)' >= i.wait + OwedTo(j)'
          /\ i # j => i.wait < j.wait
    <3> SUFFICES ASSUME NEW i \in jobs', NEW j \in jobs', Paced(i), Paced(j), i.wait <= j.wait
                 PROVE  /\ j.wait + OwedTo(i)' >= i.wait + OwedTo(j)'
                        /\ i # j => i.wait < j.wait
      OBVIOUS
    <3>1. CASE i = k /\ j = k
      BY <1>1, <1>8, <3>1
    <3>2. CASE i = k /\ j # k
      BY <2>3, <3>2
    <3>3. CASE i # k /\ j = k
      BY <1>3, <1>8, <1>9, <2>1, <3>3
    <3>4. CASE i # k /\ j # k
      BY <1>9, <2>2, <3>4
    <3> QED
      BY <3>1, <3>2, <3>3, <3>4
  <2> QED
    BY <2>4 DEF Spaced, Paced
<1>14. Ranked'
  <2> SUFFICES ASSUME NEW n \in 1 .. (Cardinality(Queue) + 1)
               PROVE  \E j \in jobs' : Paced(j) /\ Cardinality(UpTo(j)') = n
    BY <1>7 DEF Ranked, Paced
  <2>1. CASE n = Cardinality(Queue) + 1
    BY <1>6, <1>7, <2>1
  <2>2. CASE n # Cardinality(Queue) + 1
    <3>1. n \in 1 .. Cardinality(Queue)
      BY <1>7, <2>2
    <3>2. PICK j \in jobs : Paced(j) /\ Cardinality(UpTo(j)) = n
      BY <3>1 DEF PacerInv, Ranked
    <3> QED
      BY <1>5, <3>2
  <2> QED
    BY <2>1, <2>2
<1>15. Idle'
  BY DEF PacerInv, Idle, Paced
<1> QED
  BY <1>10, <1>11, <1>12, <1>13, <1>14, <1>15 DEF PacerInv

\* the first of the queue wakes: what it was promised is there, above the reserve
LEMMA PacerWake ==
  ASSUME Owned, PacerInv, NEW j \in jobs, Paced(j), j.wait = 0,
         tokens' = tokens, sent' = sent - CostCreate,
         NEW k, jobs' = (jobs \ {j}) \cup {k}, k.step # "paced"
  PROVE  PacerInv' /\ sent' >= Reserve
<1> DEFINE c == j.id
<1>1. /\ tokens \in Int /\ sent \in Int /\ Owed \in Nat /\ Size \in Int /\ Reserve \in Nat
      /\ CostCreate \in Nat \ {0} /\ \A i : OwedTo(i) \in Nat
      /\ sent <= Size /\ sent >= tokens + Owed
  BY Finite, WriterAssumption DEF Owned, WritesTypeOK, PacerInv, Sent
<1>2. c \in Coids
  BY DEF Owned, JobShape, Paced
<1>3. \A i \in jobs \ {j} : Paced(i) =>
        /\ i.wait \in Int /\ i.wait > 0 /\ i.id # c
        /\ tokens + i.wait + Owed <= Reserve + OwedTo(i)
        /\ sent + i.wait >= Reserve + OwedTo(i)
  <2> SUFFICES ASSUME NEW i \in jobs \ {j}, Paced(i)
               PROVE  /\ i.wait \in Int /\ i.wait > 0 /\ i.id # c
                      /\ tokens + i.wait + Owed <= Reserve + OwedTo(i)
                      /\ sent + i.wait >= Reserve + OwedTo(i)
    OBVIOUS
  <2>1. i.wait \in Int /\ i.wait >= 0 /\ tokens + i.wait + Owed <= Reserve + OwedTo(i)
        /\ sent + i.wait >= Reserve + OwedTo(i)
    BY DEF PacerInv, Granted, Covered, Owned, WritesTypeOK, Jobs
  <2>2. j.wait <= i.wait
    BY <2>1
  <2>3. j.wait < i.wait
    BY <2>2 DEF PacerInv, Spaced
  <2>4. i.id # c
    BY DEF Owned, OneOwner, Paced
  <2> QED
    BY <2>1, <2>3, <2>4
<1>4. \A i \in jobs' : Paced(i) => i \in jobs \ {j}
  BY DEF Paced
<1>5. Queue' = Queue \ {c} /\ c \in Queue
  BY <1>2, <1>3, <1>4 DEF Queue, Paced
<1>6. \A i \in jobs \ {j} : Paced(i) => UpTo(i)' = UpTo(i) \ {c} /\ c \in UpTo(i)
  <2> SUFFICES ASSUME NEW i \in jobs \ {j}, Paced(i) PROVE UpTo(i)' = UpTo(i) \ {c} /\ c \in UpTo(i)
    OBVIOUS
  <2>1. j.wait <= i.wait
    BY <1>3
  <2>2. c \in UpTo(i)
    BY <1>2, <2>1 DEF UpTo
  <2>3. \A d \in Coids : (\E m \in jobs' : Paced(m) /\ m.id = d /\ m.wait <= i.wait)
                         <=> d # c /\ \E m \in jobs : Paced(m) /\ m.id = d /\ m.wait <= i.wait
    BY <1>3, <1>4
  <2> QED
    BY <2>2, <2>3 DEF UpTo, Paced
<1>7. UpTo(j) = {c}
  <2>1. \A i \in jobs \ {j} : Paced(i) => ~(i.wait <= j.wait)
    BY <1>3
  <2> QED
    BY <1>2, <2>1 DEF UpTo
<1> HIDE DEF c
<1>8. /\ Cardinality(Queue') = Cardinality(Queue) - 1 /\ Cardinality(Queue) \in Nat
      /\ Cardinality(Queue') \in Nat
  <2>1. Cardinality(Queue') = Cardinality(Queue) - 1 /\ IsFiniteSet(Queue')
    BY <1>5, Finite, FS_RemoveElement
  <2> QED
    BY <2>1, Finite, FS_CardinalityType
<1>9. \A i \in jobs \ {j} : Paced(i) => /\ Cardinality(UpTo(i)') = Cardinality(UpTo(i)) - 1
                                        /\ Cardinality(UpTo(i)) \in Nat /\ Cardinality(UpTo(i)') \in Nat
  <2> SUFFICES ASSUME NEW i \in jobs \ {j}, Paced(i)
               PROVE  /\ Cardinality(UpTo(i)') = Cardinality(UpTo(i)) - 1
                      /\ Cardinality(UpTo(i)) \in Nat /\ Cardinality(UpTo(i)') \in Nat
    OBVIOUS
  <2>1. Cardinality(UpTo(i)') = Cardinality(UpTo(i)) - 1 /\ IsFiniteSet(UpTo(i)')
    BY <1>6, Finite, FS_RemoveElement
  <2> QED
    BY <2>1, Finite, FS_CardinalityType
<1>10. Owed = Owed' + CostCreate /\ Owed' \in Nat
  <2>1. Cardinality(Queue) = Cardinality(Queue') + 1
    BY <1>8
  <2> QED
    BY <1>8, <2>1, OneMore, WriterAssumption DEF Owed
<1>11. \A i \in jobs \ {j} : Paced(i) => OwedTo(i) = OwedTo(i)' + CostCreate /\ OwedTo(i)' \in Nat
  <2> SUFFICES ASSUME NEW i \in jobs \ {j}, Paced(i) PROVE OwedTo(i) = OwedTo(i)' + CostCreate /\ OwedTo(i)' \in Nat
    OBVIOUS
  <2>1. Cardinality(UpTo(i)) = Cardinality(UpTo(i)') + 1 /\ Cardinality(UpTo(i)') \in Nat
    BY <1>9
  <2> QED
    BY <2>1, OneMore, WriterAssumption DEF OwedTo
<1>12. Cardinality(UpTo(j)) = 1 /\ OwedTo(j) = CostCreate
  <2>1. Cardinality(UpTo(j)) = 1
    BY <1>7, FS_Singleton
  <2> QED
    BY <1>1, <2>1 DEF OwedTo
<1>13. sent - CostCreate >= Reserve
  <2>1. sent + 0 >= Reserve + OwedTo(j)
    BY DEF PacerInv, Covered
  <2> QED
    BY <1>1, <1>12, <2>1
<1>14. Sent'
  <2> DEFINE o == Owed'
  <2>1. o \in Nat /\ Owed = o + CostCreate
    BY <1>10
  <2> HIDE DEF o
  <2>2. sent - CostCreate <= Size /\ sent - CostCreate >= tokens + o
    BY <1>1, <2>1
  <2> QED
    BY <2>2 DEF Sent, o
<1>15. Covered'
  <2>1. \A i \in jobs \ {j} : Paced(i) => i.wait >= 0 /\ (sent - CostCreate) + i.wait >= Reserve + OwedTo(i)'
    BY <1>1, <1>3, <1>11
  <2> QED
    BY <1>4, <2>1, WriterAssumption DEF Covered, Paced
<1>16. Granted'
  <2>1. \A i \in jobs \ {j} : Paced(i) => tokens + i.wait + Owed' <= Reserve + OwedTo(i)'
    BY <1>1, <1>3, <1>10, <1>11
  <2> QED
    BY <1>4, <2>1 DEF Granted, Paced
<1>17. Spaced'
  <2>1. \A i, m \in jobs \ {j} : Paced(i) /\ Paced(m) /\ i.wait <= m.wait =>
          /\ m.wait + OwedTo(i) >= i.wait + OwedTo(m)
          /\ i # m => i.wait < m.wait
    BY DEF PacerInv, Spaced
  <2>2. \A i, m \in jobs \ {j} : Paced(i) /\ Paced(m) /\ i.wait <= m.wait =>
          /\ m.wait + OwedTo(i)' >= i.wait + OwedTo(m)'
          /\ i # m => i.wait < m.wait
    BY <1>1, <1>3, <1>11, <2>1
  <2> QED
    BY <1>4, <2>2 DEF Spaced, Paced
<1>18. Ranked'
  <2> SUFFICES ASSUME NEW n \in 1 .. Cardinality(Queue')
               PROVE  \E i \in jobs' : Paced(i) /\ Cardinality(UpTo(i)') = n
    BY DEF Ranked, Paced
  <2>1. n + 1 \in 1 .. Cardinality(Queue) /\ n \in Int /\ n >= 1
    BY <1>8
  <2>2. PICK i \in jobs : Paced(i) /\ Cardinality(UpTo(i)) = n + 1
    BY <2>1 DEF PacerInv, Ranked
  <2>3. i # j
    BY <1>12, <2>1, <2>2
  <2> QED
    BY <1>9, <2>1, <2>2, <2>3
<1>19. Idle'
  BY <1>4 DEF PacerInv, Idle, Paced
<1> QED
  BY <1>13, <1>14, <1>15, <1>16, <1>17, <1>18, <1>19 DEF PacerInv

-----------------------------------------------------------------------------
(* The steps of the executor *)

\* a priority write draws the bucket down, and nothing of what the others may draw
LEMMA PriorityAcquire ==
  ASSUME tokens \in Int, NEW cost \in Nat, NEW fit, acquire_async(cost, TRUE, fit)
  PROVE  sent' = sent /\ tokens' = tokens - cost /\ tokens' <= tokens
<1>1. tokens - cost <= tokens
  OBVIOUS
<1> QED
  BY <1>1 DEF acquire_async, Leave

\* the steps of coroutines that do not sleep in the pacer, and end nowhere near it
LEMMA PacerQuiet ==
  ASSUME Owned, PacerInv, UNCHANGED sent, tokens' \in Int, tokens' <= tokens,
         NEW j, ~Paced(j), NEW M, \A k \in M : ~Paced(k), jobs' = (jobs \ {j}) \cup M
  PROVE  PacerInv'
<1>1. /\ \A i \in jobs : Paced(i) => i \in jobs'
      /\ \A i \in jobs' : Paced(i) => i \in jobs
  OBVIOUS
<1> QED
  BY <1>1, PacerFrame

\* A create joins the end of the queue, paced.
LEMMA PlacePacer ==
  ASSUME Owned, PacerInv, NEW c \in Coids, _place_rest_async(c)
  PROVE  PacerInv' /\ (sent' < sent => sent' >= Reserve)
<1> DEFINE w == PaceWait(CostCreate, FALSE, FALSE)  j == NewJob("create", c)
<1>1. tokens \in Int /\ sent \in Int /\ CostCreate \in Int /\ Reserve \in Int /\ CostCreate > 0
  BY WriterAssumption DEF Owned, WritesTypeOK
<1>2. w = IF tokens < CostCreate + Reserve THEN CostCreate + Reserve - tokens ELSE 0
  BY DEF PaceWait, Floor
<1>3. \A i \in jobs : i.op # "wing" => i.id # c
  BY NewHasNoJob DEF _place_rest_async, MayPlace
<1>4. j \in Jobs /\ j.op = "create" /\ j.id = c
  BY NewJobJob DEF Ops
<1>5. \/ UNCHANGED <<jobs, pacer>>
      \/ /\ acquire_async(CostCreate, FALSE, FALSE)
         /\ jobs' = jobs \cup {IF w > 0 THEN Sleep(j, "paced", w) ELSE Await(j, "list")}
  BY DEF _place_rest_async
<1> HIDE DEF w, j
<1>6. CASE UNCHANGED <<jobs, pacer>>
  BY <1>1, <1>6, PacerFrame DEF pacer
<1>7. CASE /\ tokens < CostCreate + Reserve
           /\ acquire_async(CostCreate, FALSE, FALSE)
           /\ jobs' = jobs \cup {IF w > 0 THEN Sleep(j, "paced", w) ELSE Await(j, "list")}
  <2>1. w = CostCreate + Reserve - tokens /\ w > 0 /\ w \in Int
    BY <1>1, <1>2, <1>7
  <2>2. tokens' = tokens - CostCreate /\ sent' = sent
    <3>1. PaceWait(CostCreate, FALSE, FALSE) # 0
      <4>1. w # 0
        BY <2>1
      <4> QED
        BY <4>1 DEF w
    <3> QED
      BY <1>7, <3>1, Zenon DEF acquire_async
  <2> DEFINE k == Sleep(j, "paced", w)
  <2>3. "paced" \in Steps
    BY DEF Steps
  <2>4. k.op = "create" /\ k.id = c /\ k.step = "paced" /\ k.http = "idle" /\ k.wait = w
    BY <1>4, <2>1, <2>3, SleepJob
  <2>5. jobs' = jobs \cup {k}
    BY <1>7, <2>1
  <2> HIDE DEF k
  <2>6. PacerInv'
    BY <1>3, <1>7, <2>1, <2>2, <2>4, <2>5, PacerEnqueue DEF Paced
  <2> QED
    BY <1>1, <2>2, <2>6
<1>8. CASE /\ ~(tokens < CostCreate + Reserve)
           /\ acquire_async(CostCreate, FALSE, FALSE)
           /\ jobs' = jobs \cup {IF w > 0 THEN Sleep(j, "paced", w) ELSE Await(j, "list")}
  <2>1. w = 0 /\ tokens >= CostCreate + Reserve
    BY <1>1, <1>2, <1>8
  <2>2. tokens' = tokens - CostCreate /\ sent' = sent - CostCreate
    BY <1>8, <2>1 DEF acquire_async, Leave, w
  <2> DEFINE k == Await(j, "list")
  <2>3. "list" \in Steps
    BY DEF Steps
  <2>4. k.step = "list"
    BY <1>4, <2>3, AwaitJob
  <2>5. jobs' = jobs \cup {k}
    BY <1>8, <2>1
  <2> HIDE DEF k
  <2> QED
    BY <2>1, <2>2, <2>4, <2>5, PacerRoom
<1> QED
  BY <1>5, <1>6, <1>7, <1>8

\* A paced coroutine sends what it reserved; any other wake sends a retry.
LEMMA WakePacer ==
  ASSUME Owned, PacerInv, NEW j \in jobs, Wake(j)
  PROVE  PacerInv' /\ (sent' < sent => sent' >= Reserve)
<1> DEFINE step == CASE j.step = "paced" -> (IF j.op = "create" THEN "list" ELSE "post")
                     [] j.step = "throttled" -> "post"
                     [] j.step = "settle" -> "relist"
                     [] OTHER -> "delete"
           k == Await(j, step)
<1>1. j \in Jobs /\ j.wait = 0 /\ tokens \in Int /\ sent \in Int
  BY DEF Owned, WritesTypeOK, Wake, Due
<1>2. step \in Steps /\ step # "paced"
  BY DEF Steps
<1> HIDE DEF step
<1>3. k.step # "paced"
  BY <1>1, <1>2, AwaitJob
<1>4. jobs' = (jobs \ {j}) \cup {k} /\ tokens' = tokens
  BY DEF Wake, step
<1> HIDE DEF k
<1>5. CASE Paced(j)
  <2>1. sent' = sent - CostCreate
    BY <1>5 DEF Wake, Paced, Leave, PacedCost
  <2> QED
    BY <1>1, <1>3, <1>4, <1>5, <2>1, PacerWake
<1>6. CASE ~Paced(j)
  <2>1. sent' = sent
    BY <1>6 DEF Wake, Paced, Leave
  <2> DEFINE M == {k}
  <2>2. \A m \in M : ~Paced(m)
    BY <1>3 DEF Paced
  <2>3. jobs' = (jobs \ {j}) \cup M /\ tokens' \in Int /\ tokens' <= tokens
    BY <1>1, <1>4
  <2> HIDE DEF M
  <2>4. PacerInv'
    BY <1>6, <2>1, <2>2, <2>3, PacerQuiet
  <2> QED
    BY <1>1, <2>1, <2>4
<1> QED
  BY <1>5, <1>6

\* Every step keeps the pacer's invariant, and what is sent leaves the reserve untouched.
LEMMA NextPacer == Owned /\ PacerInv /\ [Next]_vars => PacerInv' /\ (sent' < sent => sent' >= Reserve)
<1> SUFFICES ASSUME Owned, PacerInv, [Next]_vars
             PROVE  PacerInv' /\ (sent' < sent => sent' >= Reserve)
  OBVIOUS
<1>1. tokens \in Int /\ sent \in Int /\ tokens' \in Int /\ sent' \in Int /\ tokens <= tokens /\ ~(sent < sent)
  BY NextOwned DEF Owned, WritesTypeOK
<1>2. jobs \subseteq Jobs /\ CostCreate \in Nat /\ CostCancel \in Nat
  BY WriterAssumption DEF Owned, WritesTypeOK
<1>3. ASSUME sent' = sent, PacerInv' PROVE PacerInv' /\ (sent' < sent => sent' >= Reserve)
  BY <1>1, <1>3
\* the start of a round trip
<1>4. CASE Dispatch
  <2>1. PICK j \in jobs : _run_off_loop(j)
    BY <1>4 DEF Dispatch
  <2> DEFINE k == [j EXCEPT !.http = "running"]
  <2>2. jobs' = (jobs \ {j}) \cup {k} /\ j.http = "queued" /\ UNCHANGED <<tokens, sent>>
    BY <2>1 DEF _run_off_loop, CanRun, pacer
  <2>3. ~Paced(j)
    BY <2>2 DEF PacerInv, Idle
  <2>4. ~Paced(k)
    BY <1>2, <2>3 DEF Paced, Jobs
  <2> HIDE DEF k
  <2> DEFINE M == {k}
  <2>5. jobs' = (jobs \ {j}) \cup M /\ \A m \in M : ~Paced(m)
    BY <2>2, <2>4
  <2> HIDE DEF M
  <2> QED
    BY <1>1, <1>3, <2>2, <2>3, <2>5, PacerQuiet
\* a wing take
<1>5. ASSUME NEW j \in Jobs, j.op = "wing", NEW i \in SubBatches, SendSubBatch(j, i)
      PROVE  PacerInv' /\ (sent' < sent => sent' >= Reserve)
  <2> DEFINE b == [j EXCEPT !.batch = i, !.tries = 0]  cost == CostCreate * SubBatch(i)
             M == {IF PaceWait(cost, TRUE, i > 1) > 0 THEN Sleep(b, "paced", PaceWait(cost, TRUE, i > 1))
                   ELSE Await(b, "post")}
  <2>1. cost \in Nat
    <3>1. SubBatch(i) \in Int /\ SubBatch(i) > 0
      BY SubBatchInt DEF SubBatches
    <3> QED
      BY <1>2, <3>1
  <2>2. acquire_async(cost, TRUE, i > 1) /\ jobs' = (jobs \ {j}) \cup M
    BY <1>5 DEF SendSubBatch
  <2>3. \A m \in M : ~Paced(m)
    BY <1>5 DEF Sleep, Await, Jobs, Paced
  <2> HIDE DEF M, cost
  <2>4. sent' = sent /\ tokens' <= tokens
    BY <1>1, <2>1, <2>2, PriorityAcquire
  <2>5. ~Paced(j)
    BY <1>5 DEF Paced
  <2> QED
    BY <1>1, <1>3, <2>2, <2>3, <2>4, <2>5, PacerQuiet
<1>6. CASE Core
  <2>1. ASSUME NEW c \in Coids, _cancel_rest_async(c) PROVE PacerInv' /\ (sent' < sent => sent' >= Reserve)
    <3>1. acquire_async(CostCancel, TRUE, FALSE)
      BY <2>1 DEF _cancel_rest_async
    <3>2. sent' = sent /\ tokens' <= tokens
      BY <1>1, <1>2, <3>1, PriorityAcquire
    <3>3. jobs' = jobs \/ jobs' = jobs \cup {Await(NewJob("cancel", c), "delete")}
      BY <2>1 DEF _cancel_rest_async, CancelDeferred
    <3>4. ~Paced(Await(NewJob("cancel", c), "delete"))
      BY NewCancelJob DEF Paced
    <3> QED
      BY <1>1, <1>3, <3>2, <3>3, <3>4, PacerFrame
  <2>2. ASSUME NEW w \in Wings, _take_wings_send(w) PROVE PacerInv' /\ (sent' < sent => sent' >= Reserve)
    BY <1>5, <2>2, NewJobJob DEF _take_wings_send, Ops
  <2> QED
    BY <1>6, <2>1, <2>2, PlacePacer DEF Core
<1>7. CASE Venue
  BY <1>1, <1>3, <1>7, PacerFrame DEF Venue, cancel_stale_open_orders, VenueFill, pacer
<1>8. CASE Proxy
  <2>1. PICK j \in jobs : rest_post(j) \/ rest_delete(j) \/ rest_get(j)
    BY <1>8 DEF Proxy
  <2>2. PICK ans \in Answers, seen \in SUBSET Orders : Answer(j, ans, seen)
    <3>1. j.seen \in SUBSET Orders
      BY <1>2 DEF Jobs
    <3> QED
      BY <2>1, <3>1 DEF rest_post, rest_delete, rest_get, Answers
  <2>3. PICK k \in Jobs : jobs' = (jobs \ {j}) \cup {k} /\ k.op = j.op /\ k.step = j.step
    BY <1>2, <2>2, AnswerJob
  <2>4. UNCHANGED <<tokens, sent>> /\ ~Paced(j)
    BY <2>1 DEF rest_post, rest_delete, rest_get, pacer, Paced
  <2> DEFINE M == {k}
  <2>5. jobs' = (jobs \ {j}) \cup M /\ \A m \in M : ~Paced(m)
    BY <2>3, <2>4 DEF Paced
  <2> HIDE DEF M
  <2> QED
    BY <1>1, <1>3, <2>4, <2>5, PacerQuiet
\* the coroutine of a create goes on from its list or from a stray
<1>9. ASSUME NEW j \in jobs, j.step \in {"list", "relist", "stray"}, _skip_before_post(j), UNCHANGED pacer
      PROVE  PacerInv' /\ (sent' < sent => sent' >= Reserve)
  <2> DEFINE k == Await(j, "post")
  <2>1. k.step = "post"
    BY <1>2, AwaitJob DEF Steps
  <2> HIDE DEF k
  <2>2. PICK M \in {{}, {k}} : jobs' = (jobs \ {j}) \cup M
    BY <1>9 DEF _skip_before_post, k
  <2>3. ~Paced(j) /\ \A m \in M : ~Paced(m)
    BY <1>9, <2>1 DEF Paced
  <2> QED
    BY <1>1, <1>3, <1>9, <2>2, <2>3, PacerQuiet DEF pacer
<1>10. ASSUME NEW j \in jobs, j.step \in {"list", "relist", "stray"}, acquire_async(CostCancel, TRUE, FALSE),
              NEW S \in SUBSET Orders, jobs' = (jobs \ {j}) \cup {[Await(j, "stray") EXCEPT !.seen = S]}
       PROVE  PacerInv' /\ (sent' < sent => sent' >= Reserve)
  <2> DEFINE M == {[Await(j, "stray") EXCEPT !.seen = S]}
  <2>1. \A m \in M : ~Paced(m)
    BY <1>2 DEF Await, Jobs, Paced
  <2>2. jobs' = (jobs \ {j}) \cup M /\ ~Paced(j)
    BY <1>10 DEF Paced
  <2> HIDE DEF M
  <2>3. sent' = sent /\ tokens' <= tokens
    BY <1>1, <1>2, <1>10, PriorityAcquire
  <2> QED
    BY <1>1, <1>3, <2>1, <2>2, <2>3, PacerQuiet
<1>11. ASSUME NEW j \in jobs, _pre_place_invariant_async(j) PROVE PacerInv' /\ (sent' < sent => sent' >= Reserve)
  <2> DEFINE seen == _exclude_cancelling(j.seen)
  <2>1. j.step \in {"list", "relist"} /\ StraysOf(seen) \in SUBSET Orders
    BY <1>2, <1>11 DEF _pre_place_invariant_async, StraysOf, _exclude_cancelling, Jobs
  <2>2. \/ _skip_before_post(j) /\ UNCHANGED pacer
        \/ jobs' = (jobs \ {j}) \cup {Sleep(j, "settle", RetryWait)} /\ UNCHANGED pacer
        \/ /\ acquire_async(CostCancel, TRUE, FALSE)
           /\ jobs' = (jobs \ {j}) \cup {[Await(j, "stray") EXCEPT !.seen = StraysOf(seen)]}
        \/ jobs' = (jobs \ {j}) \cup {} /\ UNCHANGED pacer
    BY <1>11 DEF _pre_place_invariant_async
  <2> HIDE DEF seen
  <2>3. CASE _skip_before_post(j) /\ UNCHANGED pacer
    BY <1>9, <2>1, <2>3
  <2>4. CASE /\ acquire_async(CostCancel, TRUE, FALSE)
             /\ jobs' = (jobs \ {j}) \cup {[Await(j, "stray") EXCEPT !.seen = StraysOf(seen)]}
    BY <1>10, <2>1, <2>4
  <2>5. ASSUME NEW M \in {{}, {Sleep(j, "settle", RetryWait)}}, jobs' = (jobs \ {j}) \cup M, UNCHANGED pacer
        PROVE  PacerInv' /\ (sent' < sent => sent' >= Reserve)
    <3>1. Sleep(j, "settle", RetryWait).step = "settle"
      BY <1>2 DEF Sleep, Jobs
    <3>2. ~Paced(j) /\ \A m \in M : ~Paced(m)
      BY <2>1, <3>1 DEF Paced
    <3> QED
      BY <1>1, <1>3, <2>5, <3>2, PacerQuiet DEF pacer
  <2> QED
    BY <2>2, <2>3, <2>4, <2>5
<1>12. ASSUME NEW j \in jobs, _cancel_stray_async(j) PROVE PacerInv' /\ (sent' < sent => sent' >= Reserve)
  <2> DEFINE rest == j.seen \ Slot(j)
  <2>1. j.step = "stray" /\ rest \in SUBSET Orders
    BY <1>2, <1>12 DEF _cancel_stray_async, Jobs
  <2>2. \/ _skip_before_post(j) /\ UNCHANGED pacer
        \/ /\ acquire_async(CostCancel, TRUE, FALSE)
           /\ jobs' = (jobs \ {j}) \cup {[Await(j, "stray") EXCEPT !.seen = rest]}
    BY <1>12 DEF _cancel_stray_async
  <2> HIDE DEF rest
  <2> QED
    BY <1>9, <1>10, <2>1, <2>2
\* a coroutine that awaits the answer of its POST or of its DELETE
<1>13. ASSUME NEW j \in jobs, _place_rest_inflight_async(j) \/ _delete_and_resolve_async(j) \/ _apost(j)
       PROVE  PacerInv' /\ (sent' < sent => sent' >= Reserve)
  <2>1. j.step \in {"post", "delete"} /\ UNCHANGED <<tokens, sent>>
    BY <1>13 DEF _place_rest_inflight_async, _delete_and_resolve_async, _apost, pacer
  <2>2. PICK M : /\ jobs' = (jobs \ {j}) \cup M
                 /\ M \in {{}, {[Await(j, "delete") EXCEPT !.tries = 0]},
                           {[Sleep(j, "backoff", RetryWait) EXCEPT !.tries = @ + 1]},
                           {[Sleep(j, "throttled", RetryWait) EXCEPT !.tries = 1]}}
    <3>1. jobs \ {j} = (jobs \ {j}) \cup {}
      OBVIOUS
    <3> QED
      BY <1>13, <3>1 DEF _place_rest_inflight_async, _delete_and_resolve_async, _finish_cancel, _apost
  <2>3. \A m \in M : ~Paced(m)
    <3>1. /\ [Await(j, "delete") EXCEPT !.tries = 0].step = "delete"
          /\ [Sleep(j, "backoff", RetryWait) EXCEPT !.tries = @ + 1].step = "backoff"
          /\ [Sleep(j, "throttled", RetryWait) EXCEPT !.tries = 1].step = "throttled"
      BY <1>2 DEF Await, Sleep, Jobs
    <3> QED
      BY <2>2, <3>1 DEF Paced
  <2>4. ~Paced(j)
    BY <2>1 DEF Paced
  <2> QED
    BY <1>1, <1>3, <2>1, <2>2, <2>3, <2>4, PacerQuiet
<1>14. ASSUME NEW j \in jobs, NextSubBatch(j) PROVE PacerInv' /\ (sent' < sent => sent' >= Reserve)
  <2>1. j \in Jobs /\ j.op = "wing" /\ ~Paced(j)
    BY <1>2, <1>14 DEF NextSubBatch, Paced
  <2>2. CASE j.batch + 1 \in SubBatches
    BY <1>5, <1>14, <2>1, <2>2 DEF NextSubBatch
  <2>3. CASE j.batch + 1 \notin SubBatches
    <3>1. jobs' = jobs \ {j} /\ UNCHANGED <<tokens, sent>>
      BY <1>14, <2>3 DEF NextSubBatch, pacer
    <3>2. \A i \in jobs : Paced(i) => i \in jobs'
      BY <2>1, <3>1
    <3> QED
      BY <1>1, <1>3, <3>1, <3>2, PacerFrame
  <2> QED
    BY <2>2, <2>3
<1>15. CASE standdown_sweep_async
  <2> DEFINE cost == CostCancel * Cardinality(SweepTargets)
  <2>1. cost \in Nat
    <3>1. Cardinality(SweepTargets) \in Nat
      BY WritesAssumption, FS_Subset, FS_CardinalityType DEF SweepTargets
    <3> QED
      BY <1>2, <3>1
  <2>2. tokens' = tokens - cost /\ sent' = sent
    BY <1>15 DEF standdown_sweep_async, Leave
  <2> HIDE DEF cost
  <2>3. tokens' <= tokens
    <3>1. tokens - cost <= tokens
      BY <1>1, <2>1
    <3> QED
      BY <2>2, <3>1
  <2>4. /\ jobs \subseteq jobs' /\ \A k \in jobs' : k \in jobs \/ ~Paced(k)
    BY <1>15, NewCancelJob DEF standdown_sweep_async, SweepTargets, Paced
  <2> QED
    BY <1>1, <1>3, <2>2, <2>3, <2>4, PacerFrame
<1>16. CASE \E c \in Coids : on_fill(c)
  <2>1. UNCHANGED <<jobs, tokens, sent>>
    BY <1>16 DEF on_fill, pacer
  <2> QED
    BY <1>1, <1>3, <2>1, PacerFrame
<1>17. CASE Loop
  BY <1>11, <1>12, <1>13, <1>14, <1>15, <1>16, <1>17, WakePacer DEF Loop
<1>18. CASE Time
  BY <1>1, <1>18, PacerTick
<1>19. CASE UNCHANGED vars
  <2>1. UNCHANGED <<jobs, tokens, sent>>
    BY <1>19 DEF vars
  <2> QED
    BY <1>1, <1>3, <2>1, PacerFrame
<1> QED
  BY <1>4, <1>6, <1>7, <1>8, <1>17, <1>18, <1>19 DEF Next

\* The pacer's invariant holds when the hour begins.
LEMMA InitPacer == Init => PacerInv
<1> SUFFICES ASSUME Init PROVE PacerInv
  OBVIOUS
<1>1. jobs = {} /\ tokens = Size /\ sent = Size /\ Size \in Nat
  BY WriterAssumption DEF Init
<1>2. Queue = {}
  BY <1>1 DEF Queue
<1>3. Cardinality(Queue) = 0 /\ Owed = 0
  BY <1>2, FS_EmptySet, WriterAssumption DEF Owed
<1>4. Sent
  BY <1>1, <1>3 DEF Sent
<1>5. Ranked
  BY <1>3 DEF Ranked
<1> QED
  BY <1>1, <1>4, <1>5 DEF PacerInv, Covered, Granted, Spaced, Idle

\* WriteTokenBucket: a write that may wait (a create) leaves the pacer only when the
\* reserve stays behind it, however many creates sleep in acquire_async at the same
\* time, in whatever order priority writes come between
THEOREM HeadroomKeptTheorem == Spec => HeadroomKept
<1>1. Owned /\ PacerInv /\ [Next]_vars => [sent' < sent => sent' >= Reserve]_<<jobs, tokens, sent>>
  BY NextPacer
<1> QED
  BY <1>1, InitOwned, NextOwned, InitPacer, NextPacer, PTL DEF Spec, HeadroomKept
=============================================================================
