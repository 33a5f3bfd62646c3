-------------------------- MODULE SupervisorProofs --------------------------
(***************************************************************************)
(* Proofs about Supervisor: type correctness, that every live child is in  *)
(* the hands of the wait loop unless a spawn raised, that no close is run  *)
(* twice or missed and that a stop is bounded, for every set of rosters,   *)
(* every command line and every length of the hour and the graces.         *)
(***************************************************************************)
EXTENDS Supervisor, TLAPS

Waiting == {"launch", "poll", "reap", "watchdog"}

\* Children are waited for only inside a window, a wait is over when nobody is waited for, and the
\* loops that reap children go through everybody who is.  A launch has no child yet for those it has
\* still to handle.
PendingHandled ==
    /\ pending # {} => phase \in Waiting \cup {"crashed"}
    /\ phase = "poll" => pending # {}
    /\ phase \in {"reap", "watchdog"} => pending \subseteq todo
    /\ phase = "launch" => pending \cap todo = {}

IInv == TypeOK /\ LiveChildrenWatched /\ PendingHandled

\* The rosters a process hosts are rosters.
LEMMA HostedRosters == ASSUME host \in Hosts PROVE Hosted \subseteq Rosters
  BY HostsAssumption DEF Hosted

\* Adding a span of at most an hour to a time gives a time.
LEMMA PlusType == ASSUME NEW t \in Clocks, NEW d \in 0..Hour PROVE Plus(t, d) \in Clocks
  BY TimesAssumption DEF Plus, Clocks

\* The initial states satisfy the invariant.
LEMMA InitIInv == Init => IInv
<1> SUFFICES ASSUME Init PROVE IInv
  OBVIOUS
<1>1. clock \in Clocks /\ until \in Clocks
  BY TimesAssumption DEF Init, Clocks
<1>2. /\ last \in [Rosters -> Nat] /\ child \in [Rosters -> {"none", "live", "exited"}]
      /\ runs \in [Rosters -> SUBSET Nat]
  BY DEF Init
<1>3. spent \in Nat /\ start \in Nat
  BY TimesAssumption DEF Init
<1>4. /\ first \in BOOLEAN /\ stop \in BOOLEAN /\ host \in Hosts
      /\ pending \subseteq Hosted /\ todo \subseteq Hosted
      /\ phase = "boot" /\ todo # {}
  <2>1. /\ host \in Hosts /\ todo = Hosted /\ phase = "boot"
        /\ first = TRUE /\ stop = FALSE /\ pending = {}
    BY DEF Init
  <2>2. host.rosters \in Seq(Rosters) /\ host.rosters # << >>
    BY <2>1, HostsAssumption
  <2>3. 1 \in DOMAIN host.rosters
    BY <2>2
  <2> QED
    BY <2>1, <2>3 DEF Hosted
<1>5. TypeOK
  BY <1>1, <1>2, <1>3, <1>4 DEF TypeOK
<1>6. LiveChildrenWatched /\ PendingHandled
  BY DEF Init, LiveChildrenWatched, PendingHandled, Waiting
<1> QED
  BY <1>5, <1>6 DEF IInv

\* Every step preserves it.
LEMMA NextIInv == IInv /\ [Next]_vars => IInv'
<1> SUFFICES ASSUME IInv, [Next]_vars PROVE IInv'
  OBVIOUS
<1> USE TimesAssumption, HostedRosters DEF IInv, Gone
<1>1. ASSUME NEW r \in Rosters, BootSweep(r) PROVE IInv'
  BY <1>1 DEF BootSweep, Turn, TypeOK, LiveChildrenWatched, PendingHandled, Waiting, times, Hosted
<1>2. CASE SleepToForty
  BY <1>2 DEF SleepToForty, next_forty, Clocks, TypeOK, LiveChildrenWatched, PendingHandled, Waiting,
    times, Hosted
<1>3. CASE GoOn
  BY <1>3 DEF GoOn, TypeOK, LiveChildrenWatched, PendingHandled, Waiting, times, Hosted
<1>4. CASE Wakes
  BY <1>4 DEF Wakes, TypeOK, LiveChildrenWatched, PendingHandled, Waiting, times, Hosted
<1>5. CASE CloseAlreadyRun
  BY <1>5 DEF CloseAlreadyRun, next_forty, Clocks, TypeOK, LiveChildrenWatched, PendingHandled,
    Waiting, times, Hosted
<1>6. CASE BeginLaunch
  BY <1>6 DEF BeginLaunch, next_top_of_hour, Clocks, TypeOK, LiveChildrenWatched, PendingHandled,
    Waiting, times, Hosted
<1>7. CASE ForwardStop
  BY <1>7, PlusType DEF ForwardStop, TypeOK, LiveChildrenWatched, PendingHandled, Waiting, times,
    Hosted
<1>8. CASE WatchdogFires
  BY <1>8, PlusType DEF WatchdogFires, TypeOK, LiveChildrenWatched, PendingHandled, Waiting, times,
    Hosted
<1>9. ASSUME NEW r \in Rosters, Spawn(r) PROVE IInv'
  BY <1>9 DEF Spawn, Turn, close_epoch, next_top_of_hour, Clocks, TypeOK, LiveChildrenWatched,
    PendingHandled, Waiting, times, Hosted
<1>10. ASSUME NEW r \in Rosters, Collect(r) PROVE IInv'
  BY <1>10 DEF Collect, AfterWait, TypeOK, LiveChildrenWatched, PendingHandled, Waiting, times, loop,
    Hosted
<1>11. ASSUME NEW r \in Rosters, ReapNext(r) PROVE IInv'
  BY <1>11 DEF ReapNext, Reaped, Turn, TypeOK, LiveChildrenWatched, PendingHandled, Waiting, times,
    Hosted
<1>12. ASSUME NEW r \in Rosters, WatchdogNext(r) PROVE IInv'
  BY <1>12, PlusType DEF WatchdogNext, Reaped, Turn, AfterWait, TypeOK, LiveChildrenWatched,
    PendingHandled, Waiting, times, Hosted
<1>13. ASSUME NEW r \in Rosters, ChildExits(r) PROVE IInv'
  BY <1>13 DEF ChildExits, TypeOK, LiveChildrenWatched, PendingHandled, Waiting, times, loop, Hosted
<1>14. CASE Signal
  BY <1>14 DEF Signal, Gone, TypeOK, LiveChildrenWatched, PendingHandled, Waiting, loop, Hosted
<1>15. CASE Tick
  <2>1. spent' \in Nat
    BY <1>15 DEF Tick, TypeOK
  <2>2. clock' \in Clocks
    <3>1. clock \in Clocks /\ 1 \in 0..Hour
      BY DEF TypeOK
    <3> QED
      BY ONLY <3>1, <1>15, PlusType DEF Tick
  <2> QED
    BY <1>15, <2>1, <2>2 DEF Tick, TypeOK, LiveChildrenWatched, PendingHandled, Waiting, Hosted
<1>16. CASE UNCHANGED vars
  BY <1>16 DEF vars, times, loop, TypeOK, LiveChildrenWatched, PendingHandled, Waiting, Hosted
<1>17. ASSUME NEW r \in Rosters, SpawnRaises(r) PROVE IInv'
  <2>1. r \in Hosted' \ pending' /\ last'[r] = start'
    BY <1>17 DEF SpawnRaises, Turn, TypeOK, PendingHandled, Hosted
  <2> QED
    BY <1>17, <2>1 DEF SpawnRaises, close_epoch, next_top_of_hour, Clocks, TypeOK, Gone,
      LiveChildrenWatched, PendingHandled, Waiting, times, Hosted
<1> QED
  BY <1>1, <1>2, <1>3, <1>4, <1>5, <1>6, <1>7, <1>8, <1>9, <1>10, <1>11, <1>12, <1>13, <1>14, <1>15,
    <1>16, <1>17 DEF Next

\* In every reachable state of every instance the types hold and a for loop is under way exactly
\* while it has rosters left (MultiRosterSupervisor.run and its wait loops).
THEOREM SupervisorTypeCorrect == Spec => []TypeOK
<1>1. IInv => TypeOK
  BY DEF IInv
<1> QED
  BY <1>1, InitIInv, NextIInv, PTL DEF Spec

\* No path of the supervisor's loop, no signal and no return of run leaves a child process running
\* that nobody waits for, whatever the rosters, the graces and the timing; only the exception of a
\* spawn does (supervisor.py:898), and then some hosted roster has its close marked and no child.
THEOREM LiveChildrenWatchedTheorem == Spec => []LiveChildrenWatched
<1>1. IInv => LiveChildrenWatched
  BY DEF IInv
<1> QED
  BY <1>1, InitIInv, NextIInv, PTL DEF Spec

(***************************************************************************)
(* One run per close.  The record last of a roster is that of the close at *)
(* hand whenever the roster has run for it, so that whoever is due has not *)
(* run for it; only a launch during which the hour ends escapes.           *)
(***************************************************************************)

Slipped == clock.h \in slipped

RunsRecorded ==
    \A r \in Rosters :
        /\ \A c \in runs[r] : c <= clock.h + 1
        /\ (clock.h + 1 \in runs[r] /\ ~Slipped) => last[r] = clock.h + 1

NothingRunYet == \A r \in Rosters : runs[r] = {}

LaunchFresh ==
    /\ first => NothingRunYet /\ phase \in {"boot", "loop", "sleep", "exited"}
    /\ phase = "due" => in_launch_band(clock) \/ NothingRunYet
    /\ phase = "launch" => start = clock.h + 1 \/ Slipped
    /\ phase = "launch" => \A r \in todo : clock.h + 1 \notin runs[r] \/ Slipped

RInv == IInv /\ RunsRecorded /\ LaunchFresh

\* The strengthened invariant holds when the process starts.
LEMMA InitRInv == Init => RInv
  BY InitIInv DEF Init, RInv, RunsRecorded, LaunchFresh, NothingRunYet

\* A tick stays within the hour or begins the next one.
LEMMA TickHour == ASSUME TypeOK, Tick
                  PROVE clock'.h = clock.h \/ clock'.h = clock.h + 1
  BY TimesAssumption DEF TypeOK, Tick, Plus, Clocks

\* Every step preserves it: a spawn books the close it runs for, unless the hour ended meanwhile.
LEMMA NextRInv == RInv /\ [Next]_vars => RInv'
<1> SUFFICES ASSUME RInv, [Next]_vars PROVE RunsRecorded' /\ LaunchFresh'
  BY NextIInv DEF RInv
<1> USE DEF RInv, IInv
<1>1. CASE GoOn
  BY <1>1 DEF GoOn, Forced, RunsRecorded, LaunchFresh, NothingRunYet, Slipped, in_launch_band, times
<1>2. CASE BeginLaunch
  <2>1. \A r \in Rosters : due(r) => clock.h + 1 \notin runs[r] \/ Slipped
    BY <1>2 DEF BeginLaunch, due, next_top_of_hour, RunsRecorded, LaunchFresh, NothingRunYet
  <2>2. Hosted \subseteq Rosters
    BY HostedRosters DEF TypeOK
  <2> QED
    BY <1>2, <2>1, <2>2 DEF BeginLaunch, next_top_of_hour, RunsRecorded, LaunchFresh, NothingRunYet,
      Slipped, times
<1>3. ASSUME NEW r \in Rosters, Spawn(r) PROVE RunsRecorded' /\ LaunchFresh'
  <2>1. close_epoch = clock.h + 1 \/ Slipped
    BY <1>3 DEF Spawn, close_epoch, next_top_of_hour, LaunchFresh
  <2>2. UNCHANGED <<clock, slipped, first>> /\ phase = "launch"
    BY <1>3 DEF Spawn, times
  <2>3. /\ last' = [last EXCEPT ![r] = close_epoch] /\ start' = close_epoch
        /\ runs' = [runs EXCEPT ![r] = @ \cup {clock.h + 1}]
        /\ todo' = todo \ {r}
        /\ phase' \in {"poll", "launch"}
    BY <1>3 DEF Spawn, next_top_of_hour
  <2>4. clock.h \in Nat /\ last \in [Rosters -> Nat] /\ runs \in [Rosters -> SUBSET Nat]
    BY DEF TypeOK, Clocks
  <2>5. RunsRecorded'
    BY <2>1, <2>2, <2>3, <2>4 DEF RunsRecorded, Slipped
  <2>6. todo \subseteq Rosters
    BY HostedRosters DEF TypeOK
  <2>7. first => FALSE
    BY <2>2 DEF LaunchFresh, NothingRunYet
  <2> QED
    BY <2>1, <2>2, <2>3, <2>4, <2>5, <2>6, <2>7 DEF LaunchFresh, Slipped
<1>4. CASE Tick
  <2>1. UNCHANGED <<runs, last, start, todo, first, phase>> /\ phase # "due"
    BY <1>4 DEF Tick, WaitOver
  <2>2. CASE clock'.h = clock.h
    BY <2>1, <2>2, <1>4 DEF Tick, RunsRecorded, LaunchFresh, NothingRunYet, Slipped
  <2>3. CASE clock'.h = clock.h + 1
    <3>1. clock.h \in Nat /\ runs \in [Rosters -> SUBSET Nat]
      BY DEF TypeOK, Clocks
    <3>2. clock'.h + 1 > clock.h + 1 /\ clock'.h # clock.h
      BY <3>1, <2>3
    <3>3. phase = "launch" => Slipped'
      BY <1>4, <3>2 DEF Tick, Slipped
    <3> QED
      BY <2>1, <3>1, <3>2, <3>3, <2>3 DEF RunsRecorded, LaunchFresh, NothingRunYet
  <2> QED
    BY <2>2, <2>3, <1>4, TickHour
<1>5. ASSUME NEW r \in Rosters,
             BootSweep(r) \/ Collect(r) \/ ReapNext(r) \/ WatchdogNext(r) \/ ChildExits(r)
      PROVE RunsRecorded' /\ LaunchFresh'
  BY <1>5 DEF BootSweep, Collect, ReapNext, WatchdogNext, ChildExits, AfterWait, RunsRecorded, LaunchFresh,
    NothingRunYet, Slipped, in_launch_band, times, loop
<1>6. CASE \/ SleepToForty \/ Wakes \/ CloseAlreadyRun \/ ForwardStop \/ WatchdogFires
           \/ Signal \/ UNCHANGED vars
  BY <1>6 DEF SleepToForty, Wakes, CloseAlreadyRun, ForwardStop, WatchdogFires, Signal, vars,
    RunsRecorded, LaunchFresh, NothingRunYet, Slipped, in_launch_band, times, loop
<1>7. ASSUME NEW r \in Rosters, SpawnRaises(r) PROVE RunsRecorded' /\ LaunchFresh'
  <2>1. close_epoch = clock.h + 1 \/ Slipped
    BY <1>7 DEF SpawnRaises, close_epoch, next_top_of_hour, LaunchFresh
  <2>2. UNCHANGED <<clock, slipped, first, runs>> /\ phase = "launch" /\ phase' = "crashed"
        /\ last' = [last EXCEPT ![r] = close_epoch]
    BY <1>7 DEF SpawnRaises, times
  <2>3. clock.h \in Nat /\ last \in [Rosters -> Nat]
    BY DEF TypeOK, Clocks
  <2>4. RunsRecorded'
    BY <2>1, <2>2, <2>3 DEF RunsRecorded, Slipped
  <2>5. first => FALSE
    BY <2>2 DEF LaunchFresh, NothingRunYet
  <2> QED
    BY <2>2, <2>4, <2>5 DEF LaunchFresh
<1> QED
  BY <1>1, <1>2, <1>3, <1>4, <1>5, <1>6, <1>7 DEF Next

\* Whatever the rosters and the timing, no roster is spawned twice for one close, except after a
\* launch during which the hour ended (last_close_run and the one-run-per-close guard).
THEOREM OneRunPerCloseTheorem == Spec => OneRunPerClose
<1> DEFINE Once == \A r \in Rosters :
                     (child[r] # "live" /\ child'[r] = "live") =>
                         \/ next_top_of_hour(clock) \notin runs[r]
                         \/ clock.h \in slipped
<1>1. RInv /\ [Next]_vars => [Once]_vars
  <2> SUFFICES ASSUME RInv, Next, NEW r \in Rosters, child[r] # "live", child'[r] = "live"
               PROVE next_top_of_hour(clock) \notin runs[r] \/ clock.h \in slipped
    OBVIOUS
  <2>1. child \in [Rosters -> {"none", "live", "exited"}]
    BY DEF RInv, IInv, TypeOK
  <2>2. ASSUME NEW q \in Rosters, Spawn(q) PROVE q = r /\ phase = "launch" /\ r \in todo
    BY <2>1, <2>2 DEF Spawn, Turn
  <2>3. \E q \in Rosters : Spawn(q)
    BY <2>1 DEF Next, BootSweep, SleepToForty, GoOn, Wakes, CloseAlreadyRun, BeginLaunch, ForwardStop,
      WatchdogFires, SpawnRaises, Collect, ReapNext, WatchdogNext, Reaped, ChildExits, Signal, Tick
  <2> QED
    BY <2>2, <2>3 DEF RInv, LaunchFresh, next_top_of_hour, Slipped
<1>2. Spec => [][Once]_vars
  BY <1>1, InitRInv, NextRInv, PTL DEF Spec
<1> QED
  BY <1>2 DEF OneRunPerClose

(***************************************************************************)
(* No close is missed.  What a launch books is followed through the waits: *)
(* every hosted roster has run for the close the waits are about, unless   *)
(* that close slipped by in the rotations; and the waits are over before   *)
(* the launch band of the next hour.                                       *)
(***************************************************************************)

\* the ticks from the first hour to t, and to the start of hour h
Ticks(t) == t.h * Hour + t.s
Top(h) == h * Hour

\* i waits of d ticks each
Span(i, d) == i * d

Size == Len(host.rosters)

\* the latest end of the poll of a launch for the close at hand
Base == Top(start) + WATCHDOG_GRACE + Span(Size, RotateTicks)

\* the rosters still to handle begin at place i
Left(i) == i \in 1..Size /\ host.rosters[i] \in todo

Ran(c) == \A r \in Hosted : c \in runs[r]

Stamped ==
  /\ booted \in Clocks /\ stopAt \in Clocks
  /\ slipped \subseteq 0..clock.h
  \* a spawn that raised has marked its close and run nothing
  /\ phase # "crashed" => \A r \in Rosters : last[r] = 0 \/ last[r] \in runs[r] \/ last[r] \in slipped

Launching ==
  phase = "launch" =>
    /\ start <= clock.h + 1 /\ start..clock.h \subseteq slipped
    /\ start = clock.h + 1 => \A r \in Hosted \ todo : last[r] = start /\ start \in runs[r]
    /\ spent <= RotateTicks
    /\ \A i \in 1..Size : Left(i) => Ticks(clock) <= Top(start) + Span(i - 1, RotateTicks) + spent

Polling ==
  phase = "poll" =>
    /\ start <= clock.h + 1
    /\ start = clock.h + 1 => Ran(start) /\ \A r \in Hosted : last[r] = start
    /\ Ticks(clock) <= Base

Reaping ==
  phase = "reap" =>
    /\ start <= clock.h + 1 /\ (start = clock.h + 1 => Ran(start))
    /\ Ticks(clock) <= Ticks(until) /\ Ticks(until) <= Base + GRACE

Killing ==
  phase = "watchdog" =>
    /\ start <= clock.h
    /\ Ticks(clock) <= Ticks(until) /\ Ticks(until) <= Ticks(clock) + GRACE
    /\ \A i \in 1..Size : Left(i) => Ticks(until) <= Base + Span(i, GRACE)

Sleeping ==
  phase = "sleep" => until.h <= clock.h \/ (until.h = clock.h + 1 /\ Ran(until.h))

MInv == /\ RInv /\ Stamped /\ Launching /\ Polling /\ Reaping /\ Killing /\ Sleeping
        /\ NoMissedClose

\* Waits in series add up.
LEMMA SpanFacts ==
  ASSUME NEW d \in Nat
  PROVE  /\ \A i \in Nat : Span(i, d) \in Nat /\ Span(i + 1, d) = Span(i, d) + d
         /\ \A i, j \in Nat : i <= j => Span(i, d) <= Span(j, d)
         /\ Span(0, d) = 0 /\ Span(1, d) = d
<1>1. \A i \in Nat : i * d \in Nat /\ (i + 1) * d = i * d + d
  OBVIOUS
<1>2. ASSUME NEW i \in Nat, NEW j \in Nat, i <= j PROVE i * d <= j * d
  <2>1. PICK k \in Nat : j = i + k
    BY <1>2, j - i \in Nat, j = i + (j - i)
  <2>2. (i + k) * d = i * d + k * d /\ i * d \in Nat /\ k * d \in Nat
    OBVIOUS
  <2> QED
    BY <2>1, <2>2
<1> QED
  BY <1>1, <1>2 DEF Span

\* The hours follow each other.
LEMMA TopFacts ==
  /\ \A h \in Nat : Top(h) \in Nat /\ Top(h + 1) = Top(h) + Hour
  /\ \A g, h \in Nat : g < h => Top(g) + Hour <= Top(h)
<1>1. Hour \in Nat /\ \A h \in Nat : Top(h) = Span(h, Hour)
  BY TimesAssumption DEF Top, Span
<1>2. ASSUME NEW g \in Nat, NEW h \in Nat, g < h PROVE Top(g) + Hour <= Top(h)
  BY <1>1, <1>2, SpanFacts, g + 1 <= h
<1> QED
  BY <1>1, <1>2, SpanFacts

\* Times are compared, and moved on, by the ticks since the first hour.
LEMMA TicksFacts ==
  /\ \A t \in Clocks : /\ t.h \in Nat /\ t.s \in 0..(Hour - 1)
                       /\ Ticks(t) \in Nat /\ Ticks(t) = Top(t.h) + t.s
  /\ \A t, u \in Clocks : AtLeast(t, u) <=> Ticks(u) <= Ticks(t)
  /\ \A t \in Clocks, d \in 0..Hour : Ticks(Plus(t, d)) = Ticks(t) + d
  /\ \A t \in Clocks, h \in Nat : /\ t.h < h <=> Ticks(t) < Top(h)
                                  /\ t.h <= h <=> Ticks(t) < Top(h) + Hour
<1>0. Hour \in Nat
  BY TimesAssumption
<1>1. ASSUME NEW t \in Clocks
      PROVE t.h \in Nat /\ t.s \in 0..(Hour - 1) /\ Ticks(t) \in Nat /\ Ticks(t) = Top(t.h) + t.s
  <2>1. t.h \in Nat /\ t.s \in 0..(Hour - 1) /\ Ticks(t) = Top(t.h) + t.s
    BY DEF Clocks, Ticks, Top
  <2>2. Top(t.h) \in Nat /\ t.s \in Nat
    BY <2>1, TopFacts
  <2> QED
    BY <2>1, <2>2
<1>2. ASSUME NEW t \in Clocks, NEW u \in Clocks PROVE AtLeast(t, u) <=> Ticks(u) <= Ticks(t)
  <2>1. /\ t.h \in Nat /\ u.h \in Nat /\ t.s \in 0..(Hour - 1) /\ u.s \in 0..(Hour - 1)
        /\ Ticks(t) = Top(t.h) + t.s /\ Ticks(u) = Top(u.h) + u.s
    BY <1>1
  <2>2. /\ Top(t.h) \in Nat /\ Top(u.h) \in Nat
        /\ t.h < u.h => Top(t.h) + Hour <= Top(u.h)
        /\ u.h < t.h => Top(u.h) + Hour <= Top(t.h)
    BY <2>1, TopFacts
  <2>3. CASE t.h < u.h
    BY <1>0, <2>1, <2>2, <2>3 DEF AtLeast, Before
  <2>4. CASE u.h < t.h
    BY <1>0, <2>1, <2>2, <2>4 DEF AtLeast, Before
  <2>5. CASE t.h = u.h
    BY <1>0, <2>1, <2>2, <2>5 DEF AtLeast, Before
  <2> QED
    BY <2>1, <2>3, <2>4, <2>5
<1>3. ASSUME NEW t \in Clocks, NEW d \in 0..Hour PROVE Ticks(Plus(t, d)) = Ticks(t) + d
  <2>1. CASE t.s + d < Hour
    <3>1. Plus(t, d) = [h |-> t.h, s |-> t.s + d]
      BY <2>1 DEF Plus
    <3>2. Ticks(Plus(t, d)) = Top(t.h) + (t.s + d)
      BY <3>1 DEF Ticks, Top
    <3>3. Top(t.h) \in Nat /\ t.s \in Nat /\ d \in Nat
      BY <1>1, TopFacts
    <3> QED
      BY <1>1, <3>2, <3>3
  <2>2. CASE ~(t.s + d < Hour)
    <3>1. Plus(t, d) = [h |-> t.h + 1, s |-> t.s + d - Hour]
      BY <2>2 DEF Plus
    <3>2. Ticks(Plus(t, d)) = Top(t.h + 1) + (t.s + d - Hour)
      BY <3>1 DEF Ticks, Top
    <3>3. Top(t.h) \in Nat /\ t.s \in Nat /\ d \in Nat /\ Top(t.h + 1) = Top(t.h) + Hour
      BY <1>1, TopFacts
    <3> QED
      BY <1>0, <1>1, <3>2, <3>3
  <2> QED
    BY <2>1, <2>2
<1>4. ASSUME NEW t \in Clocks, NEW h \in Nat
      PROVE (t.h < h <=> Ticks(t) < Top(h)) /\ (t.h <= h <=> Ticks(t) < Top(h) + Hour)
  <2>1. /\ t.h \in Nat /\ t.s \in 0..(Hour - 1) /\ Ticks(t) = Top(t.h) + t.s
    BY <1>1
  <2>2. /\ Top(t.h) \in Nat /\ Top(h) \in Nat
        /\ t.h < h => Top(t.h) + Hour <= Top(h)
        /\ h < t.h => Top(h) + Hour <= Top(t.h)
    BY <2>1, TopFacts
  <2>3. CASE t.h < h
    BY <1>0, <2>1, <2>2, <2>3
  <2>4. CASE h < t.h
    BY <1>0, <2>1, <2>2, <2>4
  <2>5. CASE t.h = h
    BY <1>0, <2>1, <2>2, <2>5
  <2> QED
    BY <2>1, <2>3, <2>4, <2>5
<1> QED
  BY <1>1, <1>2, <1>3, <1>4

\* The command line: its rosters, one after the other, and the room for their waits.
LEMMA HostFacts ==
  ASSUME host \in Hosts
  PROVE  /\ Size \in Nat /\ Size >= 1 /\ (host.multi \/ Size = 1)
         /\ Hosted = {host.rosters[i] : i \in 1..Size} /\ Hosted \subseteq Rosters
         /\ WATCHDOG_GRACE + Span(Size, RotateTicks) + Span(Size, GRACE) < LAUNCH
         /\ \A i \in 0..Size : Span(i, RotateTicks) <= Span(Size, RotateTicks)
                               /\ Span(i, GRACE) <= Span(Size, GRACE)
         /\ GRACE <= Span(Size, GRACE)
<1>1. /\ host.rosters \in Seq(Rosters) /\ host.rosters # << >>
      /\ host.multi \/ Len(host.rosters) = 1
      /\ WATCHDOG_GRACE + Len(host.rosters) * (RotateTicks + GRACE) < LAUNCH
  BY HostsAssumption
<1>2. /\ Size \in Nat /\ Size >= 1 /\ DOMAIN host.rosters = 1..Size
      /\ \A i \in 1..Size : host.rosters[i] \in Rosters
  BY <1>1 DEF Size
<1>3. RotateTicks \in Nat /\ GRACE \in Nat /\ WATCHDOG_GRACE \in Nat /\ LAUNCH \in Nat
  BY TimesAssumption
<1>4. Size * (RotateTicks + GRACE) = Span(Size, RotateTicks) + Span(Size, GRACE)
  BY <1>2, <1>3 DEF Span
<1>5. ASSUME NEW d \in Nat
      PROVE Span(Size, d) \in Nat /\ d <= Span(Size, d) /\ \A i \in 0..Size : Span(i, d) <= Span(Size, d)
  <2>1. /\ \A i \in Nat : Span(i, d) \in Nat
        /\ \A i, j \in Nat : i <= j => Span(i, d) <= Span(j, d)
        /\ Span(1, d) = d
    BY SpanFacts
  <2> QED
    BY <1>2, <2>1
<1>6. WATCHDOG_GRACE + Span(Size, RotateTicks) + Span(Size, GRACE) < LAUNCH
  <2>1. WATCHDOG_GRACE + Size * (RotateTicks + GRACE) < LAUNCH
    BY <1>1 DEF Size
  <2>2. Span(Size, RotateTicks) \in Nat /\ Span(Size, GRACE) \in Nat
    BY <1>3, <1>5
  <2> QED
    BY <1>3, <1>4, <2>1, <2>2
<1>7. /\ \A i \in 0..Size : Span(i, RotateTicks) <= Span(Size, RotateTicks) /\ Span(i, GRACE) <= Span(Size, GRACE)
      /\ GRACE <= Span(Size, GRACE)
  BY <1>3, <1>5
<1> QED
  BY <1>1, <1>2, <1>6, <1>7 DEF Hosted, Size

\* Whose turn it is has a place, and the others still to handle have later ones.
LEMMA TurnPlace ==
  ASSUME TypeOK, NEW r, Turn(r)
  PROVE  \E i \in 1..Size : /\ Left(i) /\ host.rosters[i] = r
                            /\ \A j \in 1..Size : host.rosters[j] \in todo \ {r} => i + 1 <= j
<1>1. Size \in Nat /\ DOMAIN host.rosters = 1..Size
  BY HostsAssumption DEF Size, TypeOK
<1>2. PICK i \in 1..Size : host.rosters[i] = r /\ \A j \in 1..(i - 1) : host.rosters[j] \notin todo
  BY <1>1 DEF Turn
<1>3. Left(i)
  BY <1>2 DEF Turn, Left
<1>4. \A j \in 1..Size : host.rosters[j] \in todo \ {r} => i + 1 <= j
  BY <1>1, <1>2
<1> QED
  BY <1>2, <1>3, <1>4

\* The clock and the waits are times.
LEMMA Numbers ==
  ASSUME TypeOK
  PROVE  /\ clock \in Clocks /\ until \in Clocks /\ start \in Nat /\ spent \in Nat
         /\ clock.h \in Nat /\ clock.s \in 0..(Hour - 1) /\ until.h \in Nat
         /\ Top(start) \in Nat /\ Base \in Nat
         /\ Base = Top(start) + WATCHDOG_GRACE + Span(Size, RotateTicks)
         /\ Span(Size, RotateTicks) \in Nat /\ Span(Size, GRACE) \in Nat
         /\ RotateTicks \in Nat /\ GRACE \in 0..Hour /\ WATCHDOG_GRACE \in Nat /\ LAUNCH < Hour /\ LAUNCH \in Nat
         /\ Hour \in Nat /\ 1 \in 0..Hour
         /\ watchdog_deadline \in Clocks /\ Ticks(watchdog_deadline) = Top(start) + WATCHDOG_GRACE
         /\ AtLeast(clock, watchdog_deadline) <=> Top(start) + WATCHDOG_GRACE <= Ticks(clock)
<1>1. /\ RotateTicks \in Nat /\ GRACE \in 0..Hour /\ WATCHDOG_GRACE \in 0..(Hour - 1)
      /\ LAUNCH < Hour /\ LAUNCH \in Nat /\ Hour \in Nat /\ 1 \in 0..Hour
  BY TimesAssumption
<1>2. clock \in Clocks /\ until \in Clocks /\ start \in Nat /\ spent \in Nat
  BY DEF TypeOK
<1>3. Span(Size, RotateTicks) \in Nat /\ Span(Size, GRACE) \in Nat
  <2>1. Size \in Nat /\ RotateTicks \in Nat /\ GRACE \in Nat
    BY <1>1, HostFacts DEF TypeOK
  <2>2. \A d \in Nat : Span(Size, d) \in Nat
    BY <2>1, SpanFacts
  <2> QED
    BY <2>1, <2>2
<1>4. Top(start) \in Nat /\ Base \in Nat
  <2>1. Top(start) \in Nat /\ WATCHDOG_GRACE \in Nat
    BY <1>1, <1>2, TopFacts
  <2> QED
    BY <1>3, <2>1 DEF Base
<1>5. watchdog_deadline \in Clocks /\ Ticks(watchdog_deadline) = Top(start) + WATCHDOG_GRACE
  BY <1>1, <1>2 DEF watchdog_deadline, Clocks, Ticks, Top
<1>6. AtLeast(clock, watchdog_deadline) <=> Top(start) + WATCHDOG_GRACE <= Ticks(clock)
  BY <1>2, <1>5, TicksFacts
<1> QED
  BY <1>1, <1>2, <1>3, <1>4, <1>5, <1>6, TicksFacts DEF Base

\* While neither the clock nor the records change, no close is missed.
LEMMA CalmStep ==
  ASSUME MInv, UNCHANGED <<host, clock, booted, slipped, runs, last>>, stopAt' \in Clocks,
         phase # "crashed" \/ phase' = "crashed"
  PROVE  Stamped' /\ NoMissedClose'
  BY DEF MInv, Stamped, NoMissedClose, Hosted

\* Outside the waits there is nothing to say of them.
LEMMA NoWait ==
  ASSUME phase' \in {"boot", "loop", "due"} \cup Gone
  PROVE  Launching' /\ Polling' /\ Reaping' /\ Killing' /\ Sleeping'
  BY DEF Gone, Launching, Polling, Reaping, Killing, Sleeping

\* A roster that is not due has run for the close at hand.
LEMMA NotDueRan ==
  ASSUME MInv, phase = "due", NEW r \in Rosters, ~due(r)
  PROVE  in_launch_band(clock) /\ last[r] = clock.h + 1 /\ clock.h + 1 \in runs[r]
<1>1. in_launch_band(clock) /\ last[r] = clock.h + 1
  BY DEF due, next_top_of_hour
<1>2. clock.h \in Nat /\ slipped \subseteq 0..clock.h
  BY Numbers DEF MInv, RInv, IInv, Stamped
<1> QED
  BY <1>1, <1>2 DEF MInv, Stamped

\* A sleep is for the next launch; the close before it has been run.
LEMMA SleepKeeps ==
  ASSUME MInv, SleepToForty \/ CloseAlreadyRun PROVE MInv'
<1>1. /\ UNCHANGED <<host, clock, booted, stopAt, slipped, runs, last>> /\ phase' = "sleep"
      /\ until' = next_forty(clock) /\ phase \in {"loop", "due"}
  BY DEF SleepToForty, CloseAlreadyRun, times
<1>2. until'.h = clock.h \/ (until'.h = clock.h + 1 /\ Ran(clock.h + 1))
  <2>1. CASE SleepToForty
    <3>1. clock.s \in Int /\ LAUNCH \in Int /\ clock.s < LAUNCH
      BY <2>1, Numbers DEF SleepToForty, in_launch_band, MInv, RInv, IInv
    <3> QED
      BY <1>1, <3>1 DEF next_forty
  <2>2. CASE CloseAlreadyRun
    <3>1. Ran(clock.h + 1)
      BY <2>2, NotDueRan, HostFacts DEF CloseAlreadyRun, Ran, MInv, RInv, IInv, TypeOK
    <3> QED
      BY <1>1, <3>1 DEF next_forty
  <2> QED
    BY <2>1, <2>2
<1>3. Sleeping'
  BY <1>1, <1>2, Numbers DEF Sleeping, Ran, Hosted, MInv, RInv, IInv
<1>4. Launching' /\ Polling' /\ Reaping' /\ Killing'
  BY <1>1 DEF Launching, Polling, Reaping, Killing
<1>5. Stamped' /\ NoMissedClose'
  BY <1>1, CalmStep DEF MInv, Stamped
<1>6. RInv'
  BY NextRInv DEF MInv, Next
<1> QED
  BY <1>3, <1>4, <1>5, <1>6 DEF MInv

\* A launch begins within the hour before its close.
LEMMA BeginKeeps ==
  ASSUME MInv, BeginLaunch PROVE MInv'
<1>1. /\ UNCHANGED <<host, clock, booted, stopAt, slipped, runs, last>> /\ phase = "due" /\ phase' = "launch"
      /\ todo' = {r \in Hosted : due(r)} /\ start' = clock.h + 1 /\ spent' = 0
  BY DEF BeginLaunch, times, next_top_of_hour
<1>2. clock \in Clocks /\ clock.h \in Nat /\ Hosted \subseteq Rosters /\ RotateTicks \in Nat /\ Size \in Nat
  BY Numbers, HostFacts DEF MInv, RInv, IInv, TypeOK
<1>3. start'..clock'.h = {}
  BY <1>1, <1>2
<1>4. \A r \in Hosted' \ todo' : last'[r] = start' /\ start' \in runs'[r]
  <2> SUFFICES ASSUME NEW r \in Hosted, ~due(r) PROVE last[r] = clock.h + 1 /\ clock.h + 1 \in runs[r]
    BY <1>1 DEF Hosted
  <2> QED
    BY <1>1, <1>2, NotDueRan
<1>5. ASSUME NEW i \in 1..Size' PROVE Ticks(clock') <= Top(start') + Span(i - 1, RotateTicks) + spent'
  <2>1. i - 1 \in Nat
    BY <1>1, <1>2
  <2>2. Ticks(clock) \in Nat /\ Ticks(clock) < Top(clock.h + 1) /\ Top(clock.h + 1) \in Nat
    BY <1>2, TicksFacts, TopFacts
  <2>3. Span(i - 1, RotateTicks) \in Nat
    BY <1>2, <2>1, SpanFacts
  <2> QED
    BY <1>1, <2>2, <2>3
<1>6. Launching'
  BY <1>1, <1>2, <1>3, <1>4, <1>5 DEF Launching
<1>7. Polling' /\ Reaping' /\ Killing' /\ Sleeping'
  BY <1>1 DEF Polling, Reaping, Killing, Sleeping
<1>8. Stamped' /\ NoMissedClose'
  BY <1>1, CalmStep DEF MInv, Stamped
<1>9. RInv'
  BY NextRInv DEF MInv, Next
<1> QED
  BY <1>6, <1>7, <1>8, <1>9 DEF MInv

\* A spawn books its close; the last one comes within the rotations of the launch.
LEMMA SpawnKeeps ==
  ASSUME MInv, NEW r \in Rosters, Spawn(r) PROVE MInv'
<1> DEFINE c == clock.h + 1
<1>1. /\ UNCHANGED <<host, clock, booted, stopAt, slipped, until>>
      /\ phase = "launch" /\ Turn(r)
      /\ last' = [last EXCEPT ![r] = close_epoch] /\ start' = close_epoch
      /\ runs' = [runs EXCEPT ![r] = @ \cup {c}]
      /\ todo' = todo \ {r} /\ spent' = 0
      /\ phase' = IF todo = {r} THEN "poll" ELSE "launch"
  BY DEF Spawn, times, next_top_of_hour
<1>2. /\ clock \in Clocks /\ clock.h \in Nat /\ Hosted \subseteq Rosters /\ RotateTicks \in Nat
      /\ start \in Nat /\ spent \in Nat /\ todo \subseteq Hosted /\ WATCHDOG_GRACE \in Nat
      /\ last \in [Rosters -> Nat] /\ runs \in [Rosters -> SUBSET Nat]
      /\ Size \in Nat /\ Span(Size, RotateTicks) \in Nat /\ Size' = Size
      /\ Top(start) \in Nat
  BY <1>1, Numbers, HostFacts DEF MInv, RInv, IInv, TypeOK, Size
<1>3. /\ start <= c /\ start..clock.h \subseteq slipped /\ spent <= RotateTicks
      /\ start = c => \A q \in Hosted \ todo : last[q] = start /\ start \in runs[q]
      /\ \A i \in 1..Size : Left(i) => Ticks(clock) <= Top(start) + Span(i - 1, RotateTicks) + spent
  BY <1>1 DEF MInv, Launching
<1>4. close_epoch = start \/ (close_epoch = c /\ Size = 1)
  BY HostFacts DEF close_epoch, next_top_of_hour, MInv, RInv, IInv, TypeOK
<1>5. PICK i \in 1..Size : /\ Left(i) /\ host.rosters[i] = r
                           /\ \A j \in 1..Size : host.rosters[j] \in todo \ {r} => i + 1 <= j
  BY <1>1, TurnPlace DEF MInv, RInv, IInv
<1>6. Ticks(clock) <= Top(start) + Span(i, RotateTicks)
  <2>1. i - 1 \in Nat /\ (i - 1) + 1 = i
    BY <1>2
  <2>2. Span(i, RotateTicks) = Span(i - 1, RotateTicks) + RotateTicks /\ Span(i - 1, RotateTicks) \in Nat
    BY <1>2, <2>1, SpanFacts
  <2>3. Ticks(clock) \in Nat /\ Ticks(clock) <= Top(start) + Span(i - 1, RotateTicks) + spent
    BY <1>2, <1>3, <1>5, TicksFacts
  <2> QED
    BY <1>2, <1>3, <2>2, <2>3
<1>7. close_epoch = c \/ close_epoch \in slipped
  BY <1>2, <1>3, <1>4
<1>8. \A q \in Rosters : runs[q] \subseteq runs'[q]
  BY <1>1, <1>2
<1>9. Stamped'
  <2>1. \A q \in Rosters : last'[q] = 0 \/ last'[q] \in runs'[q] \/ last'[q] \in slipped'
    BY <1>1, <1>2, <1>7, <1>8 DEF MInv, Stamped
  <2> QED
    BY <1>1, <2>1 DEF MInv, Stamped
<1>10. NoMissedClose'
  BY <1>1, <1>2, <1>8 DEF MInv, NoMissedClose, Hosted
<1>11. start' = c => \A q \in Hosted \ todo' : last'[q] = start' /\ start' \in runs'[q]
  <2> SUFFICES ASSUME start' = c, NEW q \in Hosted, q \notin todo' PROVE last'[q] = c /\ c \in runs'[q]
    OBVIOUS
  <2>1. CASE q = r
    BY <2>1, <1>1, <1>2
  <2>2. CASE q # r
    <3>1. q \in Hosted \ todo /\ q \in Rosters
      BY <2>2, <1>1, <1>2
    <3>2. CASE close_epoch = start
      BY <1>1, <1>2, <1>3, <2>2, <3>1, <3>2
    <3>3. CASE Size = 1
      BY <3>3, <1>5, <2>2, HostFacts DEF MInv, RInv, IInv, TypeOK
    <3> QED
      BY <1>4, <3>2, <3>3
  <2> QED
    BY <2>1, <2>2
<1>12. start' <= c /\ start'..clock.h \subseteq slipped
  BY <1>1, <1>2, <1>3, <1>4
<1>13. Launching'
  <2> SUFFICES ASSUME phase' = "launch" PROVE Launching'
    BY DEF Launching
  <2>1. \A j \in 1..Size : Left(j)' => i + 1 <= j
    BY <1>1, <1>2, <1>5 DEF Left
  <2>2. start' = start
    <3>1. PICK q \in todo : q # r
      BY <1>1, <1>5 DEF Left
    <3>2. Size # 1
      BY <1>2, <1>5, <3>1, HostFacts DEF MInv, RInv, IInv, TypeOK
    <3> QED
      BY <1>1, <1>4, <3>2
  <2>3. ASSUME NEW j \in 1..Size, Left(j)'
        PROVE Ticks(clock') <= Top(start') + Span(j - 1, RotateTicks) + spent'
    <3>1. i <= j - 1 /\ i \in Nat /\ j - 1 \in Nat
      BY <1>2, <2>1, <2>3
    <3>2. Span(i, RotateTicks) <= Span(j - 1, RotateTicks) /\ Span(i, RotateTicks) \in Nat
          /\ Span(j - 1, RotateTicks) \in Nat
      BY <1>2, <3>1, SpanFacts
    <3>3. Ticks(clock) \in Nat
      BY <1>2, TicksFacts
    <3> QED
      BY <1>1, <1>2, <1>6, <2>2, <3>2, <3>3
  <2>4. Hosted' = Hosted
    BY <1>1 DEF Hosted
  <2> QED
    BY <1>1, <1>2, <1>11, <1>12, <2>3, <2>4 DEF Launching
<1>14. Polling'
  <2> SUFFICES ASSUME phase' = "poll" PROVE Polling'
    BY DEF Polling
  <2>1. todo' = {} /\ Hosted' = Hosted
    BY <1>1 DEF Hosted
  <2>2. Ticks(clock) <= Top(start') + WATCHDOG_GRACE + Span(Size, RotateTicks)
    <3>1. CASE close_epoch = start
      <4>1. i \in Nat /\ i <= Size
        BY <1>2
      <4>2. Span(i, RotateTicks) <= Span(Size, RotateTicks) /\ Span(i, RotateTicks) \in Nat
        BY <1>2, <4>1, SpanFacts
      <4>3. Ticks(clock) \in Nat
        BY <1>2, TicksFacts
      <4> QED
        BY <1>1, <1>2, <1>6, <3>1, <4>2, <4>3
    <3>2. CASE close_epoch = c
      <4>1. Ticks(clock) \in Nat /\ Ticks(clock) < Top(c) /\ Top(c) \in Nat
        <5>1. c \in Nat /\ clock.h < c
          BY <1>2
        <5>2. Ticks(clock) \in Nat /\ (clock.h < c <=> Ticks(clock) < Top(c))
          BY ONLY <1>2, <5>1, TicksFacts
        <5> QED
          BY <5>1, <5>2, TopFacts
      <4> QED
        BY <1>1, <1>2, <3>2, <4>1
    <3> QED
      BY <1>4, <3>1, <3>2
  <2>3. Ticks(clock') <= Base'
    BY <1>1, <1>2, <2>2 DEF Base
  <2> QED
    BY <1>1, <1>11, <1>12, <2>1, <2>3 DEF Polling, Ran
<1>15. Reaping' /\ Killing' /\ Sleeping'
  BY <1>1 DEF Reaping, Killing, Sleeping
<1>16. RInv'
  BY NextRInv DEF MInv, Next
<1> QED
  BY <1>9, <1>10, <1>13, <1>14, <1>15, <1>16 DEF MInv

\* The poll ends before its deadline, with a stop or with the watchdog.
LEMMA PollKeeps ==
  ASSUME MInv, ForwardStop \/ WatchdogFires PROVE MInv'
<1>1. /\ UNCHANGED <<host, clock, booted, stopAt, slipped, runs, last, start>> /\ phase = "poll"
      /\ todo' = pending /\ until' = Plus(clock, GRACE)
      /\ phase' = IF stop THEN "reap" ELSE "watchdog"
  BY DEF ForwardStop, WatchdogFires, times
<1>2. /\ clock \in Clocks /\ clock.h \in Nat /\ GRACE \in 0..Hour /\ GRACE \in Nat /\ Size \in Nat
      /\ start \in Nat /\ Base \in Nat /\ Top(start) \in Nat /\ WATCHDOG_GRACE \in Nat
  BY Numbers, HostFacts DEF MInv, RInv, IInv, TypeOK
<1>3. Ticks(until') = Ticks(clock) + GRACE /\ Ticks(clock) \in Nat
  BY <1>1, <1>2, TicksFacts
<1>4. start <= clock.h + 1 /\ (start = clock.h + 1 => Ran(start)) /\ Ticks(clock) <= Base
  BY <1>1 DEF MInv, Polling
<1>5. Base' = Base /\ (Ran(start))' = Ran(start) /\ Size' = Size
  BY <1>1 DEF Base, Ran, Hosted, Size
<1>6. Reaping'
  BY <1>1, <1>2, <1>3, <1>4, <1>5 DEF Reaping, Ran
<1>7. Killing'
  <2> SUFFICES ASSUME phase' = "watchdog" PROVE Killing'
    BY DEF Killing
  <2>1. Top(start) + WATCHDOG_GRACE <= Ticks(clock)
    BY <1>1, Numbers DEF WatchdogFires, ForwardStop, MInv, RInv, IInv
  <2>2. ~(Ticks(clock) < Top(start))
    BY <1>2, <1>3, <2>1
  <2>3. start <= clock.h
    <3>1. clock.h < start <=> Ticks(clock) < Top(start)
      BY ONLY <1>2, TicksFacts
    <3> QED
      BY <1>2, <2>2, <3>1
  <2>4. ASSUME NEW i \in 1..Size PROVE GRACE <= Span(i, GRACE) /\ Span(i, GRACE) \in Nat
    <3>1. i \in Nat /\ 1 \in Nat /\ 1 <= i
      BY <1>2
    <3>2. Span(1, GRACE) = GRACE /\ Span(1, GRACE) <= Span(i, GRACE) /\ Span(i, GRACE) \in Nat
      BY ONLY <1>2, <3>1, SpanFacts
    <3> QED
      BY <3>2
  <2> QED
    BY <1>1, <1>2, <1>3, <1>4, <1>5, <2>3, <2>4 DEF Killing
<1>8. Launching' /\ Polling' /\ Sleeping'
  BY <1>1 DEF Launching, Polling, Sleeping
<1>9. Stamped' /\ NoMissedClose'
  BY <1>1, CalmStep DEF MInv, Stamped
<1>10. RInv'
  BY NextRInv DEF MInv, Next
<1> QED
  BY <1>6, <1>7, <1>8, <1>9, <1>10 DEF MInv

\* The watchdog's graces follow each other.
LEMMA KillKeeps ==
  ASSUME MInv, NEW r \in Rosters, WatchdogNext(r) PROVE MInv'
<1>1. /\ UNCHANGED <<host, clock, booted, stopAt, slipped, runs, last, start>> /\ phase = "watchdog"
      /\ Turn(r) /\ todo' = todo \ {r} /\ until' = Plus(clock, GRACE)
      /\ phase' \in {"watchdog", "loop", "exited"}
  BY DEF WatchdogNext, AfterWait, times
<1>2. /\ clock \in Clocks /\ until \in Clocks /\ GRACE \in 0..Hour /\ GRACE \in Nat /\ Size \in Nat
      /\ start \in Nat /\ Base \in Nat
  BY Numbers, HostFacts DEF MInv, RInv, IInv, TypeOK
<1>3. Ticks(until') = Ticks(clock) + GRACE /\ Ticks(clock) \in Nat /\ Ticks(until) \in Nat
  BY <1>1, <1>2, TicksFacts
<1>4. /\ start <= clock.h /\ Ticks(clock) <= Ticks(until)
      /\ \A i \in 1..Size : Left(i) => Ticks(until) <= Base + Span(i, GRACE)
  BY <1>1 DEF MInv, Killing
<1>5. PICK i \in 1..Size : /\ Left(i) /\ host.rosters[i] = r
                           /\ \A j \in 1..Size : host.rosters[j] \in todo \ {r} => i + 1 <= j
  BY <1>1, TurnPlace DEF MInv, RInv, IInv
<1>6. Base' = Base /\ Size' = Size
  BY <1>1 DEF Base, Size
<1>7. ASSUME NEW j \in 1..Size, Left(j)' PROVE Ticks(until') <= Base + Span(j, GRACE)
  <2>1. i + 1 <= j /\ i \in Nat /\ j \in Nat
    BY <1>1, <1>2, <1>5, <1>7 DEF Left
  <2>2. /\ Span(i + 1, GRACE) = Span(i, GRACE) + GRACE /\ Span(i, GRACE) \in Nat
        /\ Span(i + 1, GRACE) <= Span(j, GRACE) /\ Span(j, GRACE) \in Nat
    BY <1>2, <2>1, SpanFacts, i + 1 \in Nat
  <2>3. Ticks(until) <= Base + Span(i, GRACE)
    BY <1>4, <1>5
  <2> QED
    BY <1>2, <1>3, <1>4, <2>2, <2>3
<1>8. Killing'
  BY <1>1, <1>2, <1>3, <1>4, <1>6, <1>7 DEF Killing
<1>9. Launching' /\ Polling' /\ Reaping' /\ Sleeping'
  BY <1>1 DEF Launching, Polling, Reaping, Sleeping
<1>10. Stamped' /\ NoMissedClose'
  BY <1>1, CalmStep DEF MInv, Stamped
<1>11. RInv'
  BY NextRInv DEF MInv, Next
<1> QED
  BY <1>8, <1>9, <1>10, <1>11 DEF MInv

\* A step that leaves the clock, the waits and their launch alone, or ends one.
LEMMA PlainKeeps ==
  ASSUME MInv, RInv', UNCHANGED <<host, clock, booted, slipped, runs, last, start, until, spent>>,
         stopAt' \in Clocks, todo' \subseteq todo, phase # "crashed" \/ phase' = phase,
         \/ phase' \in {"boot", "loop", "due", "exited"}
         \/ phase' = phase /\ (phase = "launch" => todo' = todo)
  PROVE  MInv'
<1>1. Stamped' /\ NoMissedClose'
  BY CalmStep
<1>2. CASE phase' \in {"boot", "loop", "due", "exited"}
  BY <1>1, <1>2, NoWait DEF MInv, Gone
<1>3. CASE phase' = phase /\ (phase = "launch" => todo' = todo)
  <2>1. Base' = Base /\ Size' = Size /\ Hosted' = Hosted
    BY DEF Base, Size, Hosted
  <2>2. Launching'
    BY <1>3, <2>1 DEF MInv, Launching, Left
  <2>3. Polling' /\ Reaping' /\ Sleeping'
    BY <1>3, <2>1 DEF MInv, Polling, Reaping, Sleeping, Ran
  <2>4. Killing'
    BY <1>3, <2>1 DEF MInv, Killing, Left
  <2> QED
    BY <1>1, <2>2, <2>3, <2>4 DEF MInv
<1> QED
  BY <1>2, <1>3

\* A tick is over an hour in a rotation, in a sleep past its end, or when the next close was run.
LEMMA TickKeeps ==
  ASSUME MInv, Tick PROVE MInv'
<1> DEFINE c == clock.h + 1
<1>1. /\ UNCHANGED <<host, phase, stop, pending, runs, stopAt, last, start, todo, until>>
      /\ ~WaitOver /\ clock' = Plus(clock, 1)
      /\ spent' = IF phase \in {"boot", "launch"} THEN spent + 1 ELSE spent
      /\ booted' = IF phase = "boot" THEN clock' ELSE booted
      /\ slipped' = IF clock'.h # clock.h /\ (phase = "launch" \/ (phase = "sleep" /\ AtLeast(clock, until)))
                    THEN slipped \cup {clock'.h} ELSE slipped
  BY DEF Tick
<1>2. /\ clock \in Clocks /\ clock' \in Clocks /\ until \in Clocks /\ start \in Nat /\ spent \in Nat
      /\ clock.h \in Nat /\ until.h \in Nat /\ Hour \in Nat /\ clock'.h \in Nat
      /\ Base \in Nat /\ Size \in Nat /\ Top(start) \in Nat /\ WATCHDOG_GRACE \in Nat
      /\ GRACE \in Nat /\ RotateTicks \in Nat /\ LAUNCH \in Nat /\ LAUNCH < Hour
      /\ Span(Size, GRACE) \in Nat /\ Span(Size, RotateTicks) \in Nat
      /\ Base = Top(start) + WATCHDOG_GRACE + Span(Size, RotateTicks)
      /\ GRACE <= Span(Size, GRACE)
      /\ WATCHDOG_GRACE + Span(Size, RotateTicks) + Span(Size, GRACE) < LAUNCH
  <2>1. TypeOK /\ TypeOK' /\ host \in Hosts
    BY NextRInv DEF MInv, RInv, IInv, TypeOK, Next
  <2>2. clock' \in Clocks /\ clock'.h \in Nat
    BY <2>1 DEF TypeOK, Clocks
  <2> QED
    BY <2>1, <2>2, Numbers, HostFacts
<1>3. /\ Ticks(clock') = Ticks(clock) + 1 /\ Ticks(clock) \in Nat /\ Ticks(until) \in Nat
      /\ clock'.h = clock.h \/ clock'.h = c
  <2>1. 1 \in 0..Hour
    BY Numbers DEF MInv, RInv, IInv
  <2>2. Ticks(clock') = Ticks(clock) + 1
    BY ONLY <1>1, <1>2, <2>1, TicksFacts
  <2> QED
    BY <1>2, <2>2, TicksFacts, TickHour DEF MInv, RInv, IInv
<1>4. phase \in {"boot", "sleep", "launch", "poll", "reap", "watchdog"}
  BY <1>1 DEF WaitOver
<1>5. /\ phase = "sleep" => ~stop
      /\ phase \in {"boot", "launch"} => spent # IF phase = "boot" THEN SweepTicks ELSE RotateTicks
      /\ phase = "poll" => ~AtLeast(clock, watchdog_deadline)
      /\ phase \in {"reap", "watchdog"} => ~AtLeast(clock, until)
  BY <1>1, <1>4 DEF WaitOver, SweepOver, RotationOver
<1>6. /\ phase = "poll" => Ticks(clock) < Top(start) + WATCHDOG_GRACE
      /\ phase \in {"reap", "watchdog"} => Ticks(clock) < Ticks(until)
  BY <1>2, <1>3, <1>5, Numbers, TicksFacts DEF MInv, RInv, IInv
<1>7. Size' = Size /\ Base' = Base /\ Hosted' = Hosted /\ (\A i : Left(i)' = Left(i))
  BY <1>1 DEF Size, Base, Hosted, Left
\* how late a wait can be
<1>8. phase \in {"poll", "reap", "watchdog"} => clock'.h <= start
  <2> SUFFICES ASSUME phase \in {"poll", "reap", "watchdog"} PROVE Ticks(clock') < Top(start) + Hour
    <3>1. clock'.h <= start <=> Ticks(clock') < Top(start) + Hour
      BY ONLY <1>2, TicksFacts
    <3> QED
      BY <3>1
  <2>1. CASE phase = "poll"
    BY <1>2, <1>3, <1>6, <2>1
  <2>2. CASE phase = "reap"
    BY <1>2, <1>3, <1>6, <2>2 DEF MInv, Reaping
  <2>3. CASE phase = "watchdog"
    <3>1. PICK i \in 1..Size : Left(i)
      <4>1. todo # {} /\ todo \subseteq Hosted
        BY <2>3 DEF MInv, RInv, IInv, TypeOK
      <4> QED
        BY <4>1, HostFacts DEF Left, MInv, RInv, IInv, TypeOK
    <3>2. Ticks(until) <= Base + Span(i, GRACE)
      BY <2>3, <3>1 DEF MInv, Killing
    <3>3. Span(i, GRACE) <= Span(Size, GRACE) /\ Span(i, GRACE) \in Nat
      BY <1>2, <3>1, SpanFacts
    <3> QED
      BY <1>2, <1>3, <1>6, <2>3, <3>2, <3>3
  <2> QED
    BY <2>1, <2>2, <2>3
<1>9. phase = "sleep" => clock'.h = clock.h \/ AtLeast(clock, until) \/ (clock'.h = until.h /\ Ran(until.h))
  <2> SUFFICES ASSUME phase = "sleep", clock'.h = c, ~AtLeast(clock, until)
               PROVE clock'.h = until.h /\ Ran(until.h)
    BY <1>3
  <2>1. Ticks(clock) < Ticks(until)
    BY <1>2, <1>3, TicksFacts
  <2>2. until.h # clock.h
    <3>1. Ticks(clock') >= Top(clock'.h)
      <4>1. Ticks(clock') = Top(clock'.h) + clock'.s /\ clock'.s \in 0..(Hour - 1) /\ Top(clock'.h) \in Nat
        BY ONLY <1>2, TicksFacts, TopFacts
      <4> QED
        BY <1>2, <4>1
    <3>2. until.h < c <=> Ticks(until) < Top(c)
      <4>1. c \in Nat
        BY <1>2
      <4> QED
        BY ONLY <1>2, <4>1, TicksFacts
    <3>3. Top(c) \in Nat
      BY <1>2, TopFacts
    <3> HIDE DEF c
    <3> QED
      BY <1>2, <1>3, <2>1, <3>1, <3>2, <3>3, c = clock.h + 1 DEF c
  <2> QED
    <3>1. Ticks(clock) < Ticks(until) => ~(until.h < clock.h)
      <4>1. until.h < clock.h <=> Ticks(until) < Top(clock.h)
        BY ONLY <1>2, TicksFacts
      <4>2. Ticks(clock) = Top(clock.h) + clock.s /\ clock.s \in Nat /\ Top(clock.h) \in Nat
        <5>1. Ticks(clock) = Top(clock.h) + clock.s /\ clock.s \in 0..(Hour - 1)
          BY ONLY <1>2, TicksFacts
        <5>2. Top(clock.h) \in Nat
          BY ONLY <1>2, TopFacts
        <5> QED
          BY <5>1, <5>2
      <4> QED
        BY <1>3, <4>1, <4>2
    <3> QED
      BY <1>2, <2>1, <2>2, <3>1 DEF MInv, Sleeping
<1>10. NoMissedClose'
  <2> SUFFICES ASSUME NEW d \in (booted'.h + 1)..clock'.h, d \notin slipped', NEW r \in Hosted PROVE d \in runs[r]
    BY <1>1, <1>7 DEF NoMissedClose
  <2>1. phase # "boot" /\ booted' = booted /\ booted.h \in Nat
    <3>1. booted \in Clocks
      BY DEF MInv, Stamped
    <3>2. phase # "boot"
      BY <1>1, <1>2
    <3> QED
      BY <1>1, <3>1, <3>2 DEF Clocks
  <2>2. d \notin slipped
    BY <1>1
  <2>3. CASE d <= clock.h
    BY <1>2, <2>1, <2>2, <2>3 DEF MInv, NoMissedClose
  <2>4. CASE clock'.h = c /\ d = c
    <3>1. phase # "launch"
      BY <1>1, <1>2, <2>4
    <3>2. CASE phase = "sleep"
      <4>1. clock'.h # clock.h /\ ~AtLeast(clock, until)
        BY <1>1, <1>2, <2>4, <3>2
      <4> QED
        BY <1>9, <2>4, <3>2, <4>1 DEF Ran
    <3>3. CASE phase \in {"poll", "reap", "watchdog"}
      <4>1. c <= start
        BY <1>8, <2>4, <3>3
      <4>2. start = c /\ Ran(start)
        BY <1>2, <3>3, <4>1 DEF MInv, Polling, Reaping, Killing
      <4> QED
        BY <2>4, <4>2 DEF Ran
    <3> QED
      BY <1>4, <2>1, <3>1, <3>2, <3>3
  <2> QED
    BY <1>2, <1>3, <2>1, <2>3, <2>4
<1>11. Stamped'
  <2>1. slipped' \subseteq 0..clock'.h
    <3>1. slipped \subseteq 0..clock.h /\ slipped' \subseteq slipped \cup {clock'.h}
      BY <1>1 DEF MInv, Stamped
    <3>2. clock.h <= clock'.h
      BY <1>2, <1>3
    <3> HIDE <1>1
    <3> QED
      BY <1>2, <3>1, <3>2
  <2> QED
    BY <1>1, <1>2, <2>1 DEF MInv, Stamped
<1>12. Launching'
  <2> SUFFICES ASSUME phase = "launch" PROVE Launching'
    BY <1>1 DEF Launching
  <2>1. /\ start <= c /\ start..clock.h \subseteq slipped /\ spent <= RotateTicks
        /\ start = c => \A q \in Hosted \ todo : last[q] = start /\ start \in runs[q]
        /\ \A i \in 1..Size : Left(i) => Ticks(clock) <= Top(start) + Span(i - 1, RotateTicks) + spent
    BY DEF MInv, Launching
  <2>2. spent' = spent + 1 /\ spent' <= RotateTicks
    BY <1>1, <1>2, <1>5, <2>1
  <2>3. start <= clock'.h + 1 /\ start..clock'.h \subseteq slipped'
    BY <1>1, <1>2, <1>3, <2>1
  <2>4. start = clock'.h + 1 => start = c
    BY <1>2, <1>3, <2>1
  <2>5. ASSUME NEW i \in 1..Size, Left(i) PROVE Ticks(clock') <= Top(start) + Span(i - 1, RotateTicks) + spent'
    <3>1. Span(i - 1, RotateTicks) \in Nat
      BY <1>2, SpanFacts, i - 1 \in Nat
    <3> QED
      BY <1>2, <1>3, <2>1, <2>2, <2>5, <3>1
  <2> QED
    BY <1>1, <1>7, <2>1, <2>2, <2>3, <2>4, <2>5 DEF Launching
<1>13. Polling'
  <2> SUFFICES ASSUME phase = "poll" PROVE Polling'
    BY <1>1 DEF Polling
  <2>1. start <= c /\ (start = c => Ran(start) /\ \A r \in Hosted : last[r] = start)
    BY DEF MInv, Polling
  <2>2. Ticks(clock') <= Base
    BY <1>2, <1>3, <1>6
  <2>3. start <= clock'.h + 1 /\ (start = clock'.h + 1 => start = c)
    BY <1>2, <1>3, <2>1
  <2> QED
    BY <1>1, <1>7, <2>1, <2>2, <2>3 DEF Polling, Ran
<1>14. Reaping'
  <2> SUFFICES ASSUME phase = "reap" PROVE Reaping'
    BY <1>1 DEF Reaping
  <2>1. start <= c /\ (start = c => Ran(start)) /\ Ticks(until) <= Base + GRACE
    BY DEF MInv, Reaping
  <2>2. Ticks(clock') <= Ticks(until)
    BY <1>3, <1>6
  <2>3. start <= clock'.h + 1 /\ (start = clock'.h + 1 => start = c)
    BY <1>2, <1>3, <2>1
  <2> QED
    BY <1>1, <1>7, <2>1, <2>2, <2>3 DEF Reaping, Ran
<1>15. Killing'
  <2> SUFFICES ASSUME phase = "watchdog" PROVE Killing'
    BY <1>1 DEF Killing
  <2>1. /\ start <= clock.h /\ Ticks(until) <= Ticks(clock) + GRACE
        /\ \A i \in 1..Size : Left(i) => Ticks(until) <= Base + Span(i, GRACE)
    BY DEF MInv, Killing
  <2>2. Ticks(clock') <= Ticks(until) /\ Ticks(until) <= Ticks(clock') + GRACE /\ start <= clock'.h
    BY <1>2, <1>3, <1>6, <2>1
  <2> QED
    BY <1>1, <1>7, <2>1, <2>2 DEF Killing
<1>16. Sleeping'
  BY <1>1, <1>2, <1>3, <1>7 DEF MInv, Sleeping, Ran
<1>17. RInv'
  BY NextRInv DEF MInv, Next
<1> QED
  BY <1>10, <1>11, <1>12, <1>13, <1>14, <1>15, <1>16, <1>17 DEF MInv

\* The process starts with nothing behind it.
LEMMA InitMInv == Init => MInv
<1> SUFFICES ASSUME Init PROVE MInv
  OBVIOUS
<1>1. clock \in Clocks /\ booted = clock /\ stopAt = clock /\ phase = "boot" /\ slipped = {}
      /\ \A r \in Rosters : last[r] = 0
  BY TimesAssumption DEF Init, Clocks
<1>2. Stamped
  BY <1>1 DEF Stamped
<1>3. NoMissedClose
  <2>1. (booted.h + 1)..clock.h = {}
    BY <1>1 DEF Clocks
  <2> QED
    BY <2>1 DEF NoMissedClose
<1>4. Launching /\ Polling /\ Reaping /\ Killing /\ Sleeping
  BY <1>1 DEF Launching, Polling, Reaping, Killing, Sleeping
<1> QED
  BY <1>2, <1>3, <1>4, InitRInv DEF MInv

\* Every step keeps it.
LEMMA NextMInv == MInv /\ [Next]_vars => MInv'
<1> SUFFICES ASSUME MInv, [Next]_vars PROVE MInv'
  OBVIOUS
<1>1. RInv' /\ clock \in Clocks /\ stopAt \in Clocks
  BY NextRInv, Numbers DEF MInv, RInv, IInv, Stamped
<1>2. ASSUME NEW r \in Rosters, BootSweep(r) PROVE MInv'
  <2>1. /\ UNCHANGED <<host, clock, booted, slipped, runs, last, stopAt>>
        /\ phase = "boot" /\ phase' \in {"boot", "loop", "due", "exited"}
    BY <1>2 DEF BootSweep, times
  <2> QED
    BY <1>1, <2>1, CalmStep, NoWait DEF MInv, Gone
<1>3. CASE GoOn \/ Wakes
  <2>1. /\ UNCHANGED <<host, clock, booted, slipped, runs, last, start, until, spent, stopAt, todo>>
        /\ phase # "crashed" /\ phase' \in {"boot", "loop", "due", "exited"}
    BY <1>3 DEF GoOn, Wakes, times
  <2> QED
    BY <1>1, <2>1, PlainKeeps
<1>4. CASE Signal
  <2>1. /\ UNCHANGED <<host, clock, booted, slipped, runs, last, start, until, spent, todo, phase>>
        /\ stopAt' = clock
    BY <1>4 DEF Signal, loop
  <2> QED
    BY <1>1, <2>1, PlainKeeps
<1>5. ASSUME NEW r \in Rosters, Collect(r) \/ ChildExits(r) PROVE MInv'
  <2>1. /\ UNCHANGED <<host, clock, booted, slipped, runs, last, start, until, spent, todo, stopAt>>
        /\ (phase = "poll" /\ phase' \in {"loop", "exited"}) \/ phase' = phase
    BY <1>5 DEF Collect, ChildExits, AfterWait, loop, times
  <2> QED
    BY <1>1, <2>1, PlainKeeps
<1>6. ASSUME NEW r \in Rosters, ReapNext(r) PROVE MInv'
  <2>1. /\ UNCHANGED <<host, clock, booted, slipped, runs, last, start, until, spent, stopAt>>
        /\ todo' \subseteq todo /\ phase = "reap" /\ phase' \in {"reap", "exited"}
    BY <1>6 DEF ReapNext, times
  <2> QED
    BY <1>1, <2>1, PlainKeeps
<1>7. CASE UNCHANGED vars
  <2>1. UNCHANGED <<host, clock, booted, slipped, runs, last, start, until, spent, todo, phase, stopAt>>
    BY <1>7 DEF vars, loop, times
  <2> QED
    BY <1>1, <2>1, PlainKeeps
<1>8. ASSUME NEW r \in Rosters, SpawnRaises(r) PROVE MInv'
  <2>1. /\ UNCHANGED <<host, clock, booted, slipped, runs, stopAt>> /\ phase' = "crashed"
    BY <1>8 DEF SpawnRaises, times
  <2>2. Stamped' /\ NoMissedClose'
    BY <1>1, <2>1 DEF MInv, Stamped, NoMissedClose, Hosted
  <2> QED
    BY <1>1, <2>1, <2>2, NoWait DEF MInv, Gone
<1> QED
  BY <1>2, <1>3, <1>4, <1>5, <1>6, <1>7, <1>8, SleepKeeps, BeginKeeps, SpawnKeeps, PollKeeps, KillKeeps, TickKeeps
  DEF Next

\* A wedged window never costs a later one, whatever the rosters, the graces and the children do:
\* every close since the boot has been run for every hosted roster, except those that went by in a
\* sleep past its end or in a rotation (the launch band, the watchdog and one run per close).
THEOREM NoMissedCloseTheorem == Spec => []NoMissedClose
<1>1. MInv => NoMissedClose
  BY DEF MInv
<1> QED
  BY <1>1, InitMInv, NextMInv, PTL DEF Spec

(***************************************************************************)
(* The stop is bounded.                                                    *)
(***************************************************************************)

Since == Ticks(clock) - Ticks(stopAt)

\* the loop will go to sleep, and leave, without a further launch
Leaving == /\ ~Forced /\ (in_launch_band(clock) => \A r \in Hosted : ~due(r))
           /\ phase = "due" => in_launch_band(clock)

Stopping ==
  /\ phase = "reap" => stop
  /\ phase = "boot" => spent <= SweepTicks
  /\ stop =>
       /\ phase = "boot" => \A i \in 1..Size : Left(i) => Since <= Span(i - 1, SweepTicks) + spent
       /\ phase = "launch" => \A i \in 1..Size : Left(i) => Since <= Span(i - 1, RotateTicks) + spent
       /\ phase = "poll" => Since <= Span(Size, RotateTicks)
       /\ phase = "reap" => Ticks(until) <= Ticks(stopAt) + Span(Size, RotateTicks) + GRACE
       /\ phase = "watchdog" => \A i \in 1..Size : Left(i) => Ticks(until) <= Ticks(stopAt) + Span(i, GRACE)
       /\ phase \in {"loop", "sleep", "due"} =>
            \/ Since <= 0
            \/ Leaving /\ (Since <= Span(Size, RotateTicks) \/ Since <= Span(Size, GRACE))

QInv == MInv /\ Stopping

\* Before :40 of the close's own hour nobody is due: the loop goes to sleep, and leaves.
LEMMA EarlyLeaves ==
  ASSUME MInv, NEW b \in Nat, b < LAUNCH, ~first, phase # "due",
         \/ start <= clock.h /\ Ticks(clock) <= Top(start) + b
         \/ start = clock.h + 1 /\ \A r \in Hosted : last[r] = start
  PROVE  ~Forced /\ (in_launch_band(clock) => \A r \in Hosted : ~due(r))
<1>1. clock \in Clocks /\ clock.h \in Nat /\ start \in Nat /\ LAUNCH \in Nat /\ clock.s \in Nat /\ Top(start) \in Nat
  BY Numbers DEF MInv, RInv, IInv, Clocks
<1>2. CASE start <= clock.h /\ Ticks(clock) <= Top(start) + b
  <2>1. Ticks(clock) = Top(clock.h) + clock.s
    BY ONLY <1>1, TicksFacts
  <2>2. Top(clock.h) \in Nat /\ Top(start) <= Top(clock.h)
    <3>1. start < clock.h => Top(start) + Hour <= Top(clock.h)
      BY ONLY <1>1, TopFacts
    <3>2. Top(clock.h) \in Nat /\ Hour \in Nat
      BY <1>1, TopFacts, TimesAssumption
    <3> QED
      BY <1>1, <1>2, <3>1, <3>2
  <2>3. clock.s < LAUNCH
    BY <1>1, <1>2, <2>1, <2>2
  <2> QED
    BY <1>1, <2>3 DEF Forced, in_launch_band
<1>3. CASE start = clock.h + 1 /\ \A r \in Hosted : last[r] = start
  BY <1>3 DEF Forced, due, next_top_of_hour
<1> QED
  BY <1>2, <1>3

\* What the stop's invariant speaks of are times and counts.
LEMMA StopNumbers ==
  ASSUME QInv
  PROVE  /\ TypeOK /\ MInv /\ Stopping /\ clock \in Clocks /\ stopAt \in Clocks /\ until \in Clocks
         /\ Ticks(clock) \in Nat /\ Ticks(stopAt) \in Nat /\ Ticks(until) \in Nat
         /\ Size \in Nat /\ Size >= 1 /\ spent \in Nat
         /\ RotateTicks \in Nat /\ SweepTicks \in Nat /\ GRACE \in Nat /\ GRACE \in 0..Hour
         /\ Span(Size, RotateTicks) \in Nat /\ Span(Size, GRACE) \in Nat /\ Span(Size, SweepTicks) \in Nat
         /\ phase \in {"loop", "poll", "watchdog"} => (phase # "loop" => ~first)
<1>1. TypeOK /\ MInv /\ Stopping /\ stopAt \in Clocks /\ host \in Hosts
  BY DEF QInv, MInv, RInv, IInv, Stamped, TypeOK
<1>2. /\ clock \in Clocks /\ until \in Clocks /\ spent \in Nat /\ RotateTicks \in Nat /\ GRACE \in Nat
      /\ GRACE \in 0..Hour /\ Span(Size, RotateTicks) \in Nat /\ Span(Size, GRACE) \in Nat
  BY <1>1, Numbers
<1>3. Size \in Nat /\ Size >= 1 /\ SweepTicks \in Nat
  BY <1>1, HostFacts, TimesAssumption
<1>4. Span(Size, SweepTicks) \in Nat
  BY <1>3, SpanFacts
<1>5. phase \in {"loop", "poll", "watchdog"} => (phase # "loop" => ~first)
  BY <1>1 DEF MInv, RInv, LaunchFresh
<1> QED
  BY <1>1, <1>2, <1>3, <1>4, <1>5, TicksFacts

\* One more wait of a loop over the rosters: the later places leave room for it.
LEMMA LaterPlace ==
  ASSUME NEW i \in Nat, NEW j \in Nat, i >= 1, i + 1 <= j, NEW d \in Nat
  PROVE  /\ Span(i - 1, d) + d <= Span(j - 1, d) /\ Span(i, d) + d <= Span(j, d)
         /\ Span(i - 1, d) \in Nat /\ Span(j - 1, d) \in Nat /\ Span(i, d) \in Nat /\ Span(j, d) \in Nat
<1>1. i - 1 \in Nat /\ j - 1 \in Nat /\ (i - 1) + 1 = i /\ i <= j - 1 /\ i + 1 \in Nat
  OBVIOUS
<1>2. /\ Span((i - 1) + 1, d) = Span(i - 1, d) + d /\ Span(i + 1, d) = Span(i, d) + d
      /\ Span(i, d) <= Span(j - 1, d) /\ Span(i + 1, d) <= Span(j, d)
      /\ Span(i - 1, d) \in Nat /\ Span(j - 1, d) \in Nat /\ Span(i, d) \in Nat /\ Span(j, d) \in Nat
  BY <1>1, SpanFacts
<1> QED
  BY <1>1, <1>2

\* The boot sweep of one more roster is over.
LEMMA SweepStops ==
  ASSUME QInv, NEW r \in Rosters, BootSweep(r) PROVE Stopping'
<1>1. /\ UNCHANGED <<host, clock, stop, stopAt>> /\ phase = "boot" /\ Turn(r)
      /\ todo' = todo \ {r} /\ spent' = 0
      /\ phase' = IF todo # {r} THEN "boot" ELSE IF stop THEN "exited" ELSE "loop"
  BY DEF BootSweep, times
<1>2. PICK i \in 1..Size : /\ Left(i) /\ host.rosters[i] = r
                           /\ \A j \in 1..Size : host.rosters[j] \in todo \ {r} => i + 1 <= j
  BY <1>1, TurnPlace, StopNumbers
<1>3. Size' = Size /\ Since' = Since /\ Since \in Int /\ i \in Nat /\ i >= 1
  BY <1>1, StopNumbers DEF Size, Since
<1>4. stop => Since <= Span(i - 1, SweepTicks) + spent /\ spent <= SweepTicks
  BY <1>1, <1>2 DEF QInv, Stopping
<1>5. ASSUME stop, NEW j \in 1..Size, Left(j)' PROVE Since' <= Span(j - 1, SweepTicks) + spent'
  <2>1. i + 1 <= j /\ j \in Nat
    BY <1>1, <1>2, <1>3, <1>5, StopNumbers DEF Left
  <2>2. Span(i - 1, SweepTicks) + SweepTicks <= Span(j - 1, SweepTicks)
        /\ Span(i - 1, SweepTicks) \in Nat /\ Span(j - 1, SweepTicks) \in Nat
    BY <1>3, <2>1, LaterPlace, StopNumbers
  <2> QED
    BY <1>1, <1>3, <1>4, <1>5, <2>2, StopNumbers
<1> QED
  BY <1>1, <1>3, <1>5, StopNumbers DEF Stopping

\* The rotation of one more roster is over.
LEMMA SpawnStops ==
  ASSUME QInv, NEW r \in Rosters, Spawn(r) PROVE Stopping'
<1>1. /\ UNCHANGED <<host, clock, stop, stopAt>> /\ phase = "launch" /\ Turn(r)
      /\ todo' = todo \ {r} /\ spent' = 0
      /\ phase' = IF todo = {r} THEN "poll" ELSE "launch"
  BY DEF Spawn, times
<1>2. PICK i \in 1..Size : /\ Left(i) /\ host.rosters[i] = r
                           /\ \A j \in 1..Size : host.rosters[j] \in todo \ {r} => i + 1 <= j
  BY <1>1, TurnPlace, StopNumbers
<1>3. Size' = Size /\ Since' = Since /\ Since \in Int /\ i \in Nat /\ i >= 1
  BY <1>1, StopNumbers DEF Size, Since
<1>4. stop => Since <= Span(i - 1, RotateTicks) + spent /\ spent <= RotateTicks
  BY <1>1, <1>2 DEF QInv, MInv, Launching, Stopping
<1>5. ASSUME stop, NEW j \in 1..Size, Left(j)' PROVE Since' <= Span(j - 1, RotateTicks) + spent'
  <2>1. i + 1 <= j /\ j \in Nat
    BY <1>1, <1>2, <1>3, <1>5, StopNumbers DEF Left
  <2>2. Span(i - 1, RotateTicks) + RotateTicks <= Span(j - 1, RotateTicks)
        /\ Span(i - 1, RotateTicks) \in Nat /\ Span(j - 1, RotateTicks) \in Nat
    BY <1>3, <2>1, LaterPlace, StopNumbers
  <2> QED
    BY <1>1, <1>3, <1>4, <1>5, <2>2, StopNumbers
<1>6. stop => Since' <= Span(Size', RotateTicks)
  <2>1. i - 1 \in Nat /\ (i - 1) + 1 = i /\ i <= Size /\ RotateTicks \in Nat /\ Size \in Nat
    BY <1>3, StopNumbers
  <2>2. /\ Span(i, RotateTicks) = Span(i - 1, RotateTicks) + RotateTicks
        /\ Span(i, RotateTicks) <= Span(Size, RotateTicks)
        /\ Span(i - 1, RotateTicks) \in Nat /\ Span(i, RotateTicks) \in Nat
    BY ONLY <1>3, <2>1, SpanFacts
  <2> QED
    BY <1>3, <1>4, <2>1, <2>2, StopNumbers
<1> QED
  BY <1>1, <1>3, <1>5, <1>6, StopNumbers DEF Stopping

\* The loop's own steps take no time: what was on its way out stays so.
LEMMA LoopStops ==
  ASSUME QInv, SleepToForty \/ GoOn \/ Wakes \/ CloseAlreadyRun \/ BeginLaunch PROVE Stopping'
<1>1. /\ UNCHANGED <<host, clock, stop, stopAt, last>>
      /\ phase \in {"loop", "sleep", "due"}
  BY DEF SleepToForty, GoOn, Wakes, CloseAlreadyRun, BeginLaunch, times
<1>2. Size' = Size /\ Since' = Since /\ Since \in Int /\ Hosted' = Hosted
  BY <1>1, StopNumbers DEF Size, Since, Hosted
<1>3. stop => \/ Since <= 0
              \/ Leaving /\ (Since <= Span(Size, RotateTicks) \/ Since <= Span(Size, GRACE))
  BY <1>1 DEF QInv, Stopping
<1>4. CASE SleepToForty \/ CloseAlreadyRun
  <2>1. phase' = "sleep" /\ first' = first
    BY <1>4 DEF SleepToForty, CloseAlreadyRun
  <2>2. Leaving => Leaving'
    BY <1>1, <1>2, <2>1 DEF Leaving, Forced, due
  <2> QED
    BY <1>1, <1>2, <1>3, <2>1, <2>2 DEF Stopping
<1>5. CASE GoOn
  <2>1. phase' = "due" /\ first' = FALSE /\ (Forced \/ in_launch_band(clock))
    BY <1>5 DEF GoOn
  <2>2. Leaving => Leaving'
    BY <1>1, <1>2, <2>1 DEF Leaving, Forced, due
  <2> QED
    BY <1>1, <1>2, <1>3, <2>1, <2>2 DEF Stopping
<1>6. CASE Wakes
  BY <1>6 DEF Wakes, Stopping
<1>7. CASE BeginLaunch
  <2>1. phase = "due" /\ (\E r \in Hosted : due(r)) /\ phase' = "launch" /\ spent' = 0
    BY <1>7 DEF BeginLaunch
  <2>2. stop => Since <= 0
    BY <1>3, <2>1 DEF Leaving
  <2>3. ASSUME NEW i \in 1..Size PROVE Span(i - 1, RotateTicks) \in Nat
    BY SpanFacts, StopNumbers, i - 1 \in Nat
  <2> QED
    BY <1>1, <1>2, <2>1, <2>2, <2>3 DEF Stopping
<1> QED
  BY <1>4, <1>5, <1>6, <1>7

\* The poll passes a stop on, or ends with its last child.
LEMMA PollStops ==
  ASSUME QInv, ForwardStop \/ WatchdogFires \/ (\E r \in Rosters : Collect(r)) PROVE Stopping'
<1>1. UNCHANGED <<host, clock, stop, stopAt, last, start, first>> /\ phase = "poll"
  BY DEF ForwardStop, WatchdogFires, Collect, times, loop
<1>2. Size' = Size /\ Since' = Since /\ Since \in Int /\ Hosted' = Hosted
  BY <1>1, StopNumbers DEF Size, Since, Hosted
<1>3. stop => Since <= Span(Size, RotateTicks)
  BY <1>1 DEF QInv, Stopping
<1>4. CASE ForwardStop
  <2>1. phase' = "reap" /\ stop /\ until' = Plus(clock, GRACE)
    BY <1>4 DEF ForwardStop
  <2>2. Ticks(until') = Ticks(clock) + GRACE
    BY <2>1, StopNumbers, TicksFacts
  <2>3. Ticks(until') <= Ticks(stopAt') + Span(Size', RotateTicks) + GRACE
    BY <1>1, <1>2, <1>3, <2>1, <2>2, StopNumbers DEF Since
  <2> QED
    BY <1>1, <2>1, <2>3 DEF Stopping
<1>5. CASE WatchdogFires
  BY <1>1, <1>5 DEF WatchdogFires, Stopping
<1>6. ASSUME NEW r \in Rosters, Collect(r) PROVE Stopping'
  <2>1. phase' \in {"poll", "loop", "exited"} /\ UNCHANGED loop
    BY <1>6 DEF Collect, AfterWait
  <2>2. ~Forced /\ (in_launch_band(clock) => \A q \in Hosted : ~due(q))
    <3>1. WATCHDOG_GRACE + Span(Size, RotateTicks) \in Nat /\ WATCHDOG_GRACE + Span(Size, RotateTicks) < LAUNCH
      BY StopNumbers, Numbers, HostFacts, TimesAssumption DEF TypeOK
    <3>2. /\ start <= clock.h + 1 /\ (start = clock.h + 1 => \A q \in Hosted : last[q] = start)
          /\ Ticks(clock) <= Base
      BY <1>1 DEF QInv, MInv, Polling
    <3>3. /\ Base = Top(start) + (WATCHDOG_GRACE + Span(Size, RotateTicks))
          /\ start \in Nat /\ clock.h \in Nat
      BY StopNumbers, Numbers, TopFacts, TimesAssumption
    <3> QED
      BY <1>1, <3>1, <3>2, <3>3, EarlyLeaves, StopNumbers
  <2>3. phase' = "loop" => Leaving'
    BY <1>1, <1>2, <2>2 DEF Leaving, Forced, due
  <2> QED
    BY <1>1, <1>2, <1>3, <2>1, <2>3 DEF Stopping
<1> QED
  BY <1>4, <1>5, <1>6

\* The watchdog gives one more grace; after the last the launch band is still ahead.
LEMMA KillStops ==
  ASSUME QInv, NEW r \in Rosters, WatchdogNext(r) PROVE Stopping'
<1>1. /\ UNCHANGED <<host, clock, stop, stopAt, last, start, first>> /\ phase = "watchdog"
      /\ Turn(r) /\ todo' = todo \ {r} /\ until' = Plus(clock, GRACE)
      /\ phase' \in {"watchdog", "loop", "exited"}
  BY DEF WatchdogNext, AfterWait, times
<1>2. PICK i \in 1..Size : /\ Left(i) /\ host.rosters[i] = r
                           /\ \A j \in 1..Size : host.rosters[j] \in todo \ {r} => i + 1 <= j
  BY <1>1, TurnPlace, StopNumbers
<1>3. /\ Size' = Size /\ Since' = Since /\ Since \in Int /\ Hosted' = Hosted /\ i \in Nat /\ i >= 1
      /\ Ticks(until') = Ticks(clock) + GRACE
  BY <1>1, StopNumbers, TicksFacts DEF Size, Since, Hosted
<1>4. /\ Ticks(clock) <= Ticks(until) /\ Ticks(until) <= Base + Span(i, GRACE) /\ start <= clock.h
      /\ stop => Ticks(until) <= Ticks(stopAt) + Span(i, GRACE)
  BY <1>1, <1>2 DEF QInv, MInv, Killing, Stopping
<1>5. Span(i, GRACE) \in Nat /\ Span(i, GRACE) <= Span(Size, GRACE)
  BY <1>3, StopNumbers, SpanFacts
<1>6. ASSUME stop, NEW j \in 1..Size, Left(j)' PROVE Ticks(until') <= Ticks(stopAt') + Span(j, GRACE)
  <2>1. i + 1 <= j /\ j \in Nat
    BY <1>1, <1>2, <1>3, <1>6, StopNumbers DEF Left
  <2>2. Span(i, GRACE) + GRACE <= Span(j, GRACE) /\ Span(j, GRACE) \in Nat
    BY <1>3, <2>1, LaterPlace, StopNumbers
  <2> QED
    BY <1>1, <1>3, <1>4, <1>5, <1>6, <2>2, StopNumbers
<1>7. stop => Since <= Span(Size, GRACE)
  BY <1>3, <1>4, <1>5, StopNumbers DEF Since
<1>8. phase' = "loop" => Leaving'
  <2> DEFINE b == WATCHDOG_GRACE + Span(Size, RotateTicks) + Span(Size, GRACE)
  <2>1. b \in Nat /\ b < LAUNCH
    BY StopNumbers, HostFacts, TimesAssumption DEF TypeOK
  <2>2. Base \in Nat /\ Base = Top(start) + WATCHDOG_GRACE + Span(Size, RotateTicks)
        /\ Top(start) \in Nat /\ WATCHDOG_GRACE \in Nat
    BY StopNumbers, Numbers
  <2>3. Ticks(clock) <= Top(start) + b
    BY <1>4, <1>5, <2>2, StopNumbers
  <2> HIDE DEF b
  <2>4. ~Forced /\ (in_launch_band(clock) => \A q \in Hosted : ~due(q))
    BY <1>1, <1>4, <2>1, <2>3, EarlyLeaves, StopNumbers
  <2> QED
    BY <1>1, <1>3, <2>4 DEF Leaving, Forced, due
<1> QED
  BY <1>1, <1>3, <1>6, <1>7, <1>8 DEF Stopping

\* The signal comes: nothing has passed since.
LEMMA SignalStops ==
  ASSUME QInv, Signal PROVE Stopping'
<1>1. /\ UNCHANGED <<host, phase, clock, first, last, start, todo, spent, until>>
      /\ ~stop /\ stopAt' = clock
  BY DEF Signal, loop
<1>2. Since' = 0 /\ Size' = Size /\ Ticks(stopAt') = Ticks(clock)
  BY <1>1, StopNumbers DEF Since, Size
<1>3. phase # "reap" /\ (phase = "boot" => spent <= SweepTicks)
  BY <1>1 DEF QInv, Stopping
<1>4. ASSUME NEW i \in 1..Size, NEW d \in Nat
      PROVE Span(i - 1, d) \in Nat /\ Span(i, d) \in Nat /\ d <= Span(i, d)
  <2>1. i \in Nat /\ i - 1 \in Nat /\ (i - 1) + 1 = i
    BY StopNumbers
  <2>2. Span(i - 1, d) \in Nat /\ Span(i, d) \in Nat /\ Span(i, d) = Span(i - 1, d) + d
    BY ONLY <2>1, SpanFacts, d \in Nat
  <2> QED
    BY <2>2
<1>5. phase = "watchdog" => \A i \in 1..Size : Ticks(until) <= Ticks(clock) + Span(i, GRACE)
  BY <1>4, StopNumbers DEF QInv, MInv, Killing
<1>6. \A i \in 1..Size : 0 <= Span(i - 1, SweepTicks) + spent /\ 0 <= Span(i - 1, RotateTicks) + spent
  BY <1>4, StopNumbers
<1> QED
  BY <1>1, <1>2, <1>3, <1>5, <1>6, StopNumbers DEF Stopping

\* Time passes only in a wait, and a stop ends the sleep and the poll.
LEMMA TickStops ==
  ASSUME QInv, Tick PROVE Stopping'
<1>1. /\ UNCHANGED <<host, phase, stop, stopAt, last, start, todo, until, first>>
      /\ ~WaitOver /\ clock' = Plus(clock, 1)
      /\ spent' = IF phase \in {"boot", "launch"} THEN spent + 1 ELSE spent
  BY DEF Tick
<1>2. /\ phase \in {"boot", "sleep", "launch", "poll", "reap", "watchdog"}
      /\ phase \in {"sleep", "poll"} => ~stop
      /\ phase = "boot" => spent # SweepTicks
  BY <1>1 DEF WaitOver, SweepOver
<1>3. Ticks(clock') = Ticks(clock) + 1
  <2>1. 1 \in 0..Hour
    BY TimesAssumption
  <2> QED
    BY <1>1, <2>1, TicksFacts, StopNumbers
<1>4. Since' = Since + 1 /\ Since \in Int /\ Size' = Size /\ (\A i : Left(i)' = Left(i))
  <2>1. Since' = Since + 1 /\ Since \in Int
    BY <1>1, <1>3, StopNumbers DEF Since
  <2>2. Size' = Size /\ (\A i : Left(i)' = Left(i))
    BY <1>1 DEF Size, Left
  <2> QED
    BY <2>1, <2>2
<1>5. phase = "boot" => spent' <= SweepTicks
  BY <1>1, <1>2, StopNumbers DEF Stopping
<1>6. ASSUME NEW i \in 1..Size PROVE Span(i - 1, SweepTicks) \in Nat /\ Span(i - 1, RotateTicks) \in Nat
  BY SpanFacts, StopNumbers, i - 1 \in Nat
<1>7. /\ stop /\ phase = "boot" => \A i \in 1..Size : Left(i) => Since' <= Span(i - 1, SweepTicks) + spent'
      /\ stop /\ phase = "launch" => \A i \in 1..Size : Left(i) => Since' <= Span(i - 1, RotateTicks) + spent'
  BY <1>1, <1>4, <1>6, StopNumbers DEF Stopping
<1> QED
  BY <1>1, <1>2, <1>4, <1>5, <1>7, StopNumbers DEF Stopping

\* A child that exits, or is reaped, changes no time.
LEMMA ReapStops ==
  ASSUME QInv, UNCHANGED vars \/ \E r \in Rosters : ReapNext(r) \/ ChildExits(r) PROVE Stopping'
<1>1. /\ UNCHANGED <<host, clock, stop, stopAt, last, start, first, spent, until>> /\ todo' \subseteq todo
      /\ phase' = phase \/ (phase = "reap" /\ phase' = "exited")
  BY DEF ReapNext, ChildExits, vars, times, loop
<1>2. Since' = Since /\ Size' = Size /\ (\A i : Left(i)' => Left(i))
  BY <1>1 DEF Since, Size, Left
<1>3. phase' = phase => (Leaving => Leaving')
  BY <1>1 DEF Leaving, Forced, due, Hosted
<1> QED
  BY <1>1, <1>2, <1>3 DEF QInv, Stopping

\* Every step keeps the bound on the stop.
LEMMA NextQInv == QInv /\ [Next]_vars => QInv'
<1> SUFFICES ASSUME QInv, [Next]_vars PROVE Stopping'
  BY NextMInv DEF QInv
<1>1. ASSUME NEW r \in Rosters, SpawnRaises(r) PROVE Stopping'
  BY <1>1 DEF SpawnRaises, Stopping
<1> QED
  BY <1>1, SweepStops, SpawnStops, LoopStops, PollStops, KillStops, SignalStops, TickStops, ReapStops DEF Next

\* The time that has passed is the difference of the ticks.
LEMMA ElapsedTicks ==
  ASSUME NEW t \in Clocks, NEW u \in Clocks PROVE Elapsed(t, u) = Ticks(u) - Ticks(t)
<1>1. t.h \in Nat /\ u.h \in Nat /\ t.s \in Int /\ u.s \in Int /\ Hour \in Nat
  BY TimesAssumption DEF Clocks
<1>2. (u.h - t.h) * Hour = u.h * Hour - t.h * Hour /\ u.h * Hour \in Int /\ t.h * Hour \in Int
  BY <1>1
<1> QED
  BY <1>1, <1>2 DEF Elapsed, Ticks

\* The invariant bounds the time since the signal.
LEMMA QInvBounds == QInv => StopBounded
<1> SUFFICES ASSUME QInv, stop, phase \notin Gone
    PROVE \/ Since <= Span(Size, RotateTicks) + GRACE
          \/ Since <= Span(Size, GRACE)
          \/ phase = "boot" /\ Since <= Span(Size, SweepTicks)
  BY StopNumbers, ElapsedTicks DEF StopBounded, Since, Span, Size
<1>1. Since \in Int
  BY StopNumbers DEF Since
<1>2. phase \in {"boot", "launch", "watchdog"} => \E i \in 1..Size : Left(i)
  <2>1. phase \in {"boot", "launch", "watchdog"} => todo # {}
    BY StopNumbers DEF TypeOK
  <2> QED
    BY <2>1, StopNumbers, HostFacts DEF TypeOK, Left
<1>3. ASSUME NEW i \in 1..Size, NEW d \in Nat
      PROVE Span(i - 1, d) + d <= Span(Size, d) /\ Span(i, d) <= Span(Size, d) /\ Span(i - 1, d) \in Nat
            /\ Span(i, d) \in Nat /\ Span(Size, d) \in Nat
  <2>1. i \in Nat /\ i - 1 \in Nat /\ (i - 1) + 1 = i /\ i <= Size /\ Size \in Nat
    BY StopNumbers
  <2>2. /\ Span(i - 1, d) \in Nat /\ Span(i, d) \in Nat /\ Span(i, d) = Span(i - 1, d) + d
        /\ Span(i, d) <= Span(Size, d) /\ Span(Size, d) \in Nat
    BY ONLY <2>1, SpanFacts, d \in Nat
  <2> QED
    BY <2>2
<1>4. CASE phase = "boot"
  <2>1. PICK i \in 1..Size : Left(i)
    BY <1>2, <1>4
  <2>2. Since <= Span(i - 1, SweepTicks) + spent /\ spent <= SweepTicks
    BY <1>4, <2>1 DEF QInv, Stopping
  <2> QED
    BY <1>1, <1>3, <1>4, <2>1, <2>2, StopNumbers
<1>5. CASE phase = "launch"
  <2>1. PICK i \in 1..Size : Left(i)
    BY <1>2, <1>5
  <2>2. Since <= Span(i - 1, RotateTicks) + spent /\ spent <= RotateTicks
    BY <1>5, <2>1 DEF QInv, Stopping, MInv, Launching
  <2>3. Span(i - 1, RotateTicks) + RotateTicks <= Span(Size, RotateTicks) /\ Span(i - 1, RotateTicks) \in Nat
    BY <1>3, StopNumbers
  <2> QED
    BY <1>1, <2>2, <2>3, StopNumbers
<1>6. CASE phase = "poll"
  BY <1>1, <1>6, StopNumbers DEF Stopping
<1>7. CASE phase = "reap"
  <2>1. Ticks(clock) <= Ticks(until) /\ Ticks(until) <= Ticks(stopAt) + Span(Size, RotateTicks) + GRACE
    BY <1>7 DEF QInv, Stopping, MInv, Reaping
  <2> QED
    BY <2>1, StopNumbers DEF Since
<1>8. CASE phase = "watchdog"
  <2>1. PICK i \in 1..Size : Left(i)
    BY <1>2, <1>8
  <2>2. Ticks(clock) <= Ticks(until) /\ Ticks(until) <= Ticks(stopAt) + Span(i, GRACE)
    BY <1>8, <2>1 DEF QInv, Stopping, MInv, Killing
  <2>3. Span(i, GRACE) <= Span(Size, GRACE) /\ Span(i, GRACE) \in Nat
    BY <1>3, StopNumbers
  <2> QED
    BY <2>2, <2>3, StopNumbers DEF Since
<1>9. CASE phase \in {"loop", "sleep", "due"}
  BY <1>1, <1>9, StopNumbers DEF Stopping
<1> QED
  BY <1>4, <1>5, <1>6, <1>7, <1>8, <1>9, StopNumbers DEF TypeOK, Gone

\* After SIGTERM the supervisor is gone within the rotations of a launch under way and one shared
\* grace, or within one grace, or one sweep, for each hosted roster, whatever the rosters, the
\* children and the moment of the signal (_reap_all_after_signal and the watchdog).
THEOREM StopBoundedTheorem == Spec => []StopBounded
<1>1. Init => QInv
  <2>1. ASSUME Init PROVE Stopping
    BY <2>1, TimesAssumption DEF Init, Stopping
  <2> QED
    BY <2>1, InitMInv DEF QInv
<1> QED
  BY <1>1, NextQInv, QInvBounds, PTL DEF Spec

=============================================================================
