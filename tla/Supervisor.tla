----------------------------- MODULE Supervisor -----------------------------
(***************************************************************************)
(* The long-running wrapper of the window processes                        *)
(* (pilot/service/supervisor.py).  It begins with a sweep of the orders    *)
(* that a crashed process left.  Once an hour, at minute :40, it rotates   *)
(* old journals and spawns one child process for each roster it hosts,     *)
(* waits for them, kills those that overrun their close, and goes back to  *)
(* sleep.  SIGTERM ends it, after the children have had a grace; an        *)
(* exception of a spawn, which nothing catches, ends it at once.           *)
(*                                                                         *)
(* The module follows MultiRosterSupervisor.run; the single-roster class   *)
(* is the same loop over one roster, except that it reads the clock after  *)
(* the rotation and not before it (`host.multi').  A time is a pair of an  *)
(* hour and a number of ticks into the hour; a close is named by the hour  *)
(* it ends.  The supervisor's own statements take no time: time passes     *)
(* while it sweeps, sleeps, waits for a child or rotates.  A restart of     *)
(* the process keeps nothing, so it is an initial state at a later clock.  *)
(* Log lines and the exit code are left out.                               *)
(***************************************************************************)
EXTENDS Integers, Sequences

CONSTANTS
    Rosters,        \* the rosters there are
    Hosts,          \* the command lines: [rosters, multi, once, run_now]
    Hour,           \* ticks in an hour
    LAUNCH,         \* LAUNCH_SEC: the tick of minute :40
    WATCHDOG_GRACE, \* ticks after its close a child may still run
    GRACE,          \* SIGTERM_GRACE_S: ticks a signalled child is waited for
    RotateTicks,    \* the longest rotation of one journal directory
    SweepTicks,     \* the longest boot sweep of one roster
    Boots,          \* the clocks at which the process may be started
    MaxHour         \* bound: the last hour that is looked at

ASSUME TimesAssumption ==
    /\ Hour \in Nat /\ LAUNCH \in 1..(Hour - 1)
    /\ WATCHDOG_GRACE \in 0..(Hour - 1) /\ GRACE \in 0..Hour
    /\ RotateTicks \in Nat /\ SweepTicks \in Nat
    /\ MaxHour \in Nat
    /\ Boots \subseteq [h : Nat, s : 0..(Hour - 1)]

ASSUME HostsAssumption ==
    \A hst \in Hosts :
        /\ hst.rosters \in Seq(Rosters) /\ hst.rosters # << >>
        /\ \A i, j \in DOMAIN hst.rosters : hst.rosters[i] = hst.rosters[j] => i = j
        /\ hst.multi \in BOOLEAN /\ (hst.multi \/ Len(hst.rosters) = 1)
        /\ hst.once \in BOOLEAN /\ hst.run_now \in BOOLEAN
        \* the rotations of a launch, the watchdog's delay and one grace for each child fit between a
        \* close and the next :40
        /\ WATCHDOG_GRACE + Len(hst.rosters) * (RotateTicks + GRACE) < LAUNCH

VARIABLES
    host,      \* the command line of this process
    clock,     \* the wall clock
    phase,     \* where the loop is
    first,     \* the loop has not come round yet
    last,      \* _last_close_run: the close each roster was launched for, 0 for None
    start,     \* close_epoch of the launch under way
    todo,      \* rosters the for loop under way has still to handle
    spent,     \* ticks spent in the boot sweep or the rotation under way
    pending,   \* rosters whose child is waited for
    until,     \* the time a sleep or the wait for a signalled child ends
    child,     \* the child process of each roster
    stop,      \* _stop_requested
    runs,      \* history: the closes each roster's children ran for
    booted,    \* history: the clock when the loop began
    slipped,   \* history: closes that went by in a sleep past its end or in a rotation
    stopAt     \* history: the clock when the signal came

times == <<clock, booted, stopAt>>
loop  == <<first, last, start, todo, spent, until>>
vars  == <<host, phase, stop, pending, child, runs, slipped, times, loop>>

Hosted == {host.rosters[i] : i \in DOMAIN host.rosters}

\* The for loops go through the rosters in the order of the command line.
Turn(r) ==
    /\ r \in todo
    /\ \E i \in DOMAIN host.rosters :
          host.rosters[i] = r /\ \A j \in 1..(i - 1) : host.rosters[j] \notin todo

(***************************************************************************)
(* Wake arithmetic.                                                        *)
(***************************************************************************)

Clocks == [h : Nat, s : 0..(Hour - 1)]

Before(t, u)  == t.h < u.h \/ (t.h = u.h /\ t.s < u.s)
AtLeast(t, u) == ~Before(t, u)

\* Mutant of Plus: the hour does not roll over.
PlusNoCarry(t, d) == [h |-> t.h, s |-> t.s + d]

Plus(t, d) == IF t.s + d < Hour THEN [h |-> t.h, s |-> t.s + d]
                                ELSE [h |-> t.h + 1, s |-> t.s + d - Hour]

next_forty(t) == [h |-> IF t.s <= LAUNCH THEN t.h ELSE t.h + 1, s |-> LAUNCH]

in_launch_band(t) == LAUNCH <= t.s

\* The close of a window opened at t: the supervisor's notion and, computed from its own clock
\* when it starts, the child's.
next_top_of_hour(t) == t.h + 1

\* Mutant of watchdog_deadline: the close after the one the child was launched for.
DeadlineHourLate == [h |-> start + 1, s |-> WATCHDOG_GRACE]

watchdog_deadline == [h |-> start, s |-> WATCHDOG_GRACE]

(***************************************************************************)
(* The loop.                                                               *)
(***************************************************************************)

Init ==
    /\ host \in Hosts
    /\ clock \in Boots
    /\ booted = clock /\ stopAt = clock
    /\ phase = "boot" /\ first = TRUE /\ stop = FALSE
    /\ last = [r \in Rosters |-> 0] /\ start = 0 /\ spent = 0
    /\ todo = Hosted /\ pending = {} /\ until = clock
    /\ child = [r \in Rosters |-> "none"]
    /\ runs = [r \in Rosters |-> {}]
    /\ slipped = {}

\* The sweep of the next roster's stray orders is over: it was skipped because the roster is not
\* armed, or it failed, or it cancelled what it found.  A signal is looked at after the last one.
BootSweep(r) ==
    /\ phase = "boot" /\ Turn(r)
    /\ todo' = todo \ {r} /\ spent' = 0
    /\ phase' = IF todo # {r} THEN "boot" ELSE IF stop THEN "exited" ELSE "loop"
    /\ UNCHANGED <<host, stop, pending, child, runs, slipped, times, first, last, start, until>>

Forced == first /\ host.run_now

\* Not in the band: sleep to the next :40.
SleepToForty ==
    /\ phase = "loop" /\ ~Forced /\ ~in_launch_band(clock)
    /\ phase' = "sleep"
    /\ until' = next_forty(clock)
    /\ UNCHANGED <<host, stop, pending, child, runs, slipped, times,
                   first, last, start, todo, spent>>

\* In the band, or forced by --now.
GoOn ==
    /\ phase = "loop" /\ (Forced \/ in_launch_band(clock))
    /\ phase' = "due" /\ first' = FALSE
    /\ UNCHANGED <<host, stop, pending, child, runs, slipped, times,
                   last, start, todo, spent, until>>

\* _sleep_until: a stop wakes it at once.  A wake that overshot the band goes round the loop.
Wakes ==
    /\ phase = "sleep" /\ (stop \/ AtLeast(clock, until))
    /\ phase' = IF stop THEN "exited" ELSE "loop"
    /\ first' = FALSE
    /\ UNCHANGED <<host, stop, pending, child, runs, slipped, times,
                   last, start, todo, spent, until>>

\* Mutant of due: no record of the closes that have been run.
DueAgain(r) == TRUE

due(r) == ~(in_launch_band(clock) /\ last[r] = next_top_of_hour(clock))

\* One run per close: every roster has been launched for this close.
CloseAlreadyRun ==
    /\ phase = "due" /\ \A r \in Hosted : ~due(r)
    /\ phase' = "sleep"
    /\ until' = next_forty(clock)
    /\ UNCHANGED <<host, stop, pending, child, runs, slipped, times,
                   first, last, start, todo, spent>>

BeginLaunch ==
    /\ phase = "due" /\ \E r \in Hosted : due(r)
    /\ phase' = "launch"
    /\ todo' = {r \in Hosted : due(r)}
    /\ start' = next_top_of_hour(clock) /\ spent' = 0
    /\ UNCHANGED <<host, stop, pending, child, runs, slipped, times, first, last, until>>

\* The close a launch is booked under: the single-roster class reads the clock after the rotation.
close_epoch == IF host.multi THEN start ELSE next_top_of_hour(clock)

\* The rotation of the next roster's journals is over; its close is marked and its child spawned.
Spawn(r) ==
    /\ phase = "launch" /\ Turn(r)
    /\ last' = [last EXCEPT ![r] = close_epoch]
    /\ start' = close_epoch
    /\ child' = [child EXCEPT ![r] = "live"]
    /\ runs' = [runs EXCEPT ![r] = @ \cup {next_top_of_hour(clock)}]
    /\ pending' = pending \cup {r}
    /\ todo' = todo \ {r} /\ spent' = 0
    /\ phase' = IF todo = {r} THEN "poll" ELSE "launch"
    /\ UNCHANGED <<host, stop, slipped, times, first, until>>

\* The spawn raises, its close already marked: the exception ends the process.  The children that
\* this launch has spawned run on, and nobody waits for them.
SpawnRaises(r) ==
    /\ phase = "launch" /\ Turn(r)
    /\ last' = [last EXCEPT ![r] = close_epoch]
    /\ start' = close_epoch
    /\ todo' = {} /\ spent' = 0
    /\ phase' = "crashed"
    /\ UNCHANGED <<host, stop, pending, child, runs, slipped, times, first, until>>

\* After the wait: --once ends the process, otherwise the loop comes round.
AfterWait == IF host.once THEN "exited" ELSE "loop"

\* A poll finds that the child has exited.
Collect(r) ==
    /\ phase = "poll" /\ r \in pending /\ child[r] = "exited"
    /\ pending' = pending \ {r}
    /\ phase' = IF pending = {r} THEN AfterWait ELSE "poll"
    /\ UNCHANGED <<host, stop, child, runs, slipped, times, loop>>

\* A shutdown signal: forward it to all pending children, which share one grace.
ForwardStop ==
    /\ phase = "poll" /\ stop
    /\ phase' = "reap"
    /\ todo' = pending
    /\ until' = Plus(clock, GRACE)
    /\ UNCHANGED <<host, stop, pending, child, runs, slipped, times, first, last, start, spent>>

\* Past the deadline every pending child is killed, one after the other.
WatchdogFires ==
    /\ phase = "poll" /\ ~stop /\ AtLeast(clock, watchdog_deadline)
    /\ phase' = "watchdog"
    /\ todo' = pending
    /\ until' = Plus(clock, GRACE)
    /\ UNCHANGED <<host, stop, pending, child, runs, slipped, times, first, last, start, spent>>

\* Mutant of Reaped: a child that outstays its grace is let go.
ReapedNoKill(r) ==
    /\ child[r] = "exited" \/ AtLeast(clock, until)
    /\ pending' = pending \ {r}
    /\ UNCHANGED child

\* The signalled child has exited, or its grace is over and it is killed.
Reaped(r) ==
    /\ child[r] = "exited" \/ AtLeast(clock, until)
    /\ child' = [child EXCEPT ![r] = "exited"]
    /\ pending' = pending \ {r}

\* Mutant of ReapNext: the children are given their graces in series.
ReapInSeries(r) ==
    /\ phase = "reap" /\ Turn(r)
    /\ Reaped(r)
    /\ todo' = todo \ {r}
    /\ until' = Plus(clock, GRACE)
    /\ phase' = IF todo = {r} THEN "exited" ELSE "reap"
    /\ UNCHANGED <<host, stop, runs, slipped, times, first, last, start, spent>>

\* _reap_all_after_signal: the next child; after the last the process exits.
ReapNext(r) ==
    /\ phase = "reap" /\ Turn(r)
    /\ Reaped(r)
    /\ todo' = todo \ {r}
    /\ phase' = IF todo = {r} THEN "exited" ELSE "reap"
    /\ UNCHANGED <<host, stop, runs, slipped, times, first, last, start, spent, until>>

\* The watchdog gives the next child a grace of its own.
WatchdogNext(r) ==
    /\ phase = "watchdog" /\ Turn(r)
    /\ Reaped(r)
    /\ todo' = todo \ {r}
    /\ until' = Plus(clock, GRACE)
    /\ phase' = IF todo = {r} THEN AfterWait ELSE "watchdog"
    /\ UNCHANGED <<host, stop, runs, slipped, times, first, last, start, spent>>

(***************************************************************************)
(* The environment: the signal, the children and time.                     *)
(***************************************************************************)

\* The process has ended.
Gone == {"exited", "crashed"}

\* SIGTERM, SIGINT or SIGBREAK.
Signal ==
    /\ phase \notin Gone /\ ~stop
    /\ stop' = TRUE /\ stopAt' = clock
    /\ UNCHANGED <<host, phase, pending, child, runs, slipped, clock, booted, loop>>

ChildExits(r) ==
    /\ child[r] = "live"
    /\ child' = [child EXCEPT ![r] = "exited"]
    /\ UNCHANGED <<host, phase, stop, pending, runs, slipped, times, loop>>

\* A sweep waits for the proxy to answer, and for each of its requests; no signal ends it.
SweepOver == spent = SweepTicks

\* A rotation stops at its limits of files and seconds.
RotationOver == spent = RotateTicks

\* What a wait returns for at once, so that no time passes over it.
WaitOver ==
    CASE phase = "boot"   -> SweepOver
      [] phase = "sleep"  -> stop
      [] phase = "launch" -> RotationOver
      [] phase = "poll"   -> \/ stop \/ AtLeast(clock, watchdog_deadline)
                             \/ \E r \in pending : child[r] = "exited"
      [] phase \in {"reap", "watchdog"} -> \/ AtLeast(clock, until)
                                           \/ \E r \in todo : Turn(r) /\ child[r] = "exited"
      [] OTHER -> TRUE

\* Time passes in a wait.  A sleep may last longer than asked for: the host was suspended.
Tick ==
    /\ ~WaitOver
    /\ clock.h < MaxHour
    /\ clock' = Plus(clock, 1)
    /\ spent' = IF phase \in {"boot", "launch"} THEN spent + 1 ELSE spent
    /\ booted' = IF phase = "boot" THEN clock' ELSE booted
    /\ slipped' = IF clock'.h # clock.h /\ (phase = "launch" \/ (phase = "sleep" /\ AtLeast(clock, until)))
                  THEN slipped \cup {clock'.h} ELSE slipped
    /\ UNCHANGED <<host, phase, stop, pending, child, runs, stopAt,
                   first, last, start, todo, until>>

Next ==
    \/ SleepToForty \/ GoOn \/ Wakes
    \/ CloseAlreadyRun \/ BeginLaunch \/ ForwardStop \/ WatchdogFires
    \/ \E r \in Rosters : \/ BootSweep(r) \/ Spawn(r) \/ SpawnRaises(r) \/ Collect(r)
                          \/ ReapNext(r) \/ WatchdogNext(r) \/ ChildExits(r)
    \/ Signal \/ Tick

Spec == Init /\ [][Next]_vars

(***************************************************************************)
(* Properties.                                                             *)
(***************************************************************************)

\* Type correctness; a for loop is under way exactly while it has rosters left.
TypeOK ==
    /\ host \in Hosts /\ clock \in Clocks /\ until \in Clocks
    /\ phase \in {"boot", "loop", "sleep", "due", "launch", "poll", "reap", "watchdog"} \cup Gone
    /\ first \in BOOLEAN /\ stop \in BOOLEAN
    /\ last \in [Rosters -> Nat] /\ start \in Nat /\ spent \in Nat
    /\ pending \subseteq Hosted
    /\ child \in [Rosters -> {"none", "live", "exited"}]
    /\ runs \in [Rosters -> SUBSET Nat]
    /\ todo \subseteq Hosted
    /\ phase \in {"boot", "launch", "reap", "watchdog"} <=> todo # {}

\* One run per close (supervisor.py: "the same close is never spawned twice"): a child that came
\* back early, crashed or was killed is never spawned again for the close it ran for, unless the
\* close before it went by while its journals were rotated or the host was suspended.
OneRunPerClose ==
    [][\A r \in Rosters :
          (child[r] # "live" /\ child'[r] = "live") =>
              \/ next_top_of_hour(clock) \notin runs[r]
              \/ clock.h \in slipped]_vars

\* A wedged window never costs a later one: as long as the process runs, every close since its boot
\* has been run for every hosted roster, except those that went by while the host was suspended in a
\* sleep or while the journals were rotated.
NoMissedClose ==
    \A c \in (booted.h + 1)..clock.h :
        c \notin slipped => \A r \in Hosted : c \in runs[r]

\* A child process is in the hands of the wait loop: no path of the loop, no signal and no return of
\* run leaves one running.  Only the exception of a spawn does (supervisor.py:898): the children left
\* behind then belong to other rosters of the launch than q, whose close is marked and who has no
\* child; so a process that hosts one roster leaves none.
LiveChildrenWatched ==
    \A r \in Rosters :
        child[r] = "live" =>
            /\ r \in pending
            /\ \/ phase \in {"launch", "poll", "reap", "watchdog"}
               \/ phase = "crashed" /\ \E q \in Hosted \ pending : last[q] = start

\* The ticks from t to u.
Elapsed(t, u) == (u.h - t.h) * Hour + u.s - t.s

\* After SIGTERM the supervisor is gone within one shared grace and the rotations of a launch under
\* way, or, when it was sweeping at boot or the watchdog was at work, within the sweeps or one grace
\* for each hosted roster.
StopBounded ==
    (stop /\ phase \notin Gone) =>
        \/ Elapsed(stopAt, clock) <= Len(host.rosters) * RotateTicks + GRACE
        \/ Elapsed(stopAt, clock) <= Len(host.rosters) * GRACE
        \/ phase = "boot" /\ Elapsed(stopAt, clock) <= Len(host.rosters) * SweepTicks

=============================================================================
