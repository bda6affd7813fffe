----------------------------- MODULE Schedules -----------------------------
(***************************************************************************)
(* A schedule and the runner that fires it: SqliteScheduleStore,           *)
(* ScheduleRunner, the cadence arithmetic and the schedule routes          *)
(* (schedules/store.ts, runner.ts, cadence.ts, delivery.ts,                *)
(* handlers/schedules.ts).                                                 *)
(*                                                                         *)
(* One schedule: schedules share nothing but the sweep, which takes them   *)
(* one after the other; what passes between getDue and a schedule's turn   *)
(* stands for the others.  Every store call is a transaction and is        *)
(* awaited, so anything may happen between two of them.  Time is counted   *)
(* in units of which a day has DayLength; time zones, weekends and         *)
(* holidays only thin out the days and are left out.  What the run itself  *)
(* does is RunExecution's; here its thread is active until it ends.        *)
(***************************************************************************)
EXTENDS Integers, Sequences, FiniteSets

CONSTANTS
    Cadences,   \* cadence kinds in use, of "once", "interval", "daily"
    CatchUps,   \* catch_up_policy values in use
    Overlaps,   \* overlap_policy values in use
    Delivers,   \* of "none" (no target), "silent", "notify"
    OnceAt,     \* the instant of a one-off
    Interval,   \* an interval's length
    DayLength,  \* length of a day
    Window,     \* catch_up_window_ms
    MaxClock,   \* bound on time
    MaxRuns,    \* bound on recorded runs
    MaxCrashes  \* bound on crashes of the gateway

ASSUME ScheduleAssumption ==
    /\ Cadences \subseteq {"once", "interval", "daily"}
    /\ CatchUps \subseteq {"catch-up", "skip", "window"}
    /\ Overlaps \subseteq {"skip-if-running", "allow"}
    /\ Delivers \subseteq {"none", "silent", "notify"}
    /\ OnceAt \in Nat /\ Window \in Nat /\ MaxClock \in Nat /\ MaxRuns \in Nat /\ MaxCrashes \in Nat
    /\ Interval \in Nat \ {0} /\ DayLength \in Nat \ {0}

VARIABLES
    clock,    \* Date.now
    schedule, \* the schedules row
    runs,     \* schedule_runs, oldest first; gone with the schedule
    sweep,    \* tickOnce
    dispatch, \* each run's background dispatch
    active,   \* runs whose thread SessionRunner.isRunning
    sent,     \* messages the delivery sink took, per run
    crashes   \* crashes so far

scheduleVars == <<clock, schedule, runs, sweep, dispatch, active, sent, crashes>>

-----------------------------------------------------------------------------
(* Vocabulary *)

Never == -1   \* next_run_at is NULL
NoRun == 0    \* last_run_id is NULL

Idle == [at |-> "idle"]

RunStatuses == {"running", "succeeded", "needs-approval", "failed-to-run", "failed-to-deliver",
                "skipped"}

RunIds == DOMAIN runs

\* Where a dispatch is, whom it will tell, and how it ended, once that is known.
Job(at, deliver, status) == [at |-> at, deliver |-> deliver, status |-> status]
Over == Job("over", "none", "running")

ScheduleRow ==
    [there : BOOLEAN, enabled : BOOLEAN, state : {"scheduled", "paused", "completed"},
     next : Nat \cup {Never}, last : Nat,
     cadence : Cadences, catchUp : CatchUps, overlap : Overlaps, deliver : Delivers]

RunRow ==
    [slot : Nat, now : Nat, status : RunStatuses, linked : BOOLEAN,
     delivery : {"not-requested", "delivered", "not-delivered"}, manual : BOOLEAN]

Jobs ==
    [at : {"start", "link", "await", "finish", "deliver", "delivered", "over"},
     deliver : Delivers \cup {"none"}, status : RunStatuses]

Sweep == {Idle} \cup [at : {"decide", "skip", "run"}, now : Nat, seen : ScheduleRow]

-----------------------------------------------------------------------------
(* cadence.ts *)

\* computeNextRun: the next fire strictly after `from`.
NextRun(cadence, from) ==
    CASE cadence = "once" -> IF OnceAt > from THEN OnceAt ELSE Never
      [] cadence = "interval" -> from + Interval
      [] cadence = "daily" -> (from \div DayLength + 1) * DayLength

\* graceMs, the clamps to [30s, 2h] left out
Grace(cadence) == (IF cadence = "interval" THEN Interval ELSE DayLength) \div 2

-----------------------------------------------------------------------------
(* Requests *)

\* update: the cursor is not touched, whatever the cadence becomes.
UpdateSchedule ==
    /\ schedule.there
    /\ \E c \in Cadences, u \in CatchUps, o \in Overlaps, d \in Delivers :
          schedule' = [schedule EXCEPT !.cadence = c, !.catchUp = u, !.overlap = o, !.deliver = d]
    /\ UNCHANGED <<clock, runs, sweep, dispatch, active, sent, crashes>>

SetEnabled(enabled) ==
    /\ schedule.there
    /\ schedule' = [schedule EXCEPT !.enabled = enabled,
                                    !.state = IF enabled THEN "scheduled" ELSE "paused"]
    /\ UNCHANGED <<clock, runs, sweep, dispatch, active, sent, crashes>>

\* delete; the runs go with it, what was dispatched goes on.
DeleteSchedule ==
    /\ schedule.there
    /\ schedule' = [schedule EXCEPT !.there = FALSE]
    /\ UNCHANGED <<clock, runs, sweep, dispatch, active, sent, crashes>>

NewRun(slot, now, status, manual) ==
    [slot |-> slot, now |-> now, status |-> status, linked |-> FALSE,
     delivery |-> "not-requested", manual |-> manual]

Dispatched(row) == Job("start", row.deliver, "running")

Recorded(run, job) ==
    /\ Len(runs) < MaxRuns
    /\ runs' = Append(runs, run)
    /\ dispatch' = Append(dispatch, job)
    /\ sent' = Append(sent, 0)

\* runNow: an extra run, past the cursor, the overlap check and last_run_id.
RunNow ==
    /\ schedule.there
    /\ Recorded(NewRun(clock, clock, "running", TRUE), Dispatched(schedule))
    /\ UNCHANGED <<clock, schedule, sweep, active, crashes>>

-----------------------------------------------------------------------------
(* tickOnce and fire *)

\* getDue.  The schedule is fired as it was read here.
GetDue ==
    /\ sweep.at = "idle"
    /\ schedule.there /\ schedule.enabled
    /\ schedule.next # Never /\ schedule.next <= clock
    /\ sweep' = [at |-> "decide", now |-> clock, seen |-> schedule]
    /\ UNCHANGED <<clock, schedule, runs, dispatch, active, sent, crashes>>

Late == sweep.now - sweep.seen.next > Grace(sweep.seen.cadence)

\* The catch-up policy does not want it run any more.
TooLate ==
    /\ Late
    /\ \/ sweep.seen.catchUp = "skip"
       \/ sweep.seen.catchUp = "window" /\ Window > 0 /\ sweep.now - sweep.seen.next >= Window

\* previousRunActive looks at last_run_id only, and needs its thread linked.
PreviousRunActive ==
    /\ sweep.seen.last # NoRun /\ schedule.there
    /\ runs[sweep.seen.last].linked
    /\ sweep.seen.last \in active

\* Mutant of Decide: a late slot is passed over without a record.
DecideNothingLate ==
    /\ sweep.at = "decide"
    /\ sweep' = IF TooLate THEN Idle ELSE [at |-> "run", now |-> sweep.now, seen |-> sweep.seen]
    /\ UNCHANGED <<clock, schedule, runs, dispatch, active, sent, crashes>>

Decide ==
    /\ sweep.at = "decide"
    /\ sweep' = [at |-> IF \/ TooLate
                           \/ sweep.seen.overlap = "skip-if-running" /\ PreviousRunActive
                        THEN "skip" ELSE "run",
                 now |-> sweep.now, seen |-> sweep.seen]
    /\ UNCHANGED <<clock, schedule, runs, dispatch, active, sent, crashes>>

\* Mutant of Advanced: the next slot is counted from the slot, not from now.
AdvancedBySlot ==
    LET next == NextRun(sweep.seen.cadence, sweep.seen.next) IN
    [schedule EXCEPT !.next = next, !.last = Len(runs) + 1,
                     !.state = IF next = Never THEN "completed" ELSE "scheduled"]

\* recordRunAndAdvance: the row and the cursor in one transaction, before the
\* dispatch.  A skip is recorded as a run of its own.  The insert fails when
\* the schedule was deleted meanwhile.
Advanced ==
    LET next == NextRun(sweep.seen.cadence, sweep.now) IN
    [schedule EXCEPT !.next = next, !.last = Len(runs) + 1,
                     !.state = IF next = Never THEN "completed" ELSE "scheduled"]

\* Mutant of RecordRunAndAdvance: the cursor moves without the row.
AdvanceUnrecorded ==
    /\ sweep.at \in {"skip", "run"}
    /\ IF schedule.there
       THEN /\ IF sweep.at = "skip" THEN UNCHANGED <<runs, dispatch, sent>>
               ELSE Recorded(NewRun(sweep.seen.next, sweep.now, "running", FALSE),
                             Dispatched(sweep.seen))
            /\ schedule' = Advanced
       ELSE UNCHANGED <<schedule, runs, dispatch, sent>>
    /\ sweep' = Idle
    /\ UNCHANGED <<clock, active, crashes>>

RecordRunAndAdvance ==
    /\ sweep.at \in {"skip", "run"}
    /\ IF schedule.there
       THEN /\ LET skip == sweep.at = "skip" IN
               Recorded(NewRun(sweep.seen.next, sweep.now, IF skip THEN "skipped" ELSE "running", FALSE),
                        IF skip THEN Over ELSE Dispatched(sweep.seen))
            /\ schedule' = Advanced
       ELSE UNCHANGED <<schedule, runs, dispatch, sent>>
    /\ sweep' = Idle
    /\ UNCHANGED <<clock, active, crashes>>

-----------------------------------------------------------------------------
(* dispatch *)

SetRun(r, new) == runs' = IF schedule.there THEN [runs EXCEPT ![r] = new] ELSE runs
Verdict(r, at, status) == dispatch' = [dispatch EXCEPT ![r] = Job(at, @.deliver, status)]
Goto(r, at) == Verdict(r, at, dispatch[r].status)

\* startProfileRun starts the thread, or throws.
StartProfileRun(r) ==
    /\ dispatch[r].at = "start"
    /\ \/ active' = active \cup {r} /\ Goto(r, "link")
       \/ Verdict(r, "finish", "failed-to-run") /\ UNCHANGED active
    /\ UNCHANGED <<clock, schedule, runs, sweep, sent, crashes>>

LinkThread(r) ==
    /\ dispatch[r].at = "link"
    /\ SetRun(r, [runs[r] EXCEPT !.linked = TRUE])
    /\ Goto(r, "await")
    /\ UNCHANGED <<clock, schedule, sweep, active, sent, crashes>>

\* The run reaches its end, well or not (external).
ThreadEnds(r) ==
    /\ r \in active
    /\ active' = active \ {r}
    /\ UNCHANGED <<clock, schedule, runs, sweep, dispatch, sent, crashes>>

\* Mutant of Classify: pending drafts are not looked at.
ClassifyBare(r, pending) ==
    /\ dispatch[r].at = "await" /\ r \notin active
    /\ Verdict(r, "finish", "succeeded") \/ Verdict(r, "finish", "failed-to-run")
    /\ UNCHANGED <<clock, schedule, runs, sweep, active, sent, crashes>>

\* classifyOutcome; a clean end that parked drafts needs approval.
Classify(r, pending) ==
    /\ dispatch[r].at = "await" /\ r \notin active
    /\ \/ Verdict(r, "finish", IF pending > 0 THEN "needs-approval" ELSE "succeeded")
       \/ Verdict(r, "finish", "failed-to-run")
    /\ UNCHANGED <<clock, schedule, runs, sweep, active, sent, crashes>>

FinishRun(r) ==
    /\ dispatch[r].at = "finish"
    /\ SetRun(r, [runs[r] EXCEPT !.status = dispatch[r].status])
    /\ IF dispatch[r].deliver = "none" THEN dispatch' = [dispatch EXCEPT ![r] = Over]
       ELSE Goto(r, "deliver")
    /\ UNCHANGED <<clock, schedule, sweep, active, sent, crashes>>

\* maybeDeliver: nobody is to be told; or there is no sink, or it fails, and a
\* success becomes failed-to-deliver; or the message goes out.
NotDelivered(r, told) ==
    [runs[r] EXCEPT !.delivery = "not-delivered",
                    !.status = IF told /\ dispatch[r].status = "succeeded"
                               THEN "failed-to-deliver" ELSE @]

Deliver(r) ==
    /\ dispatch[r].at = "deliver"
    /\ \/ /\ dispatch[r].deliver = "notify"
          /\ sent' = [sent EXCEPT ![r] = @ + 1]
          /\ Goto(r, "delivered")
          /\ UNCHANGED runs
       \/ /\ SetRun(r, NotDelivered(r, dispatch[r].deliver = "notify"))
          /\ dispatch' = [dispatch EXCEPT ![r] = Over]
          /\ UNCHANGED sent
    /\ UNCHANGED <<clock, schedule, sweep, active, crashes>>

\* If the write throws, the run counts as not delivered although the message
\* went out.
RecordDelivery(r) ==
    /\ dispatch[r].at = "delivered"
    /\ \/ SetRun(r, [runs[r] EXCEPT !.delivery = "delivered"])
       \/ SetRun(r, NotDelivered(r, TRUE))
    /\ dispatch' = [dispatch EXCEPT ![r] = Over]
    /\ UNCHANGED <<clock, schedule, sweep, active, sent, crashes>>

-----------------------------------------------------------------------------
(* Time, and the gateway's death and boot *)

ClockTick ==
    /\ clock < MaxClock
    /\ clock' = clock + 1
    /\ UNCHANGED <<schedule, runs, sweep, dispatch, active, sent, crashes>>

\* Mutant of Restart: failInterruptedRuns is not called.
RestartForgetful ==
    /\ crashes < MaxCrashes
    /\ crashes' = crashes + 1
    /\ sweep' = Idle
    /\ dispatch' = [r \in RunIds |-> Over]
    /\ active' = {}
    /\ UNCHANGED <<clock, schedule, runs, sent>>

\* Whatever was in memory is gone; start calls failInterruptedRuns.  A store
\* call that throws in a dispatch ends here too: its rejection has no handler.
Restart ==
    /\ crashes < MaxCrashes
    /\ crashes' = crashes + 1
    /\ sweep' = Idle
    /\ dispatch' = [r \in RunIds |-> Over]
    /\ active' = {}
    /\ runs' = [r \in RunIds |-> IF runs[r].status = "running"
                                 THEN [runs[r] EXCEPT !.status = "failed-to-run"] ELSE runs[r]]
    /\ UNCHANGED <<clock, schedule, sent>>

-----------------------------------------------------------------------------

\* createSchedule, done before anything else can see the row.
ScheduleInit ==
    /\ clock = 0
    /\ \E c \in Cadences, u \in CatchUps, o \in Overlaps, d \in Delivers :
          schedule = [there |-> TRUE, enabled |-> TRUE, state |-> "scheduled",
                      next |-> NextRun(c, 0), last |-> NoRun,
                      cadence |-> c, catchUp |-> u, overlap |-> o, deliver |-> d]
    /\ runs = <<>> /\ dispatch = <<>> /\ sent = <<>>
    /\ sweep = Idle
    /\ active = {}
    /\ crashes = 0

SweepStep == GetDue \/ Decide \/ RecordRunAndAdvance

DispatchStep(r) ==
    StartProfileRun(r) \/ LinkThread(r) \/ FinishRun(r) \/ Deliver(r) \/ RecordDelivery(r)

ScheduleStep ==
    \/ UpdateSchedule \/ SetEnabled(TRUE) \/ SetEnabled(FALSE) \/ RunNow
    \/ DeleteSchedule \/ SweepStep \/ ClockTick

============================================================================
