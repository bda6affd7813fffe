-------------------------- MODULE Schedules_proofs --------------------------
(***************************************************************************)
(* What holds of a schedule and its held drafts for any cadence, policy,   *)
(* length of a day, bound on time, runs and crashes and any number of      *)
(* racing approvals: no slot fires twice, no held action runs twice, and   *)
(* the report of a run is honest.                                          *)
(***************************************************************************)
EXTENDS ScheduleApprovals, TLAPS

-----------------------------------------------------------------------------
(* The inductive invariant *)

\* What a sweep read stays ahead of every slot that was fired: it is the only one
\* that fires, and it fires what it read.  The row may be gone by then.
CursorKept ==
    /\ \A i \in RunIds : ~runs[i].manual =>
         /\ schedule.next # Never => schedule.next > runs[i].now
         /\ sweep.at # "idle" => sweep.seen.next > runs[i].now
         /\ \A j \in RunIds : (i < j /\ ~runs[j].manual) => runs[j].slot > runs[i].now
    /\ sweep.at # "idle" => sweep.seen.next \in Nat /\ sweep.seen.next <= sweep.now

\* The click has taken the fence of a draft.
Claimed(c) == click[c].at \in {"lookup", "execute", "approved", "failed"}

\* A draft being executed is in the hands of at most one click, and nothing was
\* executed before that click executes it.
FenceHeld ==
    /\ \A c \in Clicks : Claimed(c) => draft[click[c].run].status = "executing"
    /\ \A c, d \in Clicks : Claimed(c) /\ Claimed(d) /\ click[c].run = click[d].run => c = d
    /\ \A c \in Clicks : click[c].at \in {"lookup", "execute"} => effects[click[c].run] = 0
    /\ \A c \in Clicks : click[c].at = "approved" => effects[click[c].run] = 1
    /\ \A r \in 1..MaxRuns :
         /\ effects[r] <= 1
         /\ draft[r].status \in {"none", "pending", "discarded"} => effects[r] = 0
         /\ draft[r].status = "approved" => effects[r] = 1

\* A run holds a draft only while its thread is active, and is judged only when
\* it no longer is; its message goes out once, after that.
Judged(r) ==
    /\ r \in active => dispatch[r].at \in {"link", "await"}
    /\ dispatch[r].at \in {"start", "link", "await", "finish"} => runs[r].status = "running"
    /\ schedule.there =>
         \/ draft[r].status # "pending"
         \/ /\ runs[r].status \notin {"succeeded", "failed-to-deliver"}
            /\ dispatch[r].at \in {"finish", "deliver", "delivered"}
                 => dispatch[r].status \notin {"succeeded", "failed-to-deliver"}
    /\ dispatch[r].at \in {"start", "link", "await", "finish", "deliver"} => sent[r] = 0
    /\ dispatch[r].at = "delivered" => sent[r] = 1
    /\ runs[r].delivery = "delivered" => sent[r] = 1
    /\ sent[r] <= 1

JudgedLast == \A r \in RunIds : Judged(r)

SchedulesInv == SchedulesTypeOK /\ CursorKept /\ FenceHeld /\ JudgedLast

-----------------------------------------------------------------------------
(* Cadences and sequences *)

\* computeNextRun returns an instant strictly after the one it is given, or none.
LEMMA NextRunLater ==
    ASSUME NEW c \in Cadences, NEW from \in Nat
    PROVE  /\ NextRun(c, from) \in Nat \cup {Never}
           /\ NextRun(c, from) # Never => NextRun(c, from) > from
<1>1. OnceAt \in Nat /\ Interval \in Nat \ {0} /\ DayLength \in Nat \ {0} /\ c \in {"once", "interval", "daily"}
  BY ScheduleAssumption
<1>2. CASE c = "daily"
  <2>1. (from \div DayLength + 1) * DayLength > from /\ (from \div DayLength + 1) * DayLength \in Nat
    BY <1>1
  <2>. QED
    BY <1>2, <2>1 DEF NextRun
<1>3. CASE c = "once"
  BY <1>1, <1>3 DEF NextRun
<1>4. CASE c = "interval"
  BY <1>1, <1>4 DEF NextRun
<1>. QED
  BY <1>1, <1>2, <1>3, <1>4

\* A record that is appended leaves the others alone.
LEMMA Appended ==
    ASSUME NEW S, NEW s \in Seq(S), NEW x \in S
    PROVE  /\ Append(s, x) \in Seq(S)
           /\ Len(Append(s, x)) = Len(s) + 1
           /\ DOMAIN Append(s, x) = 1..(Len(s) + 1) /\ DOMAIN s = 1..Len(s)
           /\ \A i \in 1..Len(s) : Append(s, x)[i] = s[i]
           /\ Append(s, x)[Len(s) + 1] = x
OBVIOUS

\* A sequence with one element replaced.
LEMMA Replaced ==
    ASSUME NEW S, NEW s \in Seq(S), NEW i \in DOMAIN s, NEW x \in S
    PROVE  /\ [s EXCEPT ![i] = x] \in Seq(S)
           /\ Len([s EXCEPT ![i] = x]) = Len(s)
           /\ DOMAIN [s EXCEPT ![i] = x] = 1..Len(s) /\ DOMAIN s = 1..Len(s)
           /\ [s EXCEPT ![i] = x][i] = x
           /\ \A j \in DOMAIN s : j # i => [s EXCEPT ![i] = x][j] = s[j]
OBVIOUS

-----------------------------------------------------------------------------
(* Types *)

\* A row that is recorded keeps the tables in step.
LEMMA RecordedTypes ==
    ASSUME SchedulesTypeOK, NEW run \in RunRow, NEW job \in Jobs, Recorded(run, job)
    PROVE  /\ runs' \in Seq(RunRow) /\ dispatch' \in Seq(Jobs) /\ sent' \in Seq(Nat)
           /\ Len(runs') = Len(runs) + 1 /\ Len(runs') <= MaxRuns
           /\ Len(dispatch') = Len(runs') /\ Len(sent') = Len(runs')
           /\ RunIds \subseteq RunIds'
           /\ RunIds' = 1..(Len(runs) + 1) /\ RunIds = 1..Len(runs)
BY ScheduleAssumption DEF SchedulesTypeOK, Recorded, RunIds

\* The type invariant is kept by every step.
LEMMA SchedulesTypesStep ==
    ASSUME SchedulesInv, [ApprovalNext]_approvalVars
    PROVE  SchedulesTypeOK'
<1> USE DEF SchedulesInv
<1>0. /\ SchedulesTypeOK /\ MaxRuns \in Nat /\ MaxClock \in Nat
      /\ RunIds = 1..Len(runs) /\ Len(runs) \in Nat
  BY ScheduleAssumption DEF SchedulesTypeOK, RunIds
<1>1. CASE UpdateSchedule /\ Unheld
  <2>1. schedule' \in ScheduleRow /\ schedule'.last = schedule.last
    BY <1>1 DEF UpdateSchedule, SchedulesTypeOK, ScheduleRow
  <2>. QED
    BY <1>1, <2>1 DEF UpdateSchedule, Unheld, SchedulesTypeOK, RunIds
<1>2. ASSUME NEW on \in BOOLEAN, SetEnabled(on), Unheld PROVE SchedulesTypeOK'
  <2>1. schedule' \in ScheduleRow /\ schedule'.last = schedule.last
    BY <1>2 DEF SetEnabled, SchedulesTypeOK, ScheduleRow
  <2>. QED
    BY <1>2, <2>1 DEF SetEnabled, Unheld, SchedulesTypeOK, RunIds
<1>3. CASE DeleteSchedule /\ Unheld
  <2>1. schedule' \in ScheduleRow /\ schedule'.last = schedule.last
    BY <1>3 DEF DeleteSchedule, SchedulesTypeOK, ScheduleRow
  <2>. QED
    BY <1>3, <2>1 DEF DeleteSchedule, Unheld, SchedulesTypeOK, RunIds
<1>4. CASE RunNow /\ Unheld
  <2>1. NewRun(clock, clock, "running", TRUE) \in RunRow /\ Dispatched(schedule) \in Jobs
    BY DEF SchedulesTypeOK, ScheduleRow, NewRun, RunRow, RunStatuses, Dispatched, Job, Jobs
  <2>2. Recorded(NewRun(clock, clock, "running", TRUE), Dispatched(schedule))
    BY <1>4 DEF RunNow
  <2>3. schedule.last <= Len(runs) + 1
    BY <1>0 DEF SchedulesTypeOK, ScheduleRow
  <2>4. UNCHANGED <<clock, schedule, sweep, active, draft, effects, click>>
    BY <1>4 DEF RunNow, Unheld
  <2>. QED
    BY <1>0, <2>1, <2>2, <2>3, <2>4, RecordedTypes DEF SchedulesTypeOK
<1>5. CASE GetDue /\ Unheld
  <2>1. sweep' \in Sweep
    BY <1>5 DEF GetDue, SchedulesTypeOK, Sweep
  <2>. QED
    BY <1>5, <2>1 DEF GetDue, Unheld, SchedulesTypeOK, RunIds
<1>6. CASE Decide /\ Unheld
  <2>1. sweep \in [at : {"decide", "skip", "run"}, now : Nat, seen : ScheduleRow]
    BY <1>6 DEF Decide, SchedulesTypeOK, Sweep, Idle
  <2>2. sweep' \in Sweep
    BY <1>6, <2>1 DEF Decide, Sweep
  <2>. QED
    BY <1>6, <2>2 DEF Decide, Unheld, SchedulesTypeOK, RunIds
<1>7. CASE RecordRunAndAdvance /\ Unheld
  <2>1. sweep \in [at : {"decide", "skip", "run"}, now : Nat, seen : ScheduleRow]
    BY <1>7 DEF RecordRunAndAdvance, SchedulesTypeOK, Sweep, Idle
  <2>2. sweep' \in Sweep
    BY <1>7 DEF RecordRunAndAdvance, Sweep
  <2>3. CASE ~schedule.there
    BY <1>7, <2>2, <2>3 DEF RecordRunAndAdvance, Unheld, SchedulesTypeOK, RunIds
  <2>4. CASE schedule.there
    <3> DEFINE run == NewRun(sweep.seen.next, sweep.now, IF sweep.at = "skip" THEN "skipped" ELSE "running", FALSE)
               job == IF sweep.at = "skip" THEN Over ELSE Dispatched(sweep.seen)
               next == NextRun(sweep.seen.cadence, sweep.now)
    <3>1. sweep.seen.next \in Nat
      BY <2>1 DEF CursorKept, SchedulesInv
    <3>2. run \in RunRow
      BY <2>1, <3>1 DEF NewRun, RunRow, RunStatuses
    <3>3. Over \in Jobs /\ Dispatched(sweep.seen) \in Jobs
      BY <2>1 DEF Dispatched, Over, Job, Jobs, ScheduleRow, RunStatuses
    <3>4. Recorded(run, job) /\ schedule' = Advanced
      BY <1>7, <2>4 DEF RecordRunAndAdvance
    <3>5. next \in Nat \cup {Never}
      BY <2>1, NextRunLater DEF ScheduleRow
    <3>6. schedule' \in ScheduleRow /\ schedule'.last = Len(runs) + 1
      <4> HIDE DEF next
      <4>1. (IF next = Never THEN "completed" ELSE "scheduled") \in {"scheduled", "paused", "completed"}
        OBVIOUS
      <4>2. Len(runs) + 1 \in Nat
        BY <1>0
      <4>3. schedule' = [schedule EXCEPT !.next = next, !.last = Len(runs) + 1,
                           !.state = IF next = Never THEN "completed" ELSE "scheduled"]
        BY <3>4 DEF Advanced, next
      <4>. QED
        BY <3>5, <4>1, <4>2, <4>3 DEF SchedulesTypeOK, ScheduleRow
    <3>7. job \in Jobs
      BY <3>3
    <3> HIDE DEF run, job
    <3>. QED
      <4>1. UNCHANGED <<clock, active, draft, effects, click>>
        BY <1>7, <2>4 DEF RecordRunAndAdvance, Unheld
      <4>2. /\ runs' \in Seq(RunRow) /\ dispatch' \in Seq(Jobs) /\ sent' \in Seq(Nat)
            /\ Len(runs') = Len(runs) + 1 /\ Len(runs') <= MaxRuns
            /\ Len(dispatch') = Len(runs') /\ Len(sent') = Len(runs')
            /\ RunIds \subseteq RunIds' /\ schedule'.last <= Len(runs')
        <5>1. /\ runs' \in Seq(RunRow) /\ dispatch' \in Seq(Jobs) /\ sent' \in Seq(Nat)
              /\ Len(runs') = Len(runs) + 1 /\ Len(runs') <= MaxRuns
              /\ Len(dispatch') = Len(runs') /\ Len(sent') = Len(runs')
              /\ RunIds \subseteq RunIds'
          BY <1>0, <3>2, <3>4, <3>7, RecordedTypes
        <5>. QED
          BY <1>0, <3>6, <5>1
      <4>. QED
        BY <1>0, <2>2, <3>6, <4>1, <4>2 DEF SchedulesTypeOK
  <2>. QED
    BY <2>3, <2>4
<1>8. CASE ClockTick /\ Unheld
  BY <1>0, <1>8 DEF ClockTick, Unheld, SchedulesTypeOK, RunIds
<1>r. ASSUME NEW r \in RunIds PROVE /\ r \in 1..MaxRuns /\ r \in DOMAIN dispatch /\ r \in DOMAIN sent
                                    /\ runs[r] \in RunRow /\ dispatch[r] \in Jobs /\ sent[r] \in Nat
  BY <1>0 DEF SchedulesTypeOK
\* A step that touches only the tables of the runs.
<1>s. ASSUME UNCHANGED <<clock, schedule, sweep>>, Unheld,
             runs' \in Seq(RunRow), dispatch' \in Seq(Jobs), sent' \in Seq(Nat),
             Len(runs') = Len(runs), Len(dispatch') = Len(dispatch), Len(sent') = Len(sent),
             active' \subseteq RunIds
      PROVE  SchedulesTypeOK'
  <2>1. RunIds' = RunIds
    BY <1>0, <1>s DEF RunIds
  <2>. QED
    BY <1>0, <1>s, <2>1 DEF Unheld, SchedulesTypeOK
<1>j. ASSUME NEW r \in RunIds, NEW x \in Jobs, dispatch' = [dispatch EXCEPT ![r] = x]
      PROVE  dispatch' \in Seq(Jobs) /\ Len(dispatch') = Len(dispatch)
  BY <1>r, <1>j, Replaced DEF SchedulesTypeOK
<1>v. ASSUME NEW r \in RunIds, NEW st \in RunStatuses,
             NEW at \in {"start", "link", "await", "finish", "deliver", "delivered", "over"}, Verdict(r, at, st)
      PROVE  dispatch' \in Seq(Jobs) /\ Len(dispatch') = Len(dispatch)
  <2>1. Job(at, dispatch[r].deliver, st) \in Jobs
    BY <1>r DEF Job, Jobs
  <2>2. dispatch' = [dispatch EXCEPT ![r] = Job(at, dispatch[r].deliver, st)]
    BY <1>v DEF Verdict
  <2>. QED
    BY <1>j, <2>1, <2>2
<1>g. ASSUME NEW r \in RunIds, Goto(r, "link") \/ Goto(r, "await") \/ Goto(r, "deliver") \/ Goto(r, "delivered")
      PROVE  dispatch' \in Seq(Jobs) /\ Len(dispatch') = Len(dispatch)
  <2>1. dispatch[r].status \in RunStatuses
    BY <1>r DEF Jobs
  <2>. QED
    BY <1>g, <1>v, <2>1 DEF Goto
<1>o. Over \in Jobs
  BY DEF Over, Job, Jobs, RunStatuses
<1>n. ASSUME NEW r \in RunIds, NEW x \in RunRow, SetRun(r, x)
      PROVE  runs' \in Seq(RunRow) /\ Len(runs') = Len(runs)
  BY <1>0, <1>n, Replaced DEF SetRun, SchedulesTypeOK, RunIds
<1>9. ASSUME NEW r \in RunIds, StartProfileRun(r), Unheld PROVE SchedulesTypeOK'
  <2>1. dispatch' \in Seq(Jobs) /\ Len(dispatch') = Len(dispatch)
    BY <1>9, <1>g, <1>v DEF StartProfileRun, RunStatuses
  <2>. QED
    BY <1>9, <1>s, <2>1 DEF StartProfileRun, SchedulesTypeOK
<1>10. ASSUME NEW r \in RunIds, LinkThread(r), Unheld PROVE SchedulesTypeOK'
  <2>1. [runs[r] EXCEPT !.linked = TRUE] \in RunRow
    BY <1>r DEF RunRow
  <2>2. /\ runs' \in Seq(RunRow) /\ Len(runs') = Len(runs)
        /\ dispatch' \in Seq(Jobs) /\ Len(dispatch') = Len(dispatch)
    BY <1>10, <1>g, <1>n, <2>1 DEF LinkThread
  <2>. QED
    BY <1>10, <1>s, <2>2 DEF LinkThread, SchedulesTypeOK
<1>11. ASSUME NEW r \in RunIds, ThreadEnds(r), Unheld PROVE SchedulesTypeOK'
  BY <1>11, <1>s DEF ThreadEnds, SchedulesTypeOK
<1>12. ASSUME NEW r \in RunIds, NEW n, Classify(r, n), Unheld PROVE SchedulesTypeOK'
  <2>1. dispatch' \in Seq(Jobs) /\ Len(dispatch') = Len(dispatch)
    BY <1>12, <1>v DEF Classify, RunStatuses
  <2>. QED
    BY <1>12, <1>s, <2>1 DEF Classify, SchedulesTypeOK
<1>13. ASSUME NEW r \in RunIds, FinishRun(r), Unheld PROVE SchedulesTypeOK'
  <2>1. [runs[r] EXCEPT !.status = dispatch[r].status] \in RunRow
    BY <1>r DEF RunRow, Jobs
  <2>2. /\ runs' \in Seq(RunRow) /\ Len(runs') = Len(runs)
        /\ dispatch' \in Seq(Jobs) /\ Len(dispatch') = Len(dispatch)
    BY <1>13, <1>g, <1>j, <1>n, <1>o, <2>1 DEF FinishRun
  <2>. QED
    BY <1>13, <1>s, <2>2 DEF FinishRun, SchedulesTypeOK
<1>14. ASSUME NEW r \in RunIds, Deliver(r), Unheld PROVE SchedulesTypeOK'
  <2>1. ASSUME NEW told \in BOOLEAN PROVE NotDelivered(r, told) \in RunRow
    BY <1>r DEF NotDelivered, RunRow, RunStatuses
  <2>2. sent' \in Seq(Nat) /\ Len(sent') = Len(sent)
    <3>1. sent[r] + 1 \in Nat
      BY <1>r
    <3>2. [sent EXCEPT ![r] = @ + 1] = [sent EXCEPT ![r] = sent[r] + 1]
      OBVIOUS
    <3>3. sent' = sent \/ sent' = [sent EXCEPT ![r] = sent[r] + 1]
      BY <1>14, <3>2 DEF Deliver
    <3>4. sent \in Seq(Nat)
      BY DEF SchedulesTypeOK
    <3>5. r \in DOMAIN sent
      BY <1>r
    <3>. QED
      BY <3>1, <3>3, <3>4, <3>5
  <2>3. /\ runs' \in Seq(RunRow) /\ Len(runs') = Len(runs)
        /\ dispatch' \in Seq(Jobs) /\ Len(dispatch') = Len(dispatch)
    BY <1>14, <1>g, <1>j, <1>n, <1>o, <2>1 DEF Deliver, SchedulesTypeOK
  <2>. QED
    BY <1>14, <1>s, <2>2, <2>3 DEF Deliver, SchedulesTypeOK
<1>15. ASSUME NEW r \in RunIds, RecordDelivery(r), Unheld PROVE SchedulesTypeOK'
  <2>1. [runs[r] EXCEPT !.delivery = "delivered"] \in RunRow /\ NotDelivered(r, TRUE) \in RunRow
    BY <1>r DEF NotDelivered, RunRow, RunStatuses
  <2>2. /\ runs' \in Seq(RunRow) /\ Len(runs') = Len(runs)
        /\ dispatch' \in Seq(Jobs) /\ Len(dispatch') = Len(dispatch)
    BY <1>15, <1>j, <1>n, <1>o, <2>1 DEF RecordDelivery
  <2>. QED
    BY <1>15, <1>s, <2>2 DEF RecordDelivery, SchedulesTypeOK
\* A step of the drafts that leaves the schedule alone.
<1>t. ASSUME NEW r \in 1..MaxRuns, NEW x \in DraftStatuses, SetDraft(r, x)
      PROVE  draft' \in [1..MaxRuns -> Draft]
  BY <1>t DEF SetDraft, SchedulesTypeOK, Draft
<1>k. ASSUME NEW c \in Clicks, NEW r \in 1..MaxRuns, NEW at \in {"claim", "lookup", "execute", "approved", "failed"},
             Serve(c, r, at)
      PROVE  click' \in [Clicks -> Click]
  BY <1>k DEF Serve, SchedulesTypeOK, Click
<1>a. ASSUME NEW c \in Clicks, Answered(c) PROVE click' \in [Clicks -> Click]
  BY <1>a DEF Answered, SchedulesTypeOK, Click
<1>u. ASSUME UNCHANGED scheduleVars, draft' \in [1..MaxRuns -> Draft], effects' \in [1..MaxRuns -> Nat],
             click' \in [Clicks -> Click]
      PROVE  SchedulesTypeOK'
  BY <1>0, <1>u DEF scheduleVars, SchedulesTypeOK, RunIds
<1>16. ASSUME NEW r \in RunIds, Hold(r) \/ Discard(r) PROVE SchedulesTypeOK'
  BY <1>16, <1>r, <1>t, <1>u DEF Hold, Discard, DraftStatuses, SchedulesTypeOK
<1>17. ASSUME NEW r \in RunIds, DeleteThread(r) PROVE SchedulesTypeOK'
  <2>1. [runs[r] EXCEPT !.linked = FALSE] \in RunRow
    BY <1>r DEF RunRow
  <2>2. runs' = [runs EXCEPT ![r] = [runs[r] EXCEPT !.linked = FALSE]]
    BY <1>17 DEF DeleteThread
  <2>3. runs' \in Seq(RunRow) /\ Len(runs') = Len(runs)
    BY <2>1, <2>2, Replaced DEF RunIds, SchedulesTypeOK
  <2>4. draft' \in [1..MaxRuns -> Draft]
    <3>1. draft' = [draft EXCEPT ![r] = [draft[r] EXCEPT !.intact = draft[r].intact /\ draft[r].status = "none"]]
      BY <1>17 DEF DeleteThread
    <3>2. [draft[r] EXCEPT !.intact = draft[r].intact /\ draft[r].status = "none"] \in Draft
      BY <1>r DEF SchedulesTypeOK, Draft
    <3>. QED
      BY <1>r, <3>1, <3>2 DEF SchedulesTypeOK
  <2>5. UNCHANGED <<clock, schedule, sweep, dispatch, active, sent, effects, click>> /\ RunIds' = RunIds
    BY <1>0, <1>17, <2>3 DEF DeleteThread, RunIds
  <2>. QED
    BY <1>0, <2>3, <2>4, <2>5 DEF SchedulesTypeOK
<1>18. ASSUME NEW c \in Clicks, ClickStep(c) PROVE SchedulesTypeOK'
  <2>0. click[c].at # "idle" => click[c].run \in 1..MaxRuns
    BY DEF SchedulesTypeOK, Click, Idle
  <2>1. CASE GetApproval(c)
    <3>1. click' \in [Clicks -> Click]
      BY <1>k, <1>r, <2>1 DEF GetApproval
    <3>. QED
      BY <1>u, <2>1, <3>1 DEF GetApproval, SchedulesTypeOK
  <2>2. CASE Claim(c)
    <3>1. click' \in [Clicks -> Click]
      BY <1>a, <1>k, <2>0, <2>2 DEF Claim
    <3>2. draft' \in [1..MaxRuns -> Draft]
      BY <1>t, <2>0, <2>2 DEF Claim, SchedulesTypeOK, DraftStatuses
    <3>. QED
      BY <1>u, <2>2, <3>1, <3>2 DEF Claim, SchedulesTypeOK
  <2>3. CASE LookUpSchedule(c)
    <3>1. click' \in [Clicks -> Click]
      BY <1>a, <1>k, <2>0, <2>3 DEF LookUpSchedule
    <3>. QED
      BY <1>u, <2>3, <3>1 DEF LookUpSchedule, SchedulesTypeOK
  <2>4. CASE ExecuteHeldTool(c)
    <3>1. click' \in [Clicks -> Click]
      BY <1>k, <2>0, <2>4 DEF ExecuteHeldTool
    <3>2. effects' \in [1..MaxRuns -> Nat]
      BY <2>0, <2>4 DEF ExecuteHeldTool, SchedulesTypeOK
    <3>. QED
      BY <1>u, <2>4, <3>1, <3>2 DEF ExecuteHeldTool, SchedulesTypeOK
  <2>5. CASE DecideApproval(c)
    <3>1. click' \in [Clicks -> Click]
      BY <1>a, <2>5 DEF DecideApproval
    <3>2. draft' \in [1..MaxRuns -> Draft]
      BY <1>t, <2>0, <2>5 DEF DecideApproval, SchedulesTypeOK, DraftStatuses
    <3>. QED
      BY <1>u, <2>5, <3>1, <3>2 DEF DecideApproval, SchedulesTypeOK
  <2>. QED
    BY <1>18, <2>1, <2>2, <2>3, <2>4, <2>5 DEF ClickStep
<1>19. CASE Reboot
  <2>1. \A r \in RunIds : (IF runs[r].status = "running" THEN [runs[r] EXCEPT !.status = "failed-to-run"]
                           ELSE runs[r]) \in RunRow
    BY <1>r DEF RunRow, RunStatuses
  <2>2. runs' \in Seq(RunRow) /\ Len(runs') = Len(runs)
    BY <1>0, <1>19, <2>1 DEF Reboot, Restart
  <2>3. dispatch' \in Seq(Jobs) /\ Len(dispatch') = Len(runs)
    BY <1>0, <1>19, <1>o DEF Reboot, Restart
  <2>4. draft' \in [1..MaxRuns -> Draft]
    <3>1. \A r \in 1..MaxRuns : (IF draft[r].status = "executing" THEN [draft[r] EXCEPT !.status = "indeterminate"]
                                 ELSE draft[r]) \in Draft
      BY DEF SchedulesTypeOK, Draft, DraftStatuses
    <3>. QED
      BY <1>19, <3>1 DEF Reboot, RecoverInterruptedClaims, SchedulesTypeOK
  <2>5. click' \in [Clicks -> Click] /\ sweep' \in Sweep /\ active' = {}
    BY <1>19 DEF Reboot, Restart, Click, Sweep
  <2>6. UNCHANGED <<clock, schedule, sent, effects>>
    BY <1>19 DEF Reboot, Restart
  <2>. QED
    BY <1>0, <2>2, <2>3, <2>4, <2>5, <2>6 DEF SchedulesTypeOK
<1>20. CASE UNCHANGED approvalVars
  BY <1>u, <1>20 DEF approvalVars, SchedulesTypeOK
<1>. QED
  BY <1>1, <1>2, <1>3, <1>4, <1>5, <1>6, <1>7, <1>8, <1>9, <1>10, <1>11, <1>12, <1>13, <1>14, <1>15, <1>16,
     <1>17, <1>18, <1>19, <1>20 DEF ApprovalNext, ScheduleStep, SweepStep, RunStep, DispatchStep

-----------------------------------------------------------------------------
(* Firing *)

\* What a step may do to a recorded run: its slot, its moment and who asked for it
\* are written once.
SameRuns ==
    /\ RunIds' = RunIds
    /\ \A i \in RunIds : /\ runs'[i].slot = runs[i].slot
                         /\ runs'[i].now = runs[i].now
                         /\ runs'[i].manual = runs[i].manual

\* Every step but a recording leaves them alone.
LEMMA RunsStay ==
    ASSUME SchedulesInv, [ApprovalNext]_approvalVars, ~RunNow, ~RecordRunAndAdvance
    PROVE  SameRuns
<1> USE DEF SchedulesInv
<1>0. RunIds = 1..Len(runs) /\ \A i \in RunIds : runs[i] \in RunRow
  BY DEF SchedulesTypeOK, RunIds
<1>u. CASE UNCHANGED runs
  BY <1>u DEF SameRuns, RunIds
<1>s. ASSUME NEW r \in RunIds, NEW x, runs' = [runs EXCEPT ![r] = x],
             x.slot = runs[r].slot, x.now = runs[r].now, x.manual = runs[r].manual
      PROVE  SameRuns
  BY <1>s DEF SameRuns, RunIds
<1>1. ASSUME NEW r \in RunIds, LinkThread(r) \/ FinishRun(r) \/ Deliver(r) \/ RecordDelivery(r) \/ DeleteThread(r)
      PROVE  SameRuns
  <2>1. ASSUME NEW v PROVE LET x == [runs[r] EXCEPT !.linked = v] IN
               x.slot = runs[r].slot /\ x.now = runs[r].now /\ x.manual = runs[r].manual
    BY <1>0 DEF RunRow
  <2>2. ASSUME NEW v PROVE LET x == [runs[r] EXCEPT !.status = v] IN
               x.slot = runs[r].slot /\ x.now = runs[r].now /\ x.manual = runs[r].manual
    BY <1>0 DEF RunRow
  <2>3. ASSUME NEW v PROVE LET x == [runs[r] EXCEPT !.delivery = v] IN
               x.slot = runs[r].slot /\ x.now = runs[r].now /\ x.manual = runs[r].manual
    BY <1>0 DEF RunRow
  <2>4. ASSUME NEW v PROVE LET x == NotDelivered(r, v) IN
               x.slot = runs[r].slot /\ x.now = runs[r].now /\ x.manual = runs[r].manual
    BY <1>0 DEF NotDelivered, RunRow
  <2>5. CASE LinkThread(r)
    BY <1>s, <1>u, <2>1, <2>5 DEF LinkThread, SetRun
  <2>6. CASE FinishRun(r)
    BY <1>s, <1>u, <2>2, <2>6 DEF FinishRun, SetRun
  <2>7. CASE Deliver(r)
    BY <1>s, <1>u, <2>4, <2>7 DEF Deliver, SetRun
  <2>8. CASE RecordDelivery(r)
    <3>1. CASE SetRun(r, [runs[r] EXCEPT !.delivery = "delivered"])
      BY <1>s, <1>u, <2>3, <2>8, <3>1 DEF RecordDelivery, SetRun
    <3>2. CASE SetRun(r, NotDelivered(r, TRUE))
      BY <1>s, <1>u, <2>4, <2>8, <3>2 DEF RecordDelivery, SetRun
    <3>. QED
      BY <2>8, <3>1, <3>2 DEF RecordDelivery
  <2>9. CASE DeleteThread(r)
    BY <1>s, <2>1, <2>9 DEF DeleteThread
  <2>. QED
    BY <1>1, <2>5, <2>6, <2>7, <2>8, <2>9
<1>2. CASE Reboot
  <2>1. RunIds' = RunIds
    BY <1>2 DEF Reboot, Restart, RunIds
  <2>2. \A i \in RunIds : runs'[i] = IF runs[i].status = "running"
                                     THEN [runs[i] EXCEPT !.status = "failed-to-run"] ELSE runs[i]
    BY <1>2 DEF Reboot, Restart
  <2>. QED
    BY <1>0, <2>1, <2>2 DEF SameRuns, RunRow
<1>3. ASSUME \/ UpdateSchedule \/ SetEnabled(TRUE) \/ SetEnabled(FALSE) \/ DeleteSchedule \/ GetDue \/ Decide
             \/ ClockTick \/ UNCHANGED approvalVars
             \/ \E r \in RunIds : \/ StartProfileRun(r) \/ ThreadEnds(r) \/ Classify(r, PendingForRun(r))
                                  \/ Hold(r) \/ Discard(r)
             \/ \E c \in Clicks : ClickStep(c)
      PROVE  UNCHANGED runs
  BY <1>3 DEF UpdateSchedule, SetEnabled, DeleteSchedule, GetDue, Decide, ClockTick, approvalVars, StartProfileRun,
     ThreadEnds, Classify, Hold, Discard, ClickStep, GetApproval, Claim, LookUpSchedule, ExecuteHeldTool,
     DecideApproval, scheduleVars
<1>. QED
  BY <1>u, <1>1, <1>2, <1>3 DEF ApprovalNext, ScheduleStep, SweepStep, RunStep, DispatchStep

\* No step brings a slot that was fired, or one before it, back before the sweep.
LEMMA CursorStep ==
    ASSUME SchedulesInv, [ApprovalNext]_approvalVars
    PROVE  CursorKept'
<1> USE DEF SchedulesInv
<1>0. /\ RunIds = 1..Len(runs) /\ Len(runs) \in Nat /\ clock \in Nat
      /\ schedule.next \in Nat \cup {Never}
      /\ \A i \in RunIds : runs[i].now \in Nat /\ runs[i].slot \in Nat
      /\ sweep.at # "idle" => sweep.now \in Nat /\ sweep.seen.cadence \in Cadences
  <2>1. sweep.at # "idle" => sweep.now \in Nat /\ sweep.seen \in ScheduleRow
    BY DEF SchedulesTypeOK, Sweep, Idle
  <2>2. sweep.at # "idle" => sweep.seen.cadence \in Cadences
    BY <2>1 DEF ScheduleRow
  <2>3. RunIds = 1..Len(runs) /\ Len(runs) \in Nat /\ \A i \in RunIds : runs[i] \in RunRow
    BY DEF SchedulesTypeOK, RunIds
  <2>4. \A i \in RunIds : runs[i].now \in Nat /\ runs[i].slot \in Nat
    BY <2>3 DEF RunRow
  <2>5. clock \in Nat /\ schedule.next \in Nat \cup {Never}
    BY ScheduleAssumption DEF SchedulesTypeOK, ScheduleRow
  <2>. QED
    BY <2>1, <2>2, <2>3, <2>4, <2>5
<1>i. Idle.at = "idle"
  BY DEF Idle
<1>f. ASSUME SameRuns, schedule'.next = schedule.next, sweep' = sweep \/ sweep' = Idle
      PROVE  CursorKept'
  BY <1>f, <1>i DEF CursorKept, SameRuns
<1>1. CASE GetDue
  <2>1. SameRuns /\ UNCHANGED schedule
    BY <1>1 DEF GetDue, SameRuns, RunIds
  <2>2. sweep'.at = "decide" /\ sweep'.now = clock /\ sweep'.seen = schedule
    BY <1>1 DEF GetDue
  <2>3. schedule.next # Never /\ schedule.next <= clock
    BY <1>1 DEF GetDue
  <2>4. sweep'.seen.next = schedule.next /\ schedule.next \in Nat
    BY <1>0, <2>2, <2>3
  <2>. QED
    BY <2>1, <2>2, <2>3, <2>4 DEF CursorKept, SameRuns
<1>2. CASE Decide
  <2>1. SameRuns /\ UNCHANGED schedule
    BY <1>2 DEF Decide, SameRuns, RunIds
  <2>2. sweep'.now = sweep.now /\ sweep'.seen = sweep.seen /\ sweep.at # "idle"
    BY <1>2 DEF Decide
  <2>. QED
    BY <2>1, <2>2 DEF CursorKept, SameRuns
<1>3. CASE RecordRunAndAdvance /\ schedule.there
  <2> DEFINE n == Len(runs) + 1
             next == NextRun(sweep.seen.cadence, sweep.now)
  <2>0. sweep.at # "idle"
    BY <1>3 DEF RecordRunAndAdvance
  <2>1. schedule'.next = next
    BY <1>3 DEF RecordRunAndAdvance, Advanced, SchedulesTypeOK, ScheduleRow
  <2>2. next \in Nat \cup {Never} /\ (next # Never => next > sweep.now)
    BY <1>0, <2>0, NextRunLater
  <2>3. PICK x \in RunRow : /\ runs' = Append(runs, x)
                            /\ x.slot = sweep.seen.next /\ x.now = sweep.now /\ ~x.manual
    <3> DEFINE x == NewRun(sweep.seen.next, sweep.now, IF sweep.at = "skip" THEN "skipped" ELSE "running", FALSE)
    <3>1. x \in RunRow /\ x.slot = sweep.seen.next /\ x.now = sweep.now /\ ~x.manual
      BY <1>0, <2>0 DEF NewRun, RunRow, RunStatuses, CursorKept
    <3>2. runs' = Append(runs, x)
      BY <1>3 DEF RecordRunAndAdvance, Recorded
    <3>. QED
      BY <3>1, <3>2
  <2>4. /\ RunIds' = 1..n /\ runs'[n] = x
        /\ \A i \in RunIds : runs'[i] = runs[i]
    BY <1>0, <2>3, Appended DEF SchedulesTypeOK, RunIds
  <2>5. sweep'.at = "idle"
    BY <1>3, <1>i DEF RecordRunAndAdvance
  <2>6. sweep.seen.next \in Nat /\ sweep.seen.next <= sweep.now
    BY <2>0 DEF CursorKept
  <2> HIDE DEF n, next
  <2>7. ASSUME NEW i \in RunIds', ~runs'[i].manual
        PROVE  schedule'.next # Never => schedule'.next > runs'[i].now
    <3>1. CASE i = n
      BY <2>1, <2>2, <2>3, <2>4, <3>1
    <3>2. CASE i \in RunIds
      <4>1. sweep.seen.next > runs[i].now /\ runs[i].now \in Nat
        BY <1>0, <2>0, <2>4, <2>7, <3>2 DEF CursorKept
      <4>. QED
        BY <1>0, <2>0, <2>1, <2>2, <2>4, <2>6, <3>2, <4>1
    <3>. QED
      BY <1>0, <2>4, <3>1, <3>2 DEF n
  <2>8. ASSUME NEW i \in RunIds', NEW j \in RunIds', ~runs'[i].manual, i < j, ~runs'[j].manual
        PROVE  runs'[j].slot > runs'[i].now
    <3>1. i \in RunIds /\ (j \in RunIds \/ j = n)
      BY <1>0, <2>4, <2>8 DEF n
    <3>. QED
      BY <2>0, <2>3, <2>4, <2>8, <3>1 DEF CursorKept
  <2>. QED
    BY <2>5, <2>7, <2>8 DEF CursorKept
<1>4. CASE RunNow
  <2> DEFINE n == Len(runs) + 1
  <2>1. PICK x \in RunRow : runs' = Append(runs, x) /\ x.manual
    <3>1. NewRun(clock, clock, "running", TRUE) \in RunRow /\ NewRun(clock, clock, "running", TRUE).manual
      BY <1>0 DEF NewRun, RunRow, RunStatuses
    <3>2. runs' = Append(runs, NewRun(clock, clock, "running", TRUE))
      BY <1>4 DEF RunNow, Recorded
    <3>. QED
      BY <3>1, <3>2
  <2>2. /\ RunIds' = 1..n /\ runs'[n].manual
        /\ \A i \in RunIds : runs'[i] = runs[i]
    BY <1>0, <2>1, Appended DEF SchedulesTypeOK, RunIds
  <2>3. UNCHANGED <<schedule, sweep>>
    BY <1>4 DEF RunNow
  <2>4. ASSUME NEW i \in RunIds', ~runs'[i].manual PROVE i \in RunIds
    BY <1>0, <2>2, <2>4
  <2>5. sweep.at # "idle" => sweep.seen.next \in Nat /\ sweep.seen.next <= sweep.now
    BY DEF CursorKept
  <2>6. ASSUME NEW i \in RunIds', ~runs'[i].manual
        PROVE  /\ schedule'.next # Never => schedule'.next > runs'[i].now
               /\ sweep'.at # "idle" => sweep'.seen.next > runs'[i].now
               /\ \A j \in RunIds' : (i < j /\ ~runs'[j].manual) => runs'[j].slot > runs'[i].now
    BY <2>2, <2>3, <2>4, <2>6 DEF CursorKept
  <2>. QED
    BY <2>3, <2>5, <2>6 DEF CursorKept
<1>5. ASSUME ~RunNow, ~GetDue, ~Decide, ~RecordRunAndAdvance
      PROVE  schedule'.next = schedule.next /\ (sweep' = sweep \/ sweep' = Idle)
  <2>1. CASE UpdateSchedule \/ SetEnabled(TRUE) \/ SetEnabled(FALSE) \/ DeleteSchedule
    BY <2>1 DEF UpdateSchedule, SetEnabled, DeleteSchedule, SchedulesTypeOK, ScheduleRow
  <2>2. CASE \/ ClockTick \/ UNCHANGED approvalVars \/ Reboot
             \/ \E r \in RunIds : RunStep(r) \/ Hold(r) \/ DeleteThread(r) \/ Discard(r)
             \/ \E c \in Clicks : ClickStep(c)
    BY <2>2 DEF ClockTick, approvalVars, Reboot, Restart, RunStep, DispatchStep, StartProfileRun, LinkThread,
       FinishRun, Deliver, RecordDelivery, ThreadEnds, Classify, Hold, DeleteThread, Discard, ClickStep,
       GetApproval, Claim, LookUpSchedule, ExecuteHeldTool, DecideApproval, scheduleVars
  <2>. QED
    BY <1>5, <2>1, <2>2 DEF ApprovalNext, ScheduleStep, SweepStep
<1>6. CASE RecordRunAndAdvance /\ ~schedule.there
  BY <1>6, <1>f DEF RecordRunAndAdvance, SameRuns, RunIds
<1>. QED
  BY <1>f, <1>1, <1>2, <1>3, <1>4, <1>5, <1>6, RunsStay

-----------------------------------------------------------------------------
(* Held drafts *)

\* No step lets a second click execute a draft, or a draft be offered again.
LEMMA FenceStep ==
    ASSUME SchedulesInv, [ApprovalNext]_approvalVars
    PROVE  FenceHeld'
<1> USE DEF SchedulesInv
<1>0. /\ draft \in [1..MaxRuns -> Draft] /\ effects \in [1..MaxRuns -> Nat] /\ click \in [Clicks -> Click]
      /\ RunIds \subseteq 1..MaxRuns
      /\ \A c \in Clicks : click[c].at # "idle" => click[c].run \in 1..MaxRuns
  <2>1. RunIds \subseteq 1..MaxRuns
    BY ScheduleAssumption DEF SchedulesTypeOK, RunIds
  <2>2. \A c \in Clicks : click[c].at # "idle" => click[c].run \in 1..MaxRuns
    BY DEF SchedulesTypeOK, Click, Idle
  <2>. QED
    BY <2>1, <2>2 DEF SchedulesTypeOK
<1>u. CASE UNCHANGED <<draft, effects, click>>
  BY <1>u DEF FenceHeld, Claimed
\* The status of one draft changes.
<1>d. ASSUME NEW r \in 1..MaxRuns, NEW x, SetDraft(r, x)
      PROVE  /\ draft'[r].status = x
             /\ \A q \in 1..MaxRuns : q # r => draft'[q].status = draft[q].status
  BY <1>0, <1>d DEF SetDraft, Draft
\* One click moves on, or ends.
<1>c. ASSUME NEW c \in Clicks, NEW r, NEW at, Serve(c, r, at)
      PROVE  /\ click'[c].at = at /\ click'[c].run = r
             /\ \A d \in Clicks : d # c => click'[d] = click[d]
  BY <1>0, <1>c DEF Serve
<1>a. ASSUME NEW c \in Clicks, Answered(c)
      PROVE  /\ click'[c].at = "idle"
             /\ \A d \in Clicks : d # c => click'[d] = click[d]
  BY <1>0, <1>a DEF Answered, Idle
<1>1. ASSUME NEW r \in RunIds, Hold(r) PROVE FenceHeld'
  <2>1. draft[r].status = "none" /\ SetDraft(r, "pending") /\ UNCHANGED <<effects, click>>
    BY <1>1 DEF Hold
  <2>. QED
    BY <1>0, <1>d, <2>1 DEF FenceHeld, Claimed
<1>2. ASSUME NEW r \in RunIds, Discard(r) PROVE FenceHeld'
  <2>1. draft[r].status = "pending" /\ SetDraft(r, "discarded") /\ UNCHANGED <<effects, click>>
    BY <1>2 DEF Discard
  <2>. QED
    BY <1>0, <1>d, <2>1 DEF FenceHeld, Claimed
<1>3. ASSUME NEW r \in RunIds, DeleteThread(r) PROVE FenceHeld'
  <2>1. \A q \in 1..MaxRuns : draft'[q].status = draft[q].status
    BY <1>0, <1>3 DEF DeleteThread, Draft
  <2>2. UNCHANGED <<effects, click>>
    BY <1>3 DEF DeleteThread
  <2>. QED
    BY <1>0, <2>1, <2>2 DEF FenceHeld, Claimed
<1>4. ASSUME NEW c \in Clicks, GetApproval(c) PROVE FenceHeld'
  <2>1. PICK r \in RunIds : Serve(c, r, "claim")
    BY <1>4 DEF GetApproval
  <2>2. UNCHANGED <<draft, effects>>
    BY <1>4 DEF GetApproval
  <2>. QED
    BY <1>c, <2>1, <2>2 DEF FenceHeld, Claimed
<1>5. ASSUME NEW c \in Clicks, Claim(c) PROVE FenceHeld'
  <2> DEFINE r == click[c].run
  <2>0. click[c].at = "claim" /\ r \in 1..MaxRuns /\ UNCHANGED effects
    BY <1>0, <1>5 DEF Claim
  <2>1. CASE Answered(c) /\ UNCHANGED draft
    BY <1>a, <2>0, <2>1 DEF FenceHeld, Claimed
  <2>2. CASE draft[r].status = "pending" /\ Answered(c) /\ SetDraft(r, "indeterminate")
    BY <1>0, <1>a, <1>d, <2>0, <2>2 DEF FenceHeld, Claimed
  <2>3. CASE draft[r].status = "pending" /\ Serve(c, r, "lookup") /\ SetDraft(r, "executing")
    BY <1>0, <1>c, <1>d, <2>0, <2>3 DEF FenceHeld, Claimed
  <2>. QED
    BY <1>5, <2>1, <2>2, <2>3 DEF Claim
<1>6. ASSUME NEW c \in Clicks, LookUpSchedule(c) PROVE FenceHeld'
  <2>1. click[c].at = "lookup" /\ UNCHANGED <<draft, effects>> /\ (Serve(c, click[c].run, "execute") \/ Answered(c))
    BY <1>6 DEF LookUpSchedule
  <2>. QED
    BY <1>a, <1>c, <2>1 DEF FenceHeld, Claimed
<1>7. ASSUME NEW c \in Clicks, ExecuteHeldTool(c) PROVE FenceHeld'
  <2> DEFINE r == click[c].run
  <2>0. click[c].at = "execute" /\ r \in 1..MaxRuns /\ UNCHANGED draft
    BY <1>0, <1>7 DEF ExecuteHeldTool
  <2>1. effects[r] = 0 /\ draft[r].status = "executing"
    BY <2>0 DEF FenceHeld, Claimed
  <2>2. CASE effects' = [effects EXCEPT ![r] = @ + 1] /\ (Serve(c, r, "approved") \/ Serve(c, r, "failed"))
    <3>1. effects'[r] = 1 /\ \A q \in 1..MaxRuns : q # r => effects'[q] = effects[q]
      BY <1>0, <2>0, <2>1, <2>2
    <3>2. ASSUME NEW d \in Clicks, Claimed(d), d # c PROVE click[d].run # r
      BY <2>0, <3>2 DEF FenceHeld, Claimed
    <3>3. /\ click'[c].at \in {"approved", "failed"} /\ click'[c].run = r
          /\ \A d \in Clicks : d # c => click'[d] = click[d]
      BY <1>c, <2>2
    <3>. QED
      BY <1>0, <2>0, <2>1, <3>1, <3>2, <3>3 DEF FenceHeld, Claimed
  <2>3. CASE UNCHANGED effects /\ Serve(c, r, "failed")
    BY <1>0, <1>c, <2>0, <2>3 DEF FenceHeld, Claimed
  <2>. QED
    BY <1>7, <2>2, <2>3 DEF ExecuteHeldTool
<1>8. ASSUME NEW c \in Clicks, DecideApproval(c) PROVE FenceHeld'
  <2> DEFINE r == click[c].run
  <2>0. /\ click[c].at \in {"approved", "failed"} /\ r \in 1..MaxRuns /\ UNCHANGED effects /\ Answered(c)
        /\ SetDraft(r, click[c].at) \/ UNCHANGED draft
    BY <1>0, <1>8 DEF DecideApproval
  <2>1. ASSUME NEW d \in Clicks, Claimed(d), d # c PROVE click[d].run # r
    BY <2>0, <2>1 DEF FenceHeld, Claimed
  <2>2. CASE UNCHANGED draft
    BY <1>a, <2>0, <2>2 DEF FenceHeld, Claimed
  <2>3. CASE SetDraft(r, click[c].at)
    <3>1. /\ draft'[r].status \in {"approved", "failed"}
          /\ draft'[r].status = "approved" => effects[r] = 1
          /\ \A q \in 1..MaxRuns : q # r => draft'[q].status = draft[q].status
      BY <1>d, <2>0, <2>3 DEF FenceHeld
    <3>2. /\ click'[c].at = "idle"
          /\ \A d \in Clicks : d # c => click'[d] = click[d]
      BY <1>a, <2>0
    <3>. QED
      BY <1>0, <2>0, <2>1, <3>1, <3>2 DEF FenceHeld, Claimed
  <2>. QED
    BY <2>0, <2>2, <2>3
<1>9. CASE Reboot
  <2>1. UNCHANGED effects /\ \A c \in Clicks : click'[c].at = "idle"
    BY <1>9 DEF Reboot, Idle
  <2>2. \A q \in 1..MaxRuns : \/ draft'[q].status = draft[q].status
                              \/ draft'[q].status = "indeterminate"
    BY <1>0, <1>9 DEF Reboot, RecoverInterruptedClaims, Draft
  <2>. QED
    BY <2>1, <2>2 DEF FenceHeld, Claimed
<1>. QED
  BY <1>u, <1>1, <1>2, <1>3, <1>4, <1>5, <1>6, <1>7, <1>8, <1>9 DEF ApprovalNext, Unheld, ClickStep, approvalVars

-----------------------------------------------------------------------------
(* Reports *)

\* No step judges a run that may still hold a draft, or tells twice.
LEMMA JudgedStep ==
    ASSUME SchedulesInv, [ApprovalNext]_approvalVars
    PROVE  JudgedLast'
<1> USE DEF SchedulesInv
<1>0. /\ RunIds = 1..Len(runs) /\ Len(runs) \in Nat /\ active \subseteq RunIds
      /\ DOMAIN dispatch = RunIds /\ DOMAIN sent = RunIds /\ RunIds \subseteq 1..MaxRuns
      /\ runs \in Seq(RunRow) /\ dispatch \in Seq(Jobs) /\ sent \in Seq(Nat)
      /\ draft \in [1..MaxRuns -> Draft]
  BY ScheduleAssumption DEF SchedulesTypeOK, RunIds
<1>r. ASSUME NEW r \in RunIds PROVE Judged(r) /\ runs[r] \in RunRow /\ dispatch[r] \in Jobs /\ sent[r] \in Nat
  BY <1>0 DEF JudgedLast
\* A run whose rows stay is judged as before if its schedule or its draft moves on.
<1>f. ASSUME NEW r \in RunIds, runs'[r] = runs[r], dispatch'[r] = dispatch[r], sent'[r] = sent[r],
             r \in active' => r \in active,
             schedule'.there => schedule.there,
             draft'[r].status = "pending" => draft[r].status = "pending"
      PROVE  Judged(r)'
  BY <1>f, <1>r DEF Judged
<1>1. ASSUME NEW run \in RunRow, NEW job \in Jobs, Recorded(run, job), Unheld, UNCHANGED active,
             schedule'.there => schedule.there,
             run.status \in {"running", "skipped"}, run.delivery = "not-requested",
             job.at \in {"start", "over"}, job.at = "start" => run.status = "running"
      PROVE  JudgedLast'
  <2> DEFINE n == Len(runs) + 1
  <2>1. RunIds' = 1..n
    BY <1>0, <1>1 DEF Recorded, RunIds
  <2>2. /\ runs'[n] = run /\ dispatch'[n] = job /\ sent'[n] = 0
        /\ \A r \in RunIds : runs'[r] = runs[r] /\ dispatch'[r] = dispatch[r] /\ sent'[r] = sent[r]
    BY <1>0, <1>1 DEF Recorded, SchedulesTypeOK
  <2>3. ASSUME NEW m, m = n PROVE Judged(m)'
    <3>1. m \notin active'
      BY <1>0, <1>1, <2>3
    <3>2. runs'[m] = run /\ dispatch'[m] = job /\ sent'[m] = 0
      BY <2>2, <2>3
    <3> HIDE DEF n
    <3>. QED
      BY <1>1, <3>1, <3>2 DEF Judged
  <2>4. ASSUME NEW r \in RunIds PROVE Judged(r)'
    BY <1>1, <1>f, <2>2 DEF Unheld
  <2>. QED
    <3>1. ASSUME NEW r \in RunIds' PROVE r \in RunIds \/ r = n
      BY <1>0, <2>1, <3>1
    <3> HIDE DEF n
    <3>. QED
      BY <2>3, <2>4, <3>1 DEF JudgedLast
<1>2. CASE RunNow /\ Unheld
  <2>1. /\ NewRun(clock, clock, "running", TRUE) \in RunRow /\ Dispatched(schedule) \in Jobs
        /\ NewRun(clock, clock, "running", TRUE).status = "running"
        /\ NewRun(clock, clock, "running", TRUE).delivery = "not-requested"
        /\ Dispatched(schedule).at = "start"
    BY DEF SchedulesTypeOK, ScheduleRow, NewRun, RunRow, RunStatuses, Dispatched, Job, Jobs
  <2>. QED
    BY <1>1, <1>2, <2>1 DEF RunNow
\* A step of no run, and of one run.
<1>z. ASSUME UNCHANGED <<runs, dispatch, sent, draft, active>>, schedule'.there => schedule.there
      PROVE  JudgedLast'
  BY <1>f, <1>z DEF JudgedLast, RunIds
<1>s. ASSUME RunIds' = RunIds, NEW r \in RunIds, Judged(r)',
             \A q \in RunIds : q # r =>
               /\ runs'[q] = runs[q] /\ dispatch'[q] = dispatch[q] /\ sent'[q] = sent[q]
               /\ draft'[q].status = "pending" => draft[q].status = "pending",
             active' \subseteq active \cup {r},
             UNCHANGED schedule
      PROVE  JudgedLast'
  <2>1. ASSUME NEW q \in RunIds, q # r PROVE Judged(q)'
    BY <1>f, <1>s, <2>1
  <2>. QED
    BY <1>s, <2>1 DEF JudgedLast
<1>3. CASE RecordRunAndAdvance /\ Unheld
  <2>1. CASE ~schedule.there
    <3>1. UNCHANGED <<schedule, runs, dispatch, sent, active, draft>>
      BY <1>3, <2>1 DEF RecordRunAndAdvance, Unheld
    <3>. QED
      BY <1>z, <3>1
  <2>2. CASE schedule.there
    <3> DEFINE run == NewRun(sweep.seen.next, sweep.now, IF sweep.at = "skip" THEN "skipped" ELSE "running", FALSE)
               job == IF sweep.at = "skip" THEN Over ELSE Dispatched(sweep.seen)
    <3>0. sweep.now \in Nat /\ sweep.seen \in ScheduleRow /\ sweep.seen.next \in Nat
      <4>1. sweep.at # "idle"
        BY <1>3 DEF RecordRunAndAdvance
      <4>2. sweep \in [at : {"decide", "skip", "run"}, now : Nat, seen : ScheduleRow]
        BY <4>1 DEF SchedulesTypeOK, Sweep, Idle
      <4>. QED
        BY <4>1, <4>2 DEF CursorKept
    <3>1. /\ run \in RunRow /\ run.status \in {"running", "skipped"} /\ run.delivery = "not-requested"
          /\ run.status = IF sweep.at = "skip" THEN "skipped" ELSE "running"
      BY <3>0 DEF NewRun, RunRow, RunStatuses
    <3>2. /\ Over \in Jobs /\ Over.at = "over"
          /\ Dispatched(sweep.seen) \in Jobs /\ Dispatched(sweep.seen).at = "start"
      BY <3>0 DEF Dispatched, Over, Job, Jobs, ScheduleRow, RunStatuses
    <3>3. Recorded(run, job) /\ UNCHANGED active
      BY <1>3, <2>2 DEF RecordRunAndAdvance
    <3>4. job \in Jobs /\ job.at \in {"start", "over"} /\ (job.at = "start" => sweep.at # "skip")
      BY <3>2
    <3> HIDE DEF run, job
    <3>. QED
      BY <1>1, <1>3, <2>2, <3>1, <3>3, <3>4
  <2>. QED
    BY <2>1, <2>2
<1>4. CASE (UpdateSchedule \/ SetEnabled(TRUE) \/ SetEnabled(FALSE) \/ DeleteSchedule) /\ Unheld
  <2>1. schedule.there /\ UNCHANGED <<runs, dispatch, sent, active, draft>>
    BY <1>4 DEF UpdateSchedule, SetEnabled, DeleteSchedule, Unheld
  <2>. QED
    BY <1>z, <2>1
<1>5. CASE \/ (GetDue \/ Decide \/ ClockTick) /\ Unheld
           \/ UNCHANGED approvalVars
  <2>1. UNCHANGED <<schedule, runs, dispatch, sent, active, draft>>
    BY <1>5 DEF GetDue, Decide, ClockTick, Unheld, approvalVars, scheduleVars
  <2>. QED
    BY <1>z, <2>1
\* The dispatch of a run moves on.
<1>v. ASSUME NEW r \in RunIds, NEW at, NEW st, Verdict(r, at, st)
      PROVE  /\ dispatch'[r].at = at /\ dispatch'[r].deliver = dispatch[r].deliver /\ dispatch'[r].status = st
             /\ \A q \in RunIds : q # r => dispatch'[q] = dispatch[q]
  BY <1>0, <1>v DEF Verdict, Job
<1>w. ASSUME NEW r \in RunIds, dispatch' = [dispatch EXCEPT ![r] = Over]
      PROVE  /\ dispatch'[r].at = "over"
             /\ \A q \in RunIds : q # r => dispatch'[q] = dispatch[q]
  BY <1>0, <1>w DEF Over, Job
<1>n. ASSUME NEW r \in RunIds, NEW x, SetRun(r, x)
      PROVE  /\ RunIds' = RunIds
             /\ schedule.there => runs'[r] = x
             /\ ~schedule.there => runs'[r] = runs[r]
             /\ \A q \in RunIds : q # r => runs'[q] = runs[q]
  BY <1>0, <1>n DEF SetRun, RunIds
<1>6. ASSUME NEW r \in RunIds, StartProfileRun(r), Unheld PROVE JudgedLast'
  <2>0. /\ dispatch[r].at = "start" /\ UNCHANGED <<schedule, runs, sent, draft>> /\ RunIds' = RunIds
        /\ active' \subseteq active \cup {r}
    BY <1>6 DEF StartProfileRun, Unheld, RunIds
  <2>1. CASE Goto(r, "link")
    <3>1. dispatch'[r].at = "link" /\ \A q \in RunIds : q # r => dispatch'[q] = dispatch[q]
      BY <1>v, <2>1 DEF Goto
    <3>2. Judged(r)'
      BY <1>r, <2>0, <3>1 DEF Judged
    <3>. QED
      BY <1>s, <2>0, <3>1, <3>2
  <2>2. CASE Verdict(r, "finish", "failed-to-run") /\ UNCHANGED active
    <3>1. /\ dispatch'[r].at = "finish" /\ dispatch'[r].status = "failed-to-run"
          /\ \A q \in RunIds : q # r => dispatch'[q] = dispatch[q]
      BY <1>v, <2>2
    <3>2. Judged(r)'
      BY <1>r, <2>0, <2>2, <3>1 DEF Judged
    <3>. QED
      BY <1>s, <2>0, <3>1, <3>2
  <2>. QED
    BY <1>6, <2>1, <2>2 DEF StartProfileRun
<1>7. ASSUME NEW r \in RunIds, LinkThread(r), Unheld PROVE JudgedLast'
  <2>0. dispatch[r].at = "link" /\ UNCHANGED <<schedule, sent, draft, active>>
    BY <1>7 DEF LinkThread, Unheld
  <2>1. dispatch'[r].at = "await" /\ \A q \in RunIds : q # r => dispatch'[q] = dispatch[q]
    BY <1>7, <1>v DEF LinkThread, Goto
  <2>2. /\ RunIds' = RunIds /\ \A q \in RunIds : q # r => runs'[q] = runs[q]
        /\ runs'[r].status = runs[r].status /\ runs'[r].delivery = runs[r].delivery
    BY <1>7, <1>n, <1>r DEF LinkThread, RunRow
  <2>3. Judged(r)'
    BY <1>r, <2>0, <2>1, <2>2 DEF Judged
  <2>. QED
    BY <1>s, <2>0, <2>1, <2>2, <2>3
<1>8. ASSUME NEW r \in RunIds, ThreadEnds(r), Unheld PROVE JudgedLast'
  BY <1>8, <1>f DEF ThreadEnds, Unheld, JudgedLast, RunIds
<1>9. ASSUME NEW r \in RunIds, Classify(r, PendingForRun(r)), Unheld PROVE JudgedLast'
  <2>0. /\ dispatch[r].at = "await" /\ r \notin active /\ UNCHANGED <<schedule, runs, sent, draft, active>>
        /\ RunIds' = RunIds
    BY <1>9 DEF Classify, Unheld, RunIds
  <2>1. /\ dispatch'[r].at = "finish" /\ \A q \in RunIds : q # r => dispatch'[q] = dispatch[q]
        /\ dispatch'[r].status # "failed-to-deliver"
        /\ dispatch'[r].status = "succeeded" => ~(PendingForRun(r) > 0)
    BY <1>9, <1>v DEF Classify
  <2>2. schedule.there /\ draft[r].status = "pending" => PendingForRun(r) > 0
    BY DEF PendingForRun
  <2>3. Judged(r)'
    BY <1>r, <2>0, <2>1, <2>2 DEF Judged
  <2>. QED
    BY <1>s, <2>0, <2>1, <2>3
<1>10. ASSUME NEW r \in RunIds, FinishRun(r), Unheld PROVE JudgedLast'
  <2>0. dispatch[r].at = "finish" /\ UNCHANGED <<schedule, sent, draft, active>>
    BY <1>10 DEF FinishRun, Unheld
  <2>1. /\ \A q \in RunIds : q # r => dispatch'[q] = dispatch[q]
        /\ \/ dispatch'[r].at = "over"
           \/ dispatch'[r].at = "deliver" /\ dispatch'[r].status = dispatch[r].status
    BY <1>10, <1>v, <1>w DEF FinishRun, Goto
  <2>2. /\ RunIds' = RunIds /\ \A q \in RunIds : q # r => runs'[q] = runs[q]
        /\ schedule.there => runs'[r].status = dispatch[r].status
        /\ runs'[r].delivery = runs[r].delivery
    BY <1>10, <1>n, <1>r DEF FinishRun, RunRow
  <2>3. Judged(r)'
    BY <1>r, <2>0, <2>1, <2>2 DEF Judged
  <2>. QED
    BY <1>s, <2>0, <2>1, <2>2, <2>3
<1>11. ASSUME NEW r \in RunIds, Deliver(r), Unheld PROVE JudgedLast'
  <2>0. dispatch[r].at = "deliver" /\ UNCHANGED <<schedule, draft, active>>
    BY <1>11 DEF Deliver, Unheld
  <2>1. CASE sent' = [sent EXCEPT ![r] = @ + 1] /\ Goto(r, "delivered") /\ UNCHANGED runs
    <3>1. /\ dispatch'[r].at = "delivered" /\ dispatch'[r].status = dispatch[r].status
          /\ \A q \in RunIds : q # r => dispatch'[q] = dispatch[q]
      BY <1>v, <2>1 DEF Goto
    <3>2. sent[r] = 0
      BY <1>r, <2>0 DEF Judged
    <3>3. sent'[r] = 1 /\ \A q \in RunIds : q # r => sent'[q] = sent[q]
      BY <1>0, <2>1, <3>2
    <3>4. Judged(r)'
      BY <1>r, <2>0, <2>1, <3>1, <3>2, <3>3 DEF Judged
    <3>5. RunIds' = RunIds
      BY <2>1 DEF RunIds
    <3>. QED
      BY <1>s, <2>0, <2>1, <3>1, <3>3, <3>4, <3>5
  <2>2. ASSUME NEW told, SetRun(r, NotDelivered(r, told)), dispatch' = [dispatch EXCEPT ![r] = Over], UNCHANGED sent
        PROVE  JudgedLast'
    <3>1. dispatch'[r].at = "over" /\ \A q \in RunIds : q # r => dispatch'[q] = dispatch[q]
      BY <1>w, <2>2
    <3>2. /\ NotDelivered(r, told).delivery = "not-delivered"
          /\ NotDelivered(r, told).status \in {runs[r].status, "failed-to-deliver"}
          /\ NotDelivered(r, told).status # runs[r].status => dispatch[r].status = "succeeded"
      BY <1>r DEF NotDelivered, RunRow
    <3>3. /\ RunIds' = RunIds /\ \A q \in RunIds : q # r => runs'[q] = runs[q]
          /\ runs'[r].delivery = "delivered" => runs[r].delivery = "delivered"
          /\ runs'[r].status \in {runs[r].status, "failed-to-deliver"}
          /\ runs'[r].status # runs[r].status => dispatch[r].status = "succeeded"
      BY <1>n, <2>2, <3>2
    <3>4. Judged(r)'
      BY <1>r, <2>0, <2>2, <3>1, <3>3 DEF Judged
    <3>. QED
      BY <1>s, <2>0, <2>2, <3>1, <3>3, <3>4
  <2>. QED
    BY <1>11, <2>1, <2>2 DEF Deliver
<1>12. ASSUME NEW r \in RunIds, RecordDelivery(r), Unheld PROVE JudgedLast'
  <2>0. dispatch[r].at = "delivered" /\ UNCHANGED <<schedule, sent, draft, active>>
    BY <1>12 DEF RecordDelivery, Unheld
  <2>1. dispatch'[r].at = "over" /\ \A q \in RunIds : q # r => dispatch'[q] = dispatch[q]
    BY <1>12, <1>w DEF RecordDelivery
  <2>2. /\ RunIds' = RunIds /\ \A q \in RunIds : q # r => runs'[q] = runs[q]
        /\ runs'[r].status # runs[r].status =>
             runs'[r].status = "failed-to-deliver" /\ dispatch[r].status = "succeeded"
    <3>1. CASE SetRun(r, [runs[r] EXCEPT !.delivery = "delivered"])
      BY <1>n, <1>r, <3>1 DEF RunRow
    <3>2. CASE SetRun(r, NotDelivered(r, TRUE))
      <4>1. NotDelivered(r, TRUE).status # runs[r].status =>
              NotDelivered(r, TRUE).status = "failed-to-deliver" /\ dispatch[r].status = "succeeded"
        BY <1>r DEF NotDelivered, RunRow
      <4>. QED
        BY <1>n, <3>2, <4>1
    <3>. QED
      BY <1>12, <3>1, <3>2 DEF RecordDelivery
  <2>3. Judged(r)'
    BY <1>r, <2>0, <2>1, <2>2 DEF Judged
  <2>. QED
    BY <1>s, <2>0, <2>1, <2>2, <2>3
<1>13. ASSUME NEW r \in RunIds, Hold(r) PROVE JudgedLast'
  <2>0. r \in active /\ UNCHANGED <<schedule, runs, dispatch, sent, active>> /\ SetDraft(r, "pending")
    BY <1>13 DEF Hold, scheduleVars
  <2>1. \A q \in RunIds : q # r => draft'[q].status = draft[q].status
    BY <1>0, <2>0 DEF SetDraft, Draft
  <2>2. Judged(r)'
    BY <1>r, <2>0 DEF Judged
  <2>3. RunIds' = RunIds
    BY <2>0 DEF RunIds
  <2>. QED
    BY <1>s, <2>0, <2>1, <2>2, <2>3
\* No other step of the drafts makes one pending.
<1>t. ASSUME UNCHANGED <<schedule, runs, dispatch, sent, active>>,
             \A q \in RunIds : draft'[q].status = "pending" => draft[q].status = "pending"
      PROVE  JudgedLast'
  BY <1>f, <1>t DEF JudgedLast, RunIds
<1>x. ASSUME NEW r \in 1..MaxRuns, NEW x, SetDraft(r, x), x # "pending"
      PROVE  \A q \in RunIds : draft'[q].status = "pending" => draft[q].status = "pending"
  BY <1>0, <1>x DEF SetDraft, Draft
<1>14. ASSUME NEW r \in RunIds, Discard(r) PROVE JudgedLast'
  BY <1>0, <1>14, <1>t, <1>x DEF Discard, scheduleVars
<1>15. ASSUME NEW c \in Clicks, ClickStep(c) PROVE JudgedLast'
  <2>0. click[c].at # "idle" => click[c].run \in 1..MaxRuns
    BY DEF SchedulesTypeOK, Click, Idle
  <2>1. UNCHANGED <<schedule, runs, dispatch, sent, active>>
    BY <1>15 DEF ClickStep, GetApproval, Claim, LookUpSchedule, ExecuteHeldTool, DecideApproval, scheduleVars
  <2>2. UNCHANGED draft \/ \E x : click[c].at # "idle" /\ SetDraft(click[c].run, x) /\ x # "pending"
    BY <1>15 DEF ClickStep, GetApproval, Claim, LookUpSchedule, ExecuteHeldTool, DecideApproval
  <2>. QED
    BY <1>t, <1>x, <2>0, <2>1, <2>2
<1>16. ASSUME NEW r \in RunIds, DeleteThread(r) PROVE JudgedLast'
  <2>0. UNCHANGED <<schedule, dispatch, sent, active>>
    BY <1>16 DEF DeleteThread
  <2>1. /\ RunIds' = RunIds /\ \A q \in RunIds : q # r => runs'[q] = runs[q]
        /\ runs'[r].status = runs[r].status /\ runs'[r].delivery = runs[r].delivery
    BY <1>0, <1>16, <1>r DEF DeleteThread, RunIds, RunRow
  <2>2. \A q \in RunIds : draft'[q].status = draft[q].status
    BY <1>0, <1>16 DEF DeleteThread, Draft
  <2>3. Judged(r)'
    BY <1>r, <2>0, <2>1, <2>2 DEF Judged
  <2>. QED
    BY <1>s, <2>0, <2>1, <2>2, <2>3
<1>17. CASE Reboot
  <2>0. UNCHANGED <<schedule, sent>> /\ active' = {} /\ RunIds' = RunIds
    BY <1>17 DEF Reboot, Restart, RunIds
  <2>1. ASSUME NEW r \in RunIds
        PROVE  /\ dispatch'[r].at = "over" /\ runs'[r].delivery = runs[r].delivery
               /\ runs'[r].status \in {runs[r].status, "failed-to-run"}
    BY <1>17, <1>r DEF Reboot, Restart, Over, Job, RunRow
  <2>2. \A q \in RunIds : draft'[q].status = "pending" => draft[q].status = "pending"
    BY <1>0, <1>17 DEF Reboot, RecoverInterruptedClaims, Draft
  <2>. QED
    BY <1>r, <2>0, <2>1, <2>2 DEF JudgedLast, Judged
<1>. QED
  BY <1>2, <1>3, <1>4, <1>5, <1>6, <1>7, <1>8, <1>9, <1>10, <1>11, <1>12, <1>13, <1>14, <1>15, <1>16, <1>17
  DEF ApprovalNext, ScheduleStep, SweepStep, RunStep, DispatchStep

-----------------------------------------------------------------------------
(* The theorems *)

\* The conjunction holds of every behaviour of the schedule, its runs, its drafts
\* and the gateway's restarts.
THEOREM SchedulesInvariant == SchedulesSpec => []SchedulesInv
<1>1. ASSUME ApprovalInit PROVE SchedulesInv
  <2> USE <1>1 DEF ApprovalInit, ScheduleInit
  <2>0. /\ runs = <<>> /\ dispatch = <<>> /\ sent = <<>> /\ sweep = Idle /\ active = {} /\ clock = 0
        /\ RunIds = {} /\ Len(runs) = 0 /\ Idle.at = "idle"
    BY DEF RunIds, Idle
  <2>1. schedule \in ScheduleRow /\ schedule.last = 0
    <3>1. PICK c \in Cadences, u \in CatchUps, o \in Overlaps, d \in Delivers :
            schedule = [there |-> TRUE, enabled |-> TRUE, state |-> "scheduled",
                        next |-> NextRun(c, 0), last |-> NoRun,
                        cadence |-> c, catchUp |-> u, overlap |-> o, deliver |-> d]
      OBVIOUS
    <3>2. NextRun(c, 0) \in Nat \cup {Never}
      BY NextRunLater
    <3>. QED
      BY <3>1, <3>2 DEF ScheduleRow, NoRun
  <2>2. draft \in [1..MaxRuns -> Draft] /\ effects \in [1..MaxRuns -> Nat] /\ click \in [Clicks -> Click]
    BY DEF NoDraft, Draft, DraftStatuses, Click
  <2>3. SchedulesTypeOK
    BY <2>0, <2>1, <2>2, ScheduleAssumption DEF SchedulesTypeOK, Sweep
  <2>4. CursorKept /\ JudgedLast
    BY <2>0 DEF CursorKept, JudgedLast
  <2>5. FenceHeld
    BY <2>0 DEF FenceHeld, Claimed, NoDraft
  <2>. QED
    BY <2>3, <2>4, <2>5 DEF SchedulesInv
<1>2. ASSUME SchedulesInv, [ApprovalNext]_approvalVars PROVE SchedulesInv'
  BY <1>2, SchedulesTypesStep, CursorStep, FenceStep, JudgedStep DEF SchedulesInv
<1>. QED
  BY <1>1, <1>2, PTL DEF SchedulesSpec

\* Types: the three tables of a schedule's runs stay in step, and last_run_id
\* names a run that was recorded (recordRunAndAdvance's single transaction).
THEOREM SchedulesTypes == SchedulesSpec => []SchedulesTypeOK
BY SchedulesInvariant, PTL DEF SchedulesInv

\* A slot fires at most once and a backlog never, whatever happens between the
\* read of the due schedules and the transaction that fires one.
THEOREM FiringTheorem == SchedulesSpec => []FiresOnceNoBacklog
<1>1. SchedulesInv => FiresOnceNoBacklog
  BY DEF SchedulesInv, CursorKept, FiresOnceNoBacklog
<1>. QED
  BY <1>1, SchedulesInvariant, PTL

\* A held action is executed at most once, and only by the click that claimed it
\* (claim, decide, recoverInterruptedClaims).
THEOREM HeldActionTheorem == SchedulesSpec => []HeldActionOnce
<1>1. ASSUME SchedulesInv PROVE HeldActionOnce
  <2>1. RunIds \subseteq 1..MaxRuns
    BY <1>1, ScheduleAssumption DEF SchedulesInv, SchedulesTypeOK, RunIds
  <2>. QED
    BY <1>1, <2>1 DEF SchedulesInv, FenceHeld, HeldActionOnce
<1>. QED
  BY <1>1, SchedulesInvariant, PTL

\* No run is reported a success while a draft of it waits, and none is reported
\* delivered without its one message (classifyOutcome, maybeDeliver).
THEOREM ReportTheorem == SchedulesSpec => []ReportIsHonest
<1>1. SchedulesInv => ReportIsHonest
  BY DEF SchedulesInv, JudgedLast, Judged, ReportIsHonest
<1>. QED
  BY <1>1, SchedulesInvariant, PTL

============================================================================
