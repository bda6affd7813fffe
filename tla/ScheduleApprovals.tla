------------------------- MODULE ScheduleApprovals -------------------------
(***************************************************************************)
(* Schedules together with what their runs hold for approval: holdTool and *)
(* its sink (draft-hold.ts, handlers/run.ts), SqliteApprovalStore          *)
(* (approvals.ts), the approve and discard routes (handlers/approvals.ts)  *)
(* and the recovery of claims at boot (server.ts).                         *)
(*                                                                         *)
(* A run holds at most one draft, named by the run.  The binding of a      *)
(* draft is reduced to whether its operation hash still matches: the hash  *)
(* covers the thread's id, which the database nulls when the thread is     *)
(* deleted.                                                                *)
(***************************************************************************)
EXTENDS Schedules

CONSTANTS
    SafetyLevel, \* the schedule's safety_level
    Clicks       \* concurrent approve requests

ASSUME SafetyAssumption == SafetyLevel \in {"read-only", "draft-approval", "full-access"}

VARIABLES
    draft,   \* schedule_approvals, by run
    effects, \* how often each held action was really executed
    click    \* each approve request

approvalVars == <<scheduleVars, draft, effects, click>>

NoDraft == [status |-> "none", intact |-> TRUE]

DraftStatuses == {"none", "pending", "executing", "approved", "discarded", "failed",
                  "indeterminate"}

Draft == [status : DraftStatuses, intact : BOOLEAN]

Click == {Idle} \cup [at : {"claim", "lookup", "execute", "approved", "failed"}, run : 1..MaxRuns]

SetDraft(r, status) == draft' = [draft EXCEPT ![r].status = status]

-----------------------------------------------------------------------------
(* Holding *)

\* countPendingForRun
PendingForRun(r) == IF schedule.there /\ draft[r].status = "pending" THEN 1 ELSE 0

\* A write tool of a draft-approval run: the call is parked and not executed.
\* Without its schedule or its thread the row cannot be inserted and the tool
\* reports an error.
Hold(r) ==
    /\ SafetyLevel = "draft-approval"
    /\ r \in active /\ draft[r].status = "none"
    /\ schedule.there /\ (runs[r].linked \/ dispatch[r].at = "link")
    /\ SetDraft(r, "pending")
    /\ UNCHANGED <<scheduleVars, effects, click>>

\* The thread of a run is deleted: thread_id becomes NULL in both tables.
DeleteThread(r) ==
    /\ schedule.there /\ runs[r].linked
    /\ runs' = [runs EXCEPT ![r].linked = FALSE]
    /\ draft' = [draft EXCEPT ![r].intact = @ /\ draft[r].status = "none"]
    /\ UNCHANGED <<clock, schedule, sweep, dispatch, active, sent, crashes, effects, click>>

-----------------------------------------------------------------------------
(* Deciding *)

\* discardApproval
Discard(r) ==
    /\ schedule.there /\ draft[r].status = "pending"
    /\ SetDraft(r, "discarded")
    /\ UNCHANGED <<scheduleVars, effects, click>>

Serve(c, r, at) == click' = [click EXCEPT ![c] = [at |-> at, run |-> r]]
Answered(c) == click' = [click EXCEPT ![c] = Idle]

\* approveApproval reads the row ...
GetApproval(c) ==
    /\ click[c].at = "idle"
    /\ schedule.there
    /\ \E r \in RunIds : draft[r].status = "pending" /\ Serve(c, r, "claim")
    /\ UNCHANGED <<scheduleVars, draft, effects>>

\* ... claim takes the one-shot fence, if the row is still pending and still
\* what was reviewed ...
Claim(c) ==
    /\ click[c].at = "claim"
    /\ LET r == click[c].run IN
       IF ~schedule.there \/ draft[r].status # "pending"
       THEN Answered(c) /\ UNCHANGED draft
       ELSE IF ~draft[r].intact
       THEN Answered(c) /\ SetDraft(r, "indeterminate")
       ELSE Serve(c, r, "lookup") /\ SetDraft(r, "executing")
    /\ UNCHANGED <<scheduleVars, effects>>

\* ... the schedule is read, which may be gone with all its rows ...
LookUpSchedule(c) ==
    /\ click[c].at = "lookup"
    /\ IF schedule.there THEN Serve(c, click[c].run, "execute") ELSE Answered(c)
    /\ UNCHANGED <<scheduleVars, draft, effects>>

\* ... executeHeldTool runs the call, which may fail before or after it had an
\* effect, or refuses because the tool, the policy or the workspace changed ...
ExecuteHeldTool(c) ==
    /\ click[c].at = "execute"
    /\ LET r == click[c].run IN
       \/ effects' = [effects EXCEPT ![r] = @ + 1] /\ Serve(c, r, "approved")
       \/ effects' = [effects EXCEPT ![r] = @ + 1] /\ Serve(c, r, "failed")
       \/ Serve(c, r, "failed") /\ UNCHANGED effects
    /\ UNCHANGED <<scheduleVars, draft>>

\* ... and decide records what became of it, if the row is still executing.
DecideApproval(c) ==
    /\ click[c].at \in {"approved", "failed"}
    /\ IF schedule.there /\ draft[click[c].run].status = "executing"
       THEN SetDraft(click[c].run, click[c].at) ELSE UNCHANGED draft
    /\ Answered(c)
    /\ UNCHANGED <<scheduleVars, effects>>

\* Mutant of RecoverInterruptedClaims: an interrupted claim is offered again.
RequeueInterruptedClaims ==
    draft' = [r \in DOMAIN draft |-> IF draft[r].status = "executing"
                                     THEN [draft[r] EXCEPT !.status = "pending"]
                                     ELSE draft[r]]

\* recoverInterruptedClaims
RecoverInterruptedClaims ==
    draft' = [r \in DOMAIN draft |-> IF draft[r].status = "executing"
                                     THEN [draft[r] EXCEPT !.status = "indeterminate"]
                                     ELSE draft[r]]

Reboot ==
    /\ Restart
    /\ RecoverInterruptedClaims
    /\ click' = [c \in Clicks |-> Idle]
    /\ UNCHANGED effects

-----------------------------------------------------------------------------

ApprovalInit ==
    /\ ScheduleInit
    /\ draft = [r \in 1..MaxRuns |-> NoDraft]
    /\ effects = [r \in 1..MaxRuns |-> 0]
    /\ click = [c \in Clicks |-> Idle]

ClickStep(c) ==
    GetApproval(c) \/ Claim(c) \/ LookUpSchedule(c) \/ ExecuteHeldTool(c) \/ DecideApproval(c)

Unheld == UNCHANGED <<draft, effects, click>>

RunStep(r) == DispatchStep(r) \/ ThreadEnds(r) \/ Classify(r, PendingForRun(r))

ApprovalNext ==
    \/ ScheduleStep /\ Unheld
    \/ \E r \in RunIds : RunStep(r) /\ Unheld
    \/ \E r \in RunIds : Hold(r) \/ DeleteThread(r) \/ Discard(r)
    \/ \E c \in Clicks : ClickStep(c)
    \/ Reboot

SchedulesSpec == ApprovalInit /\ [][ApprovalNext]_approvalVars

\* The sweep is run every minute, a dispatch goes on by itself, and a run's
\* thread ends (RunSettles of RunExecution).
SchedulesFairness ==
    /\ WF_approvalVars(SweepStep /\ Unheld)
    /\ \A r \in 1..MaxRuns :
          WF_approvalVars(r \in RunIds /\ RunStep(r) /\ Unheld)

FairSchedulesSpec == SchedulesSpec /\ SchedulesFairness

-----------------------------------------------------------------------------
(* Properties *)

\* Type correctness; a run's dispatch and its count of messages are kept for
\* every recorded run.
SchedulesTypeOK ==
    /\ clock \in 0..MaxClock
    /\ schedule \in ScheduleRow /\ schedule.last <= Len(runs)
    /\ runs \in Seq(RunRow) /\ dispatch \in Seq(Jobs) /\ sent \in Seq(Nat)
    /\ Len(runs) <= MaxRuns /\ Len(dispatch) = Len(runs) /\ Len(sent) = Len(runs)
    /\ sweep \in Sweep
    /\ active \subseteq RunIds
    /\ draft \in [1..MaxRuns -> Draft]
    /\ effects \in [1..MaxRuns -> Nat]
    /\ click \in [Clicks -> Click]

\* A slot fires at most once, and a backlog never: whatever was paused, edited,
\* deleted or crashed between the read of the due schedules and the
\* transaction that fires one, each slot fired lies after the moment at which
\* the slot before it was, and so does the cursor.
FiresOnceNoBacklog ==
    schedule.there =>
        \A i \in RunIds : ~runs[i].manual =>
            /\ schedule.next # Never => schedule.next > runs[i].now
            /\ \A j \in RunIds : (i < j /\ ~runs[j].manual) => runs[j].slot > runs[i].now

\* A held action is executed at most once, only after it was claimed, and
\* never when it was discarded, with several approvals and a discard racing
\* and the gateway dying after the claim; one reported approved was executed.
HeldActionOnce ==
    \A r \in RunIds :
        /\ effects[r] <= 1
        /\ draft[r].status \in {"none", "pending", "discarded"} => effects[r] = 0
        /\ draft[r].status = "approved" => effects[r] = 1

\* A run is not reported a success while a draft of it waits for the user, and
\* it is reported delivered only when its one message went out.
ReportIsHonest ==
    schedule.there =>
        \A r \in RunIds :
            /\ runs[r].status \in {"succeeded", "failed-to-deliver"} => draft[r].status # "pending"
            /\ runs[r].delivery = "delivered" => sent[r] = 1
            /\ sent[r] <= 1

\* Every run that was recorded as running ends: its row becomes terminal
\* although the gateway dies while it is dispatched.
RunEnds ==
    \A r \in 1..MaxRuns :
        (r \in RunIds /\ runs[r].status = "running" /\ schedule.there)
            ~> (~schedule.there \/ r \notin RunIds \/ runs[r].status # "running")

\* A due schedule is dealt with: the cursor gets ahead of the clock again,
\* unless the schedule is paused or deleted, or the bound on runs is reached.
DueIsHandled ==
    LET due == schedule.there /\ schedule.enabled /\ schedule.next # Never /\ schedule.next <= clock
    IN due ~> (~due \/ Len(runs) = MaxRuns)

============================================================================
