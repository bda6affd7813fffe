---------------------------- MODULE ChannelJobs ----------------------------
(***************************************************************************)
(* Channel procedures: the durable jobs that connect a messaging channel   *)
(* step by step, pausing at consent gates.  ChannelJobStore keeps the rows *)
(* (gateway/channel-job-store.ts; every method is one transaction), the    *)
(* gateway's one ChannelJobWorker runs them (channel-job-worker.ts), and   *)
(* the tool connect_channel starts a job, watches it and presents its      *)
(* gates to a person (channel-connect-tool.ts).                            *)
(*                                                                         *)
(* The jobs here are those of one profile and one operation, so at most    *)
(* one is live.  Time is reduced to whether a lease has lapsed; a retry    *)
(* may be due at any moment.  The state a step carries forward, its work   *)
(* lines and the wording of cards and receipts are left out.               *)
(***************************************************************************)
EXTENDS Integers

CONSTANTS
    Jobs,           \* job ids
    NoJob,          \* no job
    Steps,          \* number of steps of the procedure
    Gates,          \* those of its steps 1..Steps that are consent gates
    MaxAttempts,    \* CHANNEL_JOB_MAX_ATTEMPTS
    Fronts,         \* concurrent calls of connect_channel
    MaxBoot,        \* boots of the gateway
    StorageMayFail  \* whether a call of the worker may throw

ASSUME ChannelAssumption ==
    /\ NoJob \notin Jobs
    /\ Steps \in Nat \ {0}
    /\ Gates \subseteq 1..Steps
    /\ MaxAttempts \in Nat
    /\ MaxBoot \in Nat
    /\ StorageMayFail \in BOOLEAN

VARIABLES
    row,      \* channel_jobs
    receipts, \* channel_receipts, as <<job, gate, decision>>
    minted,   \* claim tokens handed out so far
    outdated, \* jobs enqueued for another shape of the procedure than this build's
    worker,   \* the worker's place and the claim it holds
    front,    \* the same for each call of connect_channel
    up,       \* the gateway runs
    boots,    \* how often it was started
    work,     \* what has been done of each step
    answers   \* what a person really answered, as <<job, gate, decision>>

storeVars == <<row, receipts, minted>>
procVars == <<up, boots, outdated>>
channelVars == <<storeVars, worker, front, procVars, work, answers>>

-----------------------------------------------------------------------------
(* Vocabulary.  Step 0 stands for no gate, token 0 for no claim. *)

Pending == {"queued", "running", "waiting_for_input", "waiting_for_retry"}
Ended == {"succeeded", "failed", "cancelled"}
LiveJob(j) == row[j].state \in Pending \cup {"cancel_requested"}

Decision == {"approve", "deny"}

NewRow == [state |-> "queued", attempt |-> 0, checkpoint |-> 0, gate |-> 0, response |-> 0,
           claim |-> 0, lapsed |-> FALSE]
NoRow == [NewRow EXCEPT !.state = "absent"]
IdleWorker == [at |-> "idle", job |-> NoJob, claim |-> 0, checkpoint |-> 0, response |-> 0]
IdleFront == [at |-> "idle", job |-> NoJob, gate |-> 0, decision |-> "deny"]

RowType ==
    [state : {"absent", "cancel_requested"} \cup Pending \cup Ended,
     attempt : 0..MaxAttempts, checkpoint : 0..Steps, gate : {0} \cup Gates,
     response : {0} \cup Gates, claim : Nat, lapsed : BOOLEAN]

WorkerType ==
    [at : {"idle", "renew", "consume", "park", "step", "advance", "defer", "fail", "succeed", "confirm"},
     job : Jobs \cup {NoJob}, claim : Nat, checkpoint : 0..Steps, response : {0} \cup Gates]

FrontType ==
    [at : {"idle", "enqueue", "watch", "prompt", "respond"},
     job : Jobs \cup {NoJob}, gate : {0} \cup Gates, decision : Decision]

ChannelTypeOK ==
    /\ row \in [Jobs -> RowType]
    /\ receipts \subseteq Jobs \X Gates \X Decision
    /\ minted \in Nat
    /\ outdated \subseteq Jobs
    /\ worker \in WorkerType
    /\ front \in [Fronts -> FrontType]
    /\ up \in BOOLEAN /\ boots \in Nat
    /\ work \in [Jobs \X (1..Steps) -> {"none", "begun", "finished"}]
    /\ answers \subseteq Jobs \X Gates \X Decision

ChannelInit ==
    /\ row = [j \in Jobs |-> NoRow]
    /\ receipts = {} /\ minted = 0 /\ outdated = {}
    /\ worker = IdleWorker
    /\ front = [f \in Fronts |-> IdleFront]
    /\ up = TRUE /\ boots = 1
    /\ work = [s \in Jobs \X (1..Steps) |-> "none"]
    /\ answers = {}

-----------------------------------------------------------------------------
(* ChannelJobStore: what each method does to a row *)

SetRow(j, new) == row' = [row EXCEPT ![j] = new]

\* The check that opens every method of a claim's holder.
Held(j, token) == row[j].state = "running" /\ row[j].claim = token /\ ~row[j].lapsed

Unclaimed(r, state) == [r EXCEPT !.state = state, !.claim = 0, !.lapsed = FALSE]

Enqueue(j) ==
    /\ \A i \in Jobs : ~LiveJob(i)
    /\ row[j].state = "absent"
    /\ SetRow(j, NewRow)
    /\ UNCHANGED <<receipts, minted>>

ClaimNext(j) ==
    /\ row[j].state \in {"queued", "waiting_for_retry"}
    /\ minted' = minted + 1
    /\ SetRow(j, [row[j] EXCEPT !.state = "running", !.claim = minted', !.lapsed = FALSE])
    /\ UNCHANGED receipts

AdvanceCheckpoint(j, token, cp) ==
    /\ Held(j, token) /\ row[j].checkpoint = cp
    /\ SetRow(j, [row[j] EXCEPT !.checkpoint = cp + 1, !.response = 0])
    /\ UNCHANGED <<receipts, minted>>

ConsumeGateResponse(j, token, cp, g) ==
    /\ Held(j, token) /\ row[j].checkpoint = cp /\ row[j].response = g
    /\ SetRow(j, [row[j] EXCEPT !.checkpoint = cp + 1, !.response = 0])
    /\ UNCHANGED <<receipts, minted>>

ParkForGate(j, token, g) ==
    /\ Held(j, token)
    /\ SetRow(j, [Unclaimed(row[j], "waiting_for_input") EXCEPT !.gate = g, !.response = 0])
    /\ UNCHANGED <<receipts, minted>>

\* Mutant of RespondToGate: the answer is not compared with the parked gate.
RespondToAnyGate(j, g, d) ==
    /\ row[j].state = "waiting_for_input"
    /\ receipts' = receipts \cup {<<j, g, d>>}
    /\ SetRow(j, IF d = "approve"
                 THEN [row[j] EXCEPT !.state = "queued", !.gate = 0, !.response = row[j].gate]
                 ELSE [row[j] EXCEPT !.state = "cancelled", !.gate = 0, !.response = 0])
    /\ UNCHANGED minted

\* Approve requeues the job with the decision attached, deny ends it; either
\* way the decision has its receipt.
RespondToGate(j, g, d) ==
    /\ row[j].state = "waiting_for_input" /\ row[j].gate = g
    /\ receipts' = receipts \cup {<<j, g, d>>}
    /\ SetRow(j, IF d = "approve"
                 THEN [row[j] EXCEPT !.state = "queued", !.gate = 0, !.response = g]
                 ELSE [row[j] EXCEPT !.state = "cancelled", !.gate = 0, !.response = 0])
    /\ UNCHANGED minted

\* Mutant of DeferUntil: the attempts are not compared with the budget.
DeferForever(j, token) ==
    /\ Held(j, token)
    /\ SetRow(j, [Unclaimed(row[j], "waiting_for_retry") EXCEPT !.attempt = @ + 1])
    /\ UNCHANGED <<receipts, minted>>

DeferUntil(j, token) ==
    /\ Held(j, token) /\ row[j].attempt < MaxAttempts
    /\ SetRow(j, [Unclaimed(row[j], "waiting_for_retry") EXCEPT !.attempt = @ + 1])
    /\ UNCHANGED <<receipts, minted>>

Finish(j, token, outcome) ==
    /\ Held(j, token)
    /\ outcome = "succeeded" => row[j].checkpoint = Steps
    /\ SetRow(j, [Unclaimed(row[j], outcome) EXCEPT !.response = 0])
    /\ UNCHANGED <<receipts, minted>>

\* Mutant of RequestCancel: the gate card stays on the row.
CancelKeepsCard(j) ==
    /\ row[j].state \in Pending
    /\ SetRow(j, [row[j] EXCEPT !.state = "cancel_requested", !.response = 0])
    /\ UNCHANGED <<receipts, minted>>

\* Mutant of RequestCancel: the job is cancelled under its worker's feet.
CancelAtOnce(j) ==
    /\ row[j].state \in Pending
    /\ SetRow(j, [row[j] EXCEPT !.state = "cancelled", !.gate = 0, !.response = 0, !.claim = 0])
    /\ UNCHANGED <<receipts, minted>>

\* The claim of a running job stays with its holder.
RequestCancel(j) ==
    /\ row[j].state \in Pending
    /\ SetRow(j, [row[j] EXCEPT !.state = "cancel_requested", !.gate = 0, !.response = 0])
    /\ UNCHANGED <<receipts, minted>>

\* Mutant of ConfirmCancelled: only the holder of a claim can confirm.
ConfirmHeldOnly(j, token) ==
    /\ token # 0
    /\ row[j].state = "cancel_requested" /\ row[j].claim = token /\ ~row[j].lapsed
    /\ SetRow(j, Unclaimed(row[j], "cancelled"))
    /\ UNCHANGED <<receipts, minted>>

\* token 0: a cancellation that no worker holds.
ConfirmCancelled(j, token) ==
    /\ row[j].state = "cancel_requested" /\ row[j].claim = token /\ ~row[j].lapsed
    /\ SetRow(j, Unclaimed(row[j], "cancelled"))
    /\ UNCHANGED <<receipts, minted>>

\* Mutant of Recovered: the job is run again from its first step.
RecoveredAfresh(r) ==
    CASE r.state = "cancel_requested" /\ (r.claim = 0 \/ r.lapsed) -> Unclaimed(r, "cancelled")
      [] r.state = "running" /\ r.lapsed -> [Unclaimed(r, "queued") EXCEPT !.checkpoint = 0]
      [] OTHER -> r

\* Mutant of Recovered: the interrupted step counts as done.
RecoveredPastStep(r) ==
    CASE r.state = "running" /\ r.lapsed ->
           [Unclaimed(r, "queued") EXCEPT !.checkpoint = IF @ < Steps THEN @ + 1 ELSE @]
      [] OTHER -> r

\* recoverExpiredClaims on one row.
Recovered(r) ==
    CASE r.state = "cancel_requested" /\ (r.claim = 0 \/ r.lapsed) -> Unclaimed(r, "cancelled")
      [] r.state = "running" /\ r.lapsed /\ r.attempt < MaxAttempts ->
           [Unclaimed(r, "queued") EXCEPT !.attempt = @ + 1]
      [] r.state = "running" /\ r.lapsed /\ r.attempt >= MaxAttempts -> Unclaimed(r, "failed")
      [] OTHER -> r

RecoverExpiredClaims ==
    /\ row' = [j \in Jobs |-> Recovered(row[j])]
    /\ UNCHANGED <<receipts, minted>>

-----------------------------------------------------------------------------
(* ChannelJobWorker *)

WorkerGo(from, to) == up /\ worker.at = from /\ worker' = [worker EXCEPT !.at = to]

\* Where execute continues with checkpoint cp.
Continue(cp) == IF cp = Steps THEN "succeed" ELSE "renew"

ConfirmUnclaimed(j) ==
    /\ WorkerGo("idle", "idle")
    /\ ConfirmCancelled(j, 0)
    /\ UNCHANGED <<front, procVars, work, answers>>

\* A job of another shape is failed rather than run from its old checkpoints.
ClaimJob(j) ==
    /\ up /\ worker.at = "idle"
    /\ ClaimNext(j)
    /\ worker' = [at |-> IF j \in outdated THEN "fail" ELSE Continue(row[j].checkpoint),
                  job |-> j, claim |-> minted', checkpoint |-> row[j].checkpoint,
                  response |-> row[j].response]
    /\ UNCHANGED <<front, procVars, work, answers>>

\* renewLease succeeds; at a gate the worker looks for the decision it claimed
\* the job with, any other step begins.
RenewLease ==
    LET j == worker.job
        s == worker.checkpoint + 1
    IN  /\ worker.at = "renew" /\ Held(j, worker.claim)
        /\ WorkerGo("renew", IF s \notin Gates THEN "step"
                             ELSE IF worker.response = s THEN "consume" ELSE "park")
        /\ work' = IF s \in Gates \/ work[<<j, s>>] = "finished" THEN work
                   ELSE [work EXCEPT ![<<j, s>>] = "begun"]
        /\ UNCHANGED <<storeVars, front, procVars, answers>>

PassGate ==
    /\ up /\ worker.at = "consume"
    /\ ConsumeGateResponse(worker.job, worker.claim, worker.checkpoint, worker.checkpoint + 1)
    /\ worker' = [worker EXCEPT !.at = Continue(worker.checkpoint + 1), !.checkpoint = @ + 1]
    /\ UNCHANGED <<front, procVars, work, answers>>

ParkJob ==
    /\ up /\ worker.at = "park"
    /\ ParkForGate(worker.job, worker.claim, worker.checkpoint + 1)
    /\ worker' = IdleWorker
    /\ UNCHANGED <<front, procVars, work, answers>>

\* step.run returns, throws a transient (or unknown) error or a permanent one.
StepEnds(to) ==
    /\ to \in {"advance", "defer", "fail"}
    /\ WorkerGo("step", to)
    /\ work' = IF to = "advance" THEN [work EXCEPT ![<<worker.job, worker.checkpoint + 1>>] = "finished"]
               ELSE work
    /\ UNCHANGED <<storeVars, front, procVars, answers>>

CheckpointStep ==
    /\ up /\ worker.at = "advance"
    /\ AdvanceCheckpoint(worker.job, worker.claim, worker.checkpoint)
    /\ worker' = [worker EXCEPT !.at = Continue(worker.checkpoint + 1), !.checkpoint = @ + 1]
    /\ UNCHANGED <<front, procVars, work, answers>>

\* The last attempt fails the job instead.
DeferJob ==
    /\ up /\ worker.at = "defer"
    /\ \/ DeferUntil(worker.job, worker.claim) /\ worker' = IdleWorker
       \/ /\ Held(worker.job, worker.claim) /\ row[worker.job].attempt >= MaxAttempts
          /\ UNCHANGED storeVars
          /\ WorkerGo("defer", "fail")
    /\ UNCHANGED <<front, procVars, work, answers>>

FinishJob ==
    /\ up
    /\ \/ worker.at = "fail" /\ Finish(worker.job, worker.claim, "failed")
       \/ worker.at = "succeed" /\ Finish(worker.job, worker.claim, "succeeded")
    /\ worker' = IdleWorker
    /\ UNCHANGED <<front, procVars, work, answers>>

\* What the store's method checks at the place the worker has come to.
Accepts ==
    /\ Held(worker.job, worker.claim)
    /\ worker.at \in {"consume", "advance"} => row[worker.job].checkpoint = worker.checkpoint
    /\ worker.at = "consume" => row[worker.job].response = worker.checkpoint + 1
    /\ worker.at = "succeed" => row[worker.job].checkpoint = Steps

\* The method answers stale_claim, lease_expired or a conflict.
LoseClaim ==
    /\ worker.at \in {"renew", "consume", "park", "advance", "defer", "fail", "succeed"}
    /\ ~Accepts
    /\ WorkerGo(worker.at, "confirm")
    /\ UNCHANGED <<storeVars, front, procVars, work, answers>>

\* The job was cancelled, or else it is left to whoever holds it now.
ConfirmClaimed ==
    /\ up /\ worker.at = "confirm"
    /\ \/ ConfirmCancelled(worker.job, worker.claim)
       \/ /\ ~(row[worker.job].state = "cancel_requested" /\ row[worker.job].claim = worker.claim
               /\ ~row[worker.job].lapsed)
          /\ UNCHANGED storeVars
    /\ worker' = IdleWorker
    /\ UNCHANGED <<front, procVars, work, answers>>

\* The poll loop swallows what a call throws; the claim stays on the row.
WorkerThrows ==
    /\ StorageMayFail
    /\ up /\ worker.at \notin {"idle", "step"}
    /\ worker' = IdleWorker
    /\ UNCHANGED <<storeVars, front, procVars, work, answers>>

-----------------------------------------------------------------------------
(* connect_channel *)

FrontGo(f, from, new) == up /\ front[f].at = from /\ front' = [front EXCEPT ![f] = new]

\* A live job is resumed; otherwise one is enqueued.
Attach(f) ==
    /\ \/ \E j \in Jobs : LiveJob(j) /\ FrontGo(f, "idle", [IdleFront EXCEPT !.at = "watch", !.job = j])
       \/ (\A j \in Jobs : ~LiveJob(j)) /\ FrontGo(f, "idle", [IdleFront EXCEPT !.at = "enqueue"])
    /\ UNCHANGED <<storeVars, worker, procVars, work, answers>>

\* Another call may have enqueued a job meanwhile: that one is watched.
StartJob(f, j) ==
    /\ FrontGo(f, "enqueue", [IdleFront EXCEPT !.at = "watch", !.job = j])
    /\ Enqueue(j) \/ (LiveJob(j) /\ UNCHANGED storeVars)
    /\ UNCHANGED <<worker, procVars, work, answers>>

\* The poll finds the job ended, or the chat was aborted while it runs.
StopWatching(f) ==
    /\ FrontGo(f, "watch", IdleFront)
    /\ row[front[f].job].state # "waiting_for_input"
    /\ UNCHANGED <<storeVars, worker, procVars, work, answers>>

PresentGate(f) ==
    /\ front[f].at = "watch" /\ row[front[f].job].state = "waiting_for_input"
    /\ FrontGo(f, "watch", [front[f] EXCEPT !.at = "prompt", !.gate = row[front[f].job].gate])
    /\ UNCHANGED <<storeVars, worker, procVars, work, answers>>

PersonAnswers(f, d) ==
    /\ FrontGo(f, "prompt", [front[f] EXCEPT !.at = "respond", !.decision = d])
    /\ answers' = answers \cup {<<front[f].job, front[f].gate, d>>}
    /\ UNCHANGED <<storeVars, worker, procVars, work>>

\* The prompt's time-out resolves it to false, and the chat is not aborted.
PromptTimesOut(f) ==
    /\ FrontGo(f, "prompt", [front[f] EXCEPT !.at = "respond", !.decision = "deny"])
    /\ UNCHANGED <<storeVars, worker, procVars, work, answers>>

\* The gate stays parked.
ChatAborted(f) ==
    /\ FrontGo(f, "prompt", IdleFront)
    /\ UNCHANGED <<storeVars, worker, procVars, work, answers>>

\* The answer is for the gate that was presented; the row may have moved on.
Respond(f) ==
    /\ front[f].at = "respond"
    /\ \/ RespondToGate(front[f].job, front[f].gate, front[f].decision)
       \/ /\ ~(row[front[f].job].state = "waiting_for_input" /\ row[front[f].job].gate = front[f].gate)
          /\ UNCHANGED storeVars
    /\ FrontGo(f, "respond", [IdleFront EXCEPT !.at = "watch", !.job = front[f].job])
    /\ UNCHANGED <<worker, procVars, work, answers>>

-----------------------------------------------------------------------------
(* Everything else *)

CancelJob(j) ==
    /\ up
    /\ RequestCancel(j)
    /\ UNCHANGED <<worker, front, procVars, work, answers>>

LeaseLapses(j) ==
    /\ row[j].claim # 0 /\ ~row[j].lapsed
    /\ SetRow(j, [row[j] EXCEPT !.lapsed = TRUE])
    /\ UNCHANGED <<receipts, minted, worker, front, procVars, work, answers>>

Crash ==
    /\ up /\ boots < MaxBoot
    /\ up' = FALSE
    /\ worker' = IdleWorker
    /\ front' = [f \in Fronts |-> IdleFront]
    /\ UNCHANGED <<storeVars, boots, outdated, work, answers>>

\* The new process may be a build whose procedure has another shape.
Boot ==
    /\ ~up
    /\ up' = TRUE
    /\ boots' = boots + 1
    /\ RecoverExpiredClaims
    /\ outdated' \in {outdated, {j \in Jobs : row[j].state # "absent"}}
    /\ UNCHANGED <<worker, front, work, answers>>

WorkerNext ==
    \/ \E j \in Jobs : ConfirmUnclaimed(j) \/ ClaimJob(j)
    \/ RenewLease \/ PassGate \/ ParkJob \/ (\E to \in {"advance", "defer", "fail"} : StepEnds(to))
    \/ CheckpointStep \/ DeferJob \/ FinishJob \/ LoseClaim \/ ConfirmClaimed

FrontNext(f) ==
    \/ Attach(f) \/ (\E j \in Jobs : StartJob(f, j)) \/ StopWatching(f) \/ PresentGate(f)
    \/ (\E d \in Decision : PersonAnswers(f, d)) \/ PromptTimesOut(f) \/ ChatAborted(f) \/ Respond(f)

ChannelNext ==
    \/ WorkerNext \/ WorkerThrows
    \/ \E f \in Fronts : FrontNext(f)
    \/ \E j \in Jobs : CancelJob(j) \/ LeaseLapses(j)
    \/ Crash \/ Boot

ChannelSpec == ChannelInit /\ [][ChannelNext]_channelVars

\* The worker polls, its steps end, and a gateway that is down is started again.
FairChannelSpec == ChannelSpec /\ WF_channelVars(WorkerNext) /\ WF_channelVars(Boot)

-----------------------------------------------------------------------------
(* Properties *)

\* The consent contract: no step behind a gate begins before a person has really
\* approved that gate of that job, whatever crashes, retries, cancellations and
\* competing chats come between the answer and the step.
ConsentBeforeWork ==
    \A j \in Jobs, s \in 1..Steps, g \in Gates :
        (work[<<j, s>>] # "none" /\ g < s) => <<j, g, "approve">> \in answers

\* A gate is decided once: two chats that present the same card never leave both
\* an approval and a refusal in the permanent receipts.
OneDecisionPerGate ==
    \A j \in Jobs, g \in Gates :
        ~(<<j, g, "approve">> \in receipts /\ <<j, g, "deny">> \in receipts)

\* The columns of a row agree: a gate card exactly while the job waits for input,
\* a claim only while a worker may hold the job, and a recorded approval only for
\* the gate the job stands at.
RowIsCoherent ==
    \A j \in Jobs :
        /\ (row[j].gate # 0) <=> (row[j].state = "waiting_for_input")
        /\ row[j].gate # 0 => row[j].gate = row[j].checkpoint + 1
        /\ row[j].claim # 0 => row[j].state \in {"running", "cancel_requested"}
        /\ row[j].state = "running" => row[j].claim # 0
        /\ row[j].response # 0 =>
             /\ row[j].response = row[j].checkpoint + 1
             /\ row[j].state \in {"queued", "running", "failed"}
             /\ <<j, row[j].response, "approve">> \in receipts

\* A job that succeeded has finished every work step and has the receipt of an
\* approval for every gate.
SuccessIsComplete ==
    \A j \in Jobs : row[j].state = "succeeded" =>
        \A s \in 1..Steps : IF s \in Gates THEN <<j, s, "approve">> \in receipts
                                           ELSE work[<<j, s>>] = "finished"

\* "Nothing further was changed": no step of an ended job is being run.
EndedMeansIdle ==
    \A j \in Jobs : row[j].state \in Ended => ~(worker.at = "step" /\ worker.job = j)

\* How a row may change from r to new.
Forward(r, new) ==
    /\ r.state \in Ended => new = r
    /\ r.state = "cancel_requested" => new.state \in {"cancel_requested", "cancelled"}
    /\ new.checkpoint \in {r.checkpoint, r.checkpoint + 1}
    /\ new.attempt \in {r.attempt, r.attempt + 1}
    /\ new.attempt # r.attempt => r.state = "running"

RowForward == \A j \in Jobs : Forward(row[j], row'[j])

\* An ended job stays as it is, a cancellation is never undone, checkpoints are
\* neither repeated nor skipped, and only a failed execution costs an attempt.
JobsMoveForward == [][RowForward]_channelVars

\* A claim that nobody works under.
Orphaned(j) == row[j].claim # 0 /\ worker.claim # row[j].claim

\* A job ends or waits for a person, unless its claim is orphaned.
JobProgresses ==
    \A j \in Jobs : (LiveJob(j) /\ row[j].state # "waiting_for_input")
        ~> (row[j].state \in Ended \cup {"waiting_for_input"} \/ Orphaned(j))

-----------------------------------------------------------------------------
(* What the documentation says and the code does not do *)

\* channel-connect-tool.ts: a time-out never equals a decision; a refusal is
\* recorded only for an explicit "no".
DeclineIsADecision == \A r \in receipts : r[3] = "deny" => r \in answers
=============================================================================
