------------------------ MODULE ChannelJobs_proofs ------------------------
(***************************************************************************)
(* The consent contract of channel procedures for any number of jobs and   *)
(* chats, any procedure and any number of crashes.                         *)
(***************************************************************************)
EXTENDS ChannelJobs, TLAPS

\* What holds of the row r of a job: its columns agree, what lies before its
\* checkpoint is approved or finished, a refusal has ended it, and an approval
\* is on the row until the gate is passed or the job is on its way out.
Coherent(j, r) ==
    /\ (r.gate # 0) <=> (r.state = "waiting_for_input")
    /\ r.gate # 0 => r.gate = r.checkpoint + 1
    /\ r.claim # 0 => r.state \in {"running", "cancel_requested"}
    /\ r.state = "running" => r.claim # 0
    /\ r.response # 0 =>
         /\ r.response = r.checkpoint + 1
         /\ r.state \in {"queued", "running", "failed"}
         /\ <<j, r.response, "approve">> \in receipts

PrefixDone(j, r) ==
    /\ \A s \in 1..Steps : s <= r.checkpoint =>
         IF s \in Gates THEN <<j, s, "approve">> \in receipts ELSE work[<<j, s>>] = "finished"
    /\ r.state = "succeeded" => r.checkpoint = Steps
    /\ r.state = "absent" => r.checkpoint = 0 /\ r.attempt = 0

Decided(j, r) ==
    \A g \in Gates :
        /\ <<j, g, "deny">> \in receipts => r.state \in Ended /\ <<j, g, "approve">> \notin receipts
        /\ <<j, g, "approve">> \in receipts =>
             g <= r.checkpoint \/ g = r.response \/ r.state \in {"cancel_requested"} \cup Ended

RowOK(j, r) == Coherent(j, r) /\ PrefixDone(j, r) /\ Decided(j, r)

RowsOK == \A j \in Jobs : RowOK(j, row[j])

\* The worker is at work only under the claim of the row in its hand, whose
\* checkpoint it knows; at each place it knows what kind of step comes next.
WorkerOwns ==
    /\ worker.at # "idle" =>
         /\ up
         /\ worker.job \in Jobs
         /\ worker.claim # 0
         /\ row[worker.job].claim = worker.claim
         /\ row[worker.job].checkpoint = worker.checkpoint
         /\ row[worker.job].response \in {0, worker.response}
    /\ worker.at \in {"renew", "consume", "park", "step", "advance"} => worker.checkpoint < Steps
    /\ worker.at \in {"consume", "park"} => worker.checkpoint + 1 \in Gates
    /\ worker.at = "park" => worker.response # worker.checkpoint + 1
    /\ worker.at \in {"step", "advance", "defer"} => worker.checkpoint + 1 \notin Gates
    /\ worker.at = "advance" => work[<<worker.job, worker.checkpoint + 1>>] = "finished"

\* A chat that watches has a job, one that prompts has a gate, and one that
\* carries an approval got it from a person.
FrontOK(c, given) ==
    /\ c.at \in {"watch", "prompt", "respond"} => c.job \in Jobs
    /\ c.at \in {"prompt", "respond"} => c.gate \in Gates
    /\ (c.at = "respond" /\ c.decision = "approve") => <<c.job, c.gate, "approve">> \in given

FrontOwns == \A f \in Fronts : FrontOK(front[f], answers)

\* Every receipt of an approval stems from a person's answer.
ApprovalsAnswered ==
    \A j \in Jobs, g \in Gates :
        <<j, g, "approve">> \in receipts => <<j, g, "approve">> \in answers

ChannelInv ==
    /\ ChannelTypeOK
    /\ RowsOK
    /\ WorkerOwns
    /\ FrontOwns
    /\ ApprovalsAnswered
    /\ ConsentBeforeWork

-----------------------------------------------------------------------------
(* What every method of the store leaves of the other rows *)

\* SetRow changes the row of one job.
LEMMA OneRowChanges ==
    ASSUME row \in [Jobs -> RowType], NEW j \in Jobs, NEW new \in RowType, SetRow(j, new)
    PROVE  /\ row' \in [Jobs -> RowType]
           /\ row'[j] = new
           /\ \A i \in Jobs \ {j} : row'[i] = row[i]
BY DEF SetRow

\* If the store writes a good row and neither the receipts nor the work change,
\* all rows stay good, and what is known of the approvals stays true.
LEMMA OneRowKeeps ==
    ASSUME ChannelInv, NEW j \in Jobs, NEW new \in RowType, SetRow(j, new),
           RowOK(j, new), UNCHANGED <<receipts, work, answers>>
    PROVE  /\ row' \in [Jobs -> RowType]
           /\ row'[j] = new
           /\ \A i \in Jobs \ {j} : row'[i] = row[i]
           /\ RowsOK' /\ ApprovalsAnswered' /\ ConsentBeforeWork'
<1>1. /\ row' \in [Jobs -> RowType]
      /\ row'[j] = new
      /\ \A i \in Jobs \ {j} : row'[i] = row[i]
  BY OneRowChanges DEF ChannelInv, ChannelTypeOK
<1>2. \A i \in Jobs : RowOK(i, row'[i])
  BY <1>1 DEF ChannelInv, RowsOK
<1>3. RowsOK'
  BY <1>2 DEF RowsOK, RowOK, Coherent, PrefixDone, Decided
<1>. QED
  BY <1>1, <1>3 DEF ChannelInv, ApprovalsAnswered, ConsentBeforeWork

\* The same for a step that moves the worker too.
LEMMA RowWritten ==
    ASSUME ChannelInv, NEW j \in Jobs, NEW new \in RowType, SetRow(j, new),
           RowOK(j, new), Forward(row[j], new), minted' \in Nat,
           UNCHANGED <<receipts, work, answers, front, procVars>>,
           worker' \in WorkerType, WorkerOwns'
    PROVE  ChannelInv' /\ RowForward
<1>1. /\ row' \in [Jobs -> RowType]
      /\ row'[j] = new
      /\ \A i \in Jobs \ {j} : row'[i] = row[i]
      /\ RowsOK' /\ ApprovalsAnswered' /\ ConsentBeforeWork'
  BY OneRowKeeps
<1>2. ChannelTypeOK'
  BY <1>1 DEF ChannelInv, ChannelTypeOK, procVars
<1>3. FrontOwns'
  BY DEF ChannelInv, FrontOwns
<1>4. RowForward
  BY <1>1 DEF RowForward, Forward, RowType, ChannelInv, ChannelTypeOK
<1>. QED
  BY <1>1, <1>2, <1>3, <1>4 DEF ChannelInv

-----------------------------------------------------------------------------
(* The steps of the worker and of the store's other callers *)

\* The poll confirms a cancellation that nobody holds.
LEMMA ConfirmUnclaimedKeeps ==
    ASSUME ChannelInv, NEW j \in Jobs, ConfirmUnclaimed(j)
    PROVE  ChannelInv' /\ RowForward
<1> DEFINE new == Unclaimed(row[j], "cancelled")
<1>1. j \in Jobs /\ row[j] \in RowType /\ RowOK(j, row[j])
  BY DEF ChannelInv, ChannelTypeOK, RowsOK
<1>2. /\ SetRow(j, new)
      /\ row[j].state = "cancel_requested" /\ row[j].claim = 0
      /\ minted' \in Nat /\ UNCHANGED <<receipts, work, answers, front, procVars>>
  BY <1>1, ChannelAssumption DEF ConfirmUnclaimed, ConfirmCancelled, storeVars, ChannelInv,
     ChannelTypeOK, RowType, WorkerOwns, RowOK, Coherent
<1>3. worker.at = "idle" /\ worker' = worker
  BY <1>1 DEF ConfirmUnclaimed, WorkerGo, procVars, ChannelInv, ChannelTypeOK, WorkerType
<1>4. /\ new.state = "cancelled" /\ new.attempt = row[j].attempt /\ new.checkpoint = row[j].checkpoint
      /\ new.gate = row[j].gate /\ new.response = row[j].response
      /\ new.claim = 0 /\ new.lapsed = FALSE
  BY <1>1 DEF RowType, Unclaimed
<1>5. new \in RowType
  BY <1>1, <1>2, ChannelAssumption DEF RowType, Unclaimed, Pending, Ended, ChannelInv, WorkerOwns
<1> HIDE DEF new
<1>6. RowOK(j, new)
  <2>1. Coherent(j, new)
    BY <1>1, <1>2, <1>4, ChannelAssumption DEF RowOK, Coherent, RowType, Held, Pending, Ended
  <2>2. PrefixDone(j, new)
    BY <1>1, <1>2, <1>4, ChannelAssumption DEF RowOK, PrefixDone, RowType, Held, Pending
  <2>3. Decided(j, new)
    BY <1>1, <1>2, <1>4, ChannelAssumption DEF RowOK, Decided, RowType, Held, Pending, Ended
  <2>. QED
    BY <2>1, <2>2, <2>3 DEF RowOK
<1>7. Forward(row[j], new)
  BY <1>1, <1>2, <1>4 DEF Forward, RowOK, Coherent, RowType, Held, Pending, Ended
<1>8. row'[j] = new /\ \A i \in Jobs \ {j} : row'[i] = row[i]
  BY <1>1, <1>2, <1>5, OneRowChanges DEF ChannelInv, ChannelTypeOK
<1>9. worker' \in WorkerType
  BY <1>1, <1>2, <1>3, ChannelAssumption DEF RowType, ChannelInv, ChannelTypeOK, WorkerType,
     WorkerOwns, Continue, IdleWorker
<1>10. WorkerOwns'
  BY <1>1, <1>2, <1>3, <1>4, <1>8, ChannelAssumption DEF RowOK, Coherent, RowType, Held, Continue,
     IdleWorker, procVars, ChannelInv, ChannelTypeOK, WorkerType, WorkerOwns
<1>. QED
  BY <1>1, <1>2, <1>5, <1>6, <1>7, <1>9, <1>10, RowWritten

\* The worker claims a job under a new token.
LEMMA ClaimJobKeeps ==
    ASSUME ChannelInv, NEW j \in Jobs, ClaimJob(j)
    PROVE  ChannelInv' /\ RowForward
<1> DEFINE new == [row[j] EXCEPT !.state = "running", !.claim = minted', !.lapsed = FALSE]
<1>1. j \in Jobs /\ row[j] \in RowType /\ RowOK(j, row[j])
  BY DEF ChannelInv, ChannelTypeOK, RowsOK
<1>2. /\ SetRow(j, new)
      /\ row[j].state \in {"queued", "waiting_for_retry"} /\ minted' = minted + 1 /\ minted' \in Nat \ {0}
      /\ minted' \in Nat /\ UNCHANGED <<receipts, work, answers, front, procVars>>
  BY <1>1, ChannelAssumption DEF ClaimJob, ClaimNext, storeVars, ChannelInv, ChannelTypeOK,
     RowType, WorkerOwns, RowOK, Coherent
<1>3. /\ up /\ up' = up
      /\ worker' = [at |-> IF j \in outdated THEN "fail" ELSE Continue(row[j].checkpoint),
                    job |-> j, claim |-> minted', checkpoint |-> row[j].checkpoint,
                    response |-> row[j].response]
  BY <1>1 DEF ClaimJob, procVars, ChannelInv, ChannelTypeOK, WorkerType
<1>4. /\ new.state = "running" /\ new.attempt = row[j].attempt /\ new.checkpoint = row[j].checkpoint
      /\ new.gate = row[j].gate /\ new.response = row[j].response
      /\ new.claim = minted' /\ new.lapsed = FALSE
  BY <1>1 DEF RowType
<1>5. new \in RowType
  BY <1>1, <1>2, ChannelAssumption DEF RowType, Unclaimed, Pending, Ended, ChannelInv, WorkerOwns
<1> HIDE DEF new
<1>6. RowOK(j, new)
  <2>1. Coherent(j, new)
    BY <1>1, <1>2, <1>4, ChannelAssumption DEF RowOK, Coherent, RowType, Held, Pending, Ended
  <2>2. PrefixDone(j, new)
    BY <1>1, <1>2, <1>4, ChannelAssumption DEF RowOK, PrefixDone, RowType, Held, Pending
  <2>3. Decided(j, new)
    BY <1>1, <1>2, <1>4, ChannelAssumption DEF RowOK, Decided, RowType, Held, Pending, Ended
  <2>. QED
    BY <2>1, <2>2, <2>3 DEF RowOK
<1>7. Forward(row[j], new)
  BY <1>1, <1>2, <1>4 DEF Forward, RowOK, Coherent, RowType, Held, Pending, Ended
<1>8. row'[j] = new /\ \A i \in Jobs \ {j} : row'[i] = row[i]
  BY <1>1, <1>2, <1>5, OneRowChanges DEF ChannelInv, ChannelTypeOK
<1>9. worker' \in WorkerType
  BY <1>1, <1>2, <1>3, ChannelAssumption DEF RowType, ChannelInv, ChannelTypeOK, WorkerType,
     WorkerOwns, Continue, IdleWorker
<1>10. WorkerOwns'
  <2>1. /\ worker'.job = j /\ worker'.claim = minted' /\ worker'.checkpoint = row[j].checkpoint
        /\ worker'.response = row[j].response
        /\ worker'.at \in {"fail", "renew", "succeed"}
        /\ worker'.at = "renew" => row[j].checkpoint # Steps
    BY <1>3 DEF Continue
  <2>2. row[j].checkpoint \in 0..Steps
    BY <1>1 DEF RowType
  <2>. QED
    BY <1>1, <1>2, <1>3, <1>4, <1>8, <2>1, <2>2, ChannelAssumption DEF WorkerOwns, procVars
<1>. QED
  BY <1>1, <1>2, <1>5, <1>6, <1>7, <1>9, <1>10, RowWritten

\* An approval is consumed.
LEMMA PassGateKeeps ==
    ASSUME ChannelInv, PassGate
    PROVE  ChannelInv' /\ RowForward
<1> DEFINE j == worker.job
           new == [row[j] EXCEPT !.checkpoint = worker.checkpoint + 1, !.response = 0]
<1>1. j \in Jobs /\ row[j] \in RowType /\ RowOK(j, row[j])
  BY DEF ChannelInv, ChannelTypeOK, RowsOK, WorkerOwns, PassGate
<1>2. /\ SetRow(j, new)
      /\ worker.at = "consume" /\ Held(j, worker.claim)
      /\ row[j].checkpoint = worker.checkpoint /\ row[j].response = worker.checkpoint + 1
      /\ worker.checkpoint + 1 \in 0..Steps
      /\ minted' \in Nat /\ UNCHANGED <<receipts, work, answers, front, procVars>>
  BY <1>1, ChannelAssumption DEF PassGate, ConsumeGateResponse, Held, storeVars, ChannelInv,
     ChannelTypeOK, RowType, WorkerOwns, RowOK, Coherent
<1>3. /\ up /\ up' = up
      /\ worker' = [at |-> Continue(worker.checkpoint + 1), job |-> worker.job,
                    claim |-> worker.claim, checkpoint |-> worker.checkpoint + 1,
                    response |-> worker.response]
  BY <1>1 DEF PassGate, procVars, ChannelInv, ChannelTypeOK, WorkerType
<1>4. /\ new.state = row[j].state /\ new.attempt = row[j].attempt /\ new.checkpoint = worker.checkpoint + 1
      /\ new.gate = row[j].gate /\ new.response = 0
      /\ new.claim = row[j].claim /\ new.lapsed = row[j].lapsed
  BY <1>1 DEF RowType
<1>5. new \in RowType
  BY <1>1, <1>2, ChannelAssumption DEF RowType, Unclaimed, Pending, Ended, ChannelInv, WorkerOwns
<1> HIDE DEF new
<1>6. RowOK(j, new)
  <2>1. Coherent(j, new)
    BY <1>1, <1>2, <1>4, ChannelAssumption DEF RowOK, Coherent, RowType, Held, Pending, Ended,
       ChannelInv, WorkerOwns
  <2>2. PrefixDone(j, new)
    BY <1>1, <1>2, <1>4, ChannelAssumption DEF RowOK, PrefixDone, RowType, Held, Pending,
       ChannelInv, WorkerOwns, Coherent
  <2>3. Decided(j, new)
    BY <1>1, <1>2, <1>4, ChannelAssumption DEF RowOK, Decided, RowType, Held, Pending, Ended,
       ChannelInv, WorkerOwns, Coherent
  <2>. QED
    BY <2>1, <2>2, <2>3 DEF RowOK
<1>7. Forward(row[j], new)
  BY <1>1, <1>2, <1>4 DEF Forward, RowOK, Coherent, RowType, Held, Pending, Ended
<1>8. row'[j] = new /\ \A i \in Jobs \ {j} : row'[i] = row[i]
  BY <1>1, <1>2, <1>5, OneRowChanges DEF ChannelInv, ChannelTypeOK
<1>9. worker' \in WorkerType
  BY <1>1, <1>2, <1>3, ChannelAssumption DEF RowType, ChannelInv, ChannelTypeOK, WorkerType,
     WorkerOwns, Continue, IdleWorker
<1>10. WorkerOwns'
  BY <1>1, <1>2, <1>3, <1>4, <1>8, ChannelAssumption DEF RowOK, Coherent, RowType, Held, Continue,
     IdleWorker, procVars, ChannelInv, ChannelTypeOK, WorkerType, WorkerOwns
<1>. QED
  BY <1>1, <1>2, <1>5, <1>6, <1>7, <1>9, <1>10, RowWritten

\* A job is parked at its gate.
LEMMA ParkJobKeeps ==
    ASSUME ChannelInv, ParkJob
    PROVE  ChannelInv' /\ RowForward
<1> DEFINE j == worker.job
           new == [Unclaimed(row[j], "waiting_for_input") EXCEPT !.gate = worker.checkpoint + 1,
                                                    !.response = 0]
<1>1. j \in Jobs /\ row[j] \in RowType /\ RowOK(j, row[j])
  BY DEF ChannelInv, ChannelTypeOK, RowsOK, WorkerOwns, ParkJob
<1>2. /\ SetRow(j, new)
      /\ worker.at = "park" /\ Held(j, worker.claim) /\ row[j].response = 0
      /\ minted' \in Nat /\ UNCHANGED <<receipts, work, answers, front, procVars>>
  BY <1>1, ChannelAssumption DEF ParkJob, ParkForGate, Held, storeVars, ChannelInv, ChannelTypeOK,
     RowType, WorkerOwns, RowOK, Coherent
<1>3. worker' = IdleWorker
  BY <1>1 DEF ParkJob, procVars, ChannelInv, ChannelTypeOK, WorkerType
<1>4. /\ new.state = "waiting_for_input" /\ new.attempt = row[j].attempt /\ new.checkpoint = row[j].checkpoint
      /\ new.gate = worker.checkpoint + 1 /\ new.response = 0
      /\ new.claim = 0 /\ new.lapsed = FALSE
  BY <1>1 DEF RowType, Unclaimed
<1>5. new \in RowType
  BY <1>1, <1>2, ChannelAssumption DEF RowType, Unclaimed, Pending, Ended, ChannelInv, WorkerOwns
<1> HIDE DEF new
<1>6. RowOK(j, new)
  <2>1. Coherent(j, new)
    BY <1>1, <1>2, <1>4, ChannelAssumption DEF RowOK, Coherent, RowType, Held, Pending, Ended,
       ChannelInv, WorkerOwns
  <2>2. PrefixDone(j, new)
    BY <1>1, <1>2, <1>4, ChannelAssumption DEF RowOK, PrefixDone, RowType, Held, Pending,
       ChannelInv, WorkerOwns
  <2>3. Decided(j, new)
    BY <1>1, <1>2, <1>4, ChannelAssumption DEF RowOK, Decided, RowType, Held, Pending, Ended,
       ChannelInv, WorkerOwns
  <2>. QED
    BY <2>1, <2>2, <2>3 DEF RowOK
<1>7. Forward(row[j], new)
  BY <1>1, <1>2, <1>4 DEF Forward, RowOK, Coherent, RowType, Held, Pending, Ended
<1>8. row'[j] = new /\ \A i \in Jobs \ {j} : row'[i] = row[i]
  BY <1>1, <1>2, <1>5, OneRowChanges DEF ChannelInv, ChannelTypeOK
<1>9. worker' \in WorkerType
  BY <1>1, <1>2, <1>3, ChannelAssumption DEF RowType, ChannelInv, ChannelTypeOK, WorkerType,
     WorkerOwns, Continue, IdleWorker
<1>10. WorkerOwns'
  BY <1>1, <1>2, <1>3, <1>4, <1>8, ChannelAssumption DEF RowOK, Coherent, RowType, Held, Continue,
     IdleWorker, procVars, ChannelInv, ChannelTypeOK, WorkerType, WorkerOwns
<1>. QED
  BY <1>1, <1>2, <1>5, <1>6, <1>7, <1>9, <1>10, RowWritten

\* A finished step is checkpointed.
LEMMA CheckpointStepKeeps ==
    ASSUME ChannelInv, CheckpointStep
    PROVE  ChannelInv' /\ RowForward
<1> DEFINE j == worker.job
           new == [row[j] EXCEPT !.checkpoint = worker.checkpoint + 1, !.response = 0]
<1>1. j \in Jobs /\ row[j] \in RowType /\ RowOK(j, row[j])
  BY DEF ChannelInv, ChannelTypeOK, RowsOK, WorkerOwns, CheckpointStep
<1>2. /\ SetRow(j, new)
      /\ worker.at = "advance" /\ Held(j, worker.claim) /\ row[j].checkpoint = worker.checkpoint
      /\ worker.checkpoint + 1 \in 0..Steps
      /\ minted' \in Nat /\ UNCHANGED <<receipts, work, answers, front, procVars>>
  BY <1>1, ChannelAssumption DEF CheckpointStep, AdvanceCheckpoint, Held, storeVars, ChannelInv,
     ChannelTypeOK, RowType, WorkerOwns, RowOK, Coherent
<1>3. /\ up /\ up' = up
      /\ worker' = [at |-> Continue(worker.checkpoint + 1), job |-> worker.job,
                    claim |-> worker.claim, checkpoint |-> worker.checkpoint + 1,
                    response |-> worker.response]
  BY <1>1 DEF CheckpointStep, procVars, ChannelInv, ChannelTypeOK, WorkerType
<1>4. /\ new.state = row[j].state /\ new.attempt = row[j].attempt /\ new.checkpoint = worker.checkpoint + 1
      /\ new.gate = row[j].gate /\ new.response = 0
      /\ new.claim = row[j].claim /\ new.lapsed = row[j].lapsed
  BY <1>1 DEF RowType
<1>5. new \in RowType
  BY <1>1, <1>2, ChannelAssumption DEF RowType, Unclaimed, Pending, Ended, ChannelInv, WorkerOwns
<1> HIDE DEF new
<1>6. RowOK(j, new)
  <2>1. Coherent(j, new)
    BY <1>1, <1>2, <1>4, ChannelAssumption DEF RowOK, Coherent, RowType, Held, Pending, Ended,
       ChannelInv, WorkerOwns
  <2>2. PrefixDone(j, new)
    BY <1>1, <1>2, <1>4, ChannelAssumption DEF RowOK, PrefixDone, RowType, Held, Pending,
       ChannelInv, WorkerOwns
  <2>3. Decided(j, new)
    BY <1>1, <1>2, <1>4, ChannelAssumption DEF RowOK, Decided, RowType, Held, Pending, Ended,
       ChannelInv, WorkerOwns, Coherent
  <2>. QED
    BY <2>1, <2>2, <2>3 DEF RowOK
<1>7. Forward(row[j], new)
  BY <1>1, <1>2, <1>4 DEF Forward, RowOK, Coherent, RowType, Held, Pending, Ended
<1>8. row'[j] = new /\ \A i \in Jobs \ {j} : row'[i] = row[i]
  BY <1>1, <1>2, <1>5, OneRowChanges DEF ChannelInv, ChannelTypeOK
<1>9. worker' \in WorkerType
  BY <1>1, <1>2, <1>3, ChannelAssumption DEF RowType, ChannelInv, ChannelTypeOK, WorkerType,
     WorkerOwns, Continue, IdleWorker
<1>10. WorkerOwns'
  BY <1>1, <1>2, <1>3, <1>4, <1>8, ChannelAssumption DEF RowOK, Coherent, RowType, Held, Continue,
     IdleWorker, procVars, ChannelInv, ChannelTypeOK, WorkerType, WorkerOwns
<1>. QED
  BY <1>1, <1>2, <1>5, <1>6, <1>7, <1>9, <1>10, RowWritten

\* A cancellation is requested.
LEMMA CancelJobKeeps ==
    ASSUME ChannelInv, NEW j \in Jobs, CancelJob(j)
    PROVE  ChannelInv' /\ RowForward
<1> DEFINE new == [row[j] EXCEPT !.state = "cancel_requested", !.gate = 0, !.response = 0]
<1>1. j \in Jobs /\ row[j] \in RowType /\ RowOK(j, row[j])
  BY DEF ChannelInv, ChannelTypeOK, RowsOK
<1>2. /\ SetRow(j, new)
      /\ row[j].state \in Pending
      /\ minted' \in Nat /\ UNCHANGED <<receipts, work, answers, front, procVars>>
  BY <1>1, ChannelAssumption DEF CancelJob, RequestCancel, storeVars, ChannelInv, ChannelTypeOK,
     RowType, WorkerOwns, RowOK, Coherent
<1>3. UNCHANGED <<worker, up>>
  BY <1>1 DEF CancelJob, procVars, ChannelInv, ChannelTypeOK, WorkerType
<1>4. /\ new.state = "cancel_requested" /\ new.attempt = row[j].attempt /\ new.checkpoint = row[j].checkpoint
      /\ new.gate = 0 /\ new.response = 0
      /\ new.claim = row[j].claim /\ new.lapsed = row[j].lapsed
  BY <1>1 DEF RowType
<1>5. new \in RowType
  BY <1>1, <1>2, ChannelAssumption DEF RowType, Unclaimed, Pending, Ended, ChannelInv, WorkerOwns
<1> HIDE DEF new
<1>6. RowOK(j, new)
  <2>1. Coherent(j, new)
    BY <1>1, <1>2, <1>4, ChannelAssumption DEF RowOK, Coherent, RowType, Held, Pending, Ended
  <2>2. PrefixDone(j, new)
    BY <1>1, <1>2, <1>4, ChannelAssumption DEF RowOK, PrefixDone, RowType, Held, Pending
  <2>3. Decided(j, new)
    BY <1>1, <1>2, <1>4, ChannelAssumption DEF RowOK, Decided, RowType, Held, Pending, Ended
  <2>. QED
    BY <2>1, <2>2, <2>3 DEF RowOK
<1>7. Forward(row[j], new)
  BY <1>1, <1>2, <1>4 DEF Forward, RowOK, Coherent, RowType, Held, Pending, Ended
<1>8. row'[j] = new /\ \A i \in Jobs \ {j} : row'[i] = row[i]
  BY <1>1, <1>2, <1>5, OneRowChanges DEF ChannelInv, ChannelTypeOK
<1>9. worker' \in WorkerType
  BY <1>1, <1>2, <1>3, ChannelAssumption DEF RowType, ChannelInv, ChannelTypeOK, WorkerType,
     WorkerOwns, Continue, IdleWorker
<1>10. WorkerOwns'
  BY <1>1, <1>2, <1>3, <1>4, <1>8, ChannelAssumption DEF RowOK, Coherent, RowType, Held, Continue,
     IdleWorker, procVars, ChannelInv, ChannelTypeOK, WorkerType, WorkerOwns
<1>. QED
  BY <1>1, <1>2, <1>5, <1>6, <1>7, <1>9, <1>10, RowWritten

\* A lease lapses.
LEMMA LeaseLapsesKeeps ==
    ASSUME ChannelInv, NEW j \in Jobs, LeaseLapses(j)
    PROVE  ChannelInv' /\ RowForward
<1> DEFINE new == [row[j] EXCEPT !.lapsed = TRUE]
<1>1. j \in Jobs /\ row[j] \in RowType /\ RowOK(j, row[j])
  BY DEF ChannelInv, ChannelTypeOK, RowsOK
<1>2. /\ SetRow(j, new)
      /\ row[j].claim # 0
      /\ minted' \in Nat /\ UNCHANGED <<receipts, work, answers, front, procVars>>
  BY <1>1, ChannelAssumption DEF LeaseLapses, storeVars, ChannelInv, ChannelTypeOK, RowType,
     WorkerOwns, RowOK, Coherent
<1>3. UNCHANGED <<worker, up>>
  BY <1>1 DEF LeaseLapses, procVars, ChannelInv, ChannelTypeOK, WorkerType
<1>4. /\ new.state = row[j].state /\ new.attempt = row[j].attempt /\ new.checkpoint = row[j].checkpoint
      /\ new.gate = row[j].gate /\ new.response = row[j].response
      /\ new.claim = row[j].claim /\ new.lapsed = TRUE
  BY <1>1 DEF RowType
<1>5. new \in RowType
  BY <1>1, <1>2, ChannelAssumption DEF RowType, Unclaimed, Pending, Ended, ChannelInv, WorkerOwns
<1> HIDE DEF new
<1>6. RowOK(j, new)
  <2>1. Coherent(j, new)
    BY <1>1, <1>2, <1>4, ChannelAssumption DEF RowOK, Coherent, RowType, Held, Pending, Ended
  <2>2. PrefixDone(j, new)
    BY <1>1, <1>2, <1>4, ChannelAssumption DEF RowOK, PrefixDone, RowType, Held, Pending
  <2>3. Decided(j, new)
    BY <1>1, <1>2, <1>4, ChannelAssumption DEF RowOK, Decided, RowType, Held, Pending, Ended
  <2>. QED
    BY <2>1, <2>2, <2>3 DEF RowOK
<1>7. Forward(row[j], new)
  BY <1>1, <1>2, <1>4 DEF Forward, RowOK, Coherent, RowType, Held, Pending, Ended
<1>8. row'[j] = new /\ \A i \in Jobs \ {j} : row'[i] = row[i]
  BY <1>1, <1>2, <1>5, OneRowChanges DEF ChannelInv, ChannelTypeOK
<1>9. worker' \in WorkerType
  BY <1>1, <1>2, <1>3, ChannelAssumption DEF RowType, ChannelInv, ChannelTypeOK, WorkerType,
     WorkerOwns, Continue, IdleWorker
<1>10. WorkerOwns'
  BY <1>1, <1>2, <1>3, <1>4, <1>8, ChannelAssumption DEF RowOK, Coherent, RowType, Held, Continue,
     IdleWorker, procVars, ChannelInv, ChannelTypeOK, WorkerType, WorkerOwns
<1>. QED
  BY <1>1, <1>2, <1>5, <1>6, <1>7, <1>9, <1>10, RowWritten

\* A failed attempt waits for its retry.
LEMMA DeferUntilKeeps ==
    ASSUME ChannelInv, DeferUntil(worker.job, worker.claim), worker.at = "defer", worker' = IdleWorker,
           UNCHANGED <<front, procVars, work, answers>>
    PROVE  ChannelInv' /\ RowForward
<1> DEFINE j == worker.job
           new == [Unclaimed(row[j], "waiting_for_retry") EXCEPT !.attempt = @ + 1]
<1>1. j \in Jobs /\ row[j] \in RowType /\ RowOK(j, row[j])
  BY DEF ChannelInv, ChannelTypeOK, RowsOK, WorkerOwns, DeferUntil
<1>2. /\ SetRow(j, new)
      /\ Held(j, worker.claim) /\ row[j].attempt + 1 \in 0..MaxAttempts
      /\ minted' \in Nat /\ UNCHANGED <<receipts, work, answers, front, procVars>>
  BY <1>1, ChannelAssumption DEF DeferUntil, Held, storeVars, ChannelInv, ChannelTypeOK, RowType,
     WorkerOwns, RowOK, Coherent
<1>3. worker' = IdleWorker
  BY <1>1 DEF DeferUntil, procVars, ChannelInv, ChannelTypeOK, WorkerType
<1>4. /\ new.state = "waiting_for_retry" /\ new.attempt = row[j].attempt + 1 /\ new.checkpoint = row[j].checkpoint
      /\ new.gate = row[j].gate /\ new.response = row[j].response
      /\ new.claim = 0 /\ new.lapsed = FALSE
  BY <1>1 DEF RowType, Unclaimed
<1>5. new \in RowType
  BY <1>1, <1>2, ChannelAssumption DEF RowType, Unclaimed, Pending, Ended, ChannelInv, WorkerOwns
<1> HIDE DEF new
<1>6. RowOK(j, new)
  <2>1. Coherent(j, new)
    BY <1>1, <1>2, <1>4, ChannelAssumption DEF RowOK, Coherent, RowType, Held, Pending, Ended,
       ChannelInv, WorkerOwns
  <2>2. PrefixDone(j, new)
    BY <1>1, <1>2, <1>4, ChannelAssumption DEF RowOK, PrefixDone, RowType, Held, Pending,
       ChannelInv, WorkerOwns
  <2>3. Decided(j, new)
    BY <1>1, <1>2, <1>4, ChannelAssumption DEF RowOK, Decided, RowType, Held, Pending, Ended,
       ChannelInv, WorkerOwns
  <2>. QED
    BY <2>1, <2>2, <2>3 DEF RowOK
<1>7. Forward(row[j], new)
  BY <1>1, <1>2, <1>4 DEF Forward, RowOK, Coherent, RowType, Held, Pending, Ended
<1>8. row'[j] = new /\ \A i \in Jobs \ {j} : row'[i] = row[i]
  BY <1>1, <1>2, <1>5, OneRowChanges DEF ChannelInv, ChannelTypeOK
<1>9. worker' \in WorkerType
  BY <1>1, <1>2, <1>3, ChannelAssumption DEF RowType, ChannelInv, ChannelTypeOK, WorkerType,
     WorkerOwns, Continue, IdleWorker
<1>10. WorkerOwns'
  BY <1>1, <1>2, <1>3, <1>4, <1>8, ChannelAssumption DEF RowOK, Coherent, RowType, Held, Continue,
     IdleWorker, procVars, ChannelInv, ChannelTypeOK, WorkerType, WorkerOwns
<1>. QED
  BY <1>1, <1>2, <1>5, <1>6, <1>7, <1>9, <1>10, RowWritten

\* A claimed job ends.
LEMMA FinishKeeps ==
    ASSUME ChannelInv, NEW outcome \in {"failed", "succeeded"}, 
           Finish(worker.job, worker.claim, outcome), worker.at \in {"fail", "succeed"},
           worker' = IdleWorker, UNCHANGED <<front, procVars, work, answers>>
    PROVE  ChannelInv' /\ RowForward
<1> DEFINE j == worker.job
           new == [Unclaimed(row[j], outcome) EXCEPT !.response = 0]
<1>1. j \in Jobs /\ row[j] \in RowType /\ RowOK(j, row[j])
  BY DEF ChannelInv, ChannelTypeOK, RowsOK, WorkerOwns, Finish
<1>2. /\ SetRow(j, new)
      /\ Held(j, worker.claim) /\ (outcome = "succeeded" => row[j].checkpoint = Steps)
      /\ minted' \in Nat /\ UNCHANGED <<receipts, work, answers, front, procVars>>
  BY <1>1, ChannelAssumption DEF Finish, Held, storeVars, ChannelInv, ChannelTypeOK, RowType,
     WorkerOwns, RowOK, Coherent
<1>3. worker' = IdleWorker
  BY <1>1 DEF Finish, procVars, ChannelInv, ChannelTypeOK, WorkerType
<1>4. /\ new.state = outcome /\ new.attempt = row[j].attempt /\ new.checkpoint = row[j].checkpoint
      /\ new.gate = row[j].gate /\ new.response = 0
      /\ new.claim = 0 /\ new.lapsed = FALSE
  BY <1>1 DEF RowType, Unclaimed
<1>5. new \in RowType
  BY <1>1, <1>2, ChannelAssumption DEF RowType, Unclaimed, Pending, Ended, ChannelInv, WorkerOwns
<1> HIDE DEF new
<1>6. RowOK(j, new)
  <2>1. Coherent(j, new)
    BY <1>1, <1>2, <1>4, ChannelAssumption DEF RowOK, Coherent, RowType, Held, Pending, Ended,
       ChannelInv, WorkerOwns
  <2>2. PrefixDone(j, new)
    BY <1>1, <1>2, <1>4, ChannelAssumption DEF RowOK, PrefixDone, RowType, Held, Pending,
       ChannelInv, WorkerOwns
  <2>3. Decided(j, new)
    BY <1>1, <1>2, <1>4, ChannelAssumption DEF RowOK, Decided, RowType, Held, Pending, Ended,
       ChannelInv, WorkerOwns, Coherent
  <2>. QED
    BY <2>1, <2>2, <2>3 DEF RowOK
<1>7. Forward(row[j], new)
  BY <1>1, <1>2, <1>4 DEF Forward, RowOK, Coherent, RowType, Held, Pending, Ended
<1>8. row'[j] = new /\ \A i \in Jobs \ {j} : row'[i] = row[i]
  BY <1>1, <1>2, <1>5, OneRowChanges DEF ChannelInv, ChannelTypeOK
<1>9. worker' \in WorkerType
  BY <1>1, <1>2, <1>3, ChannelAssumption DEF RowType, ChannelInv, ChannelTypeOK, WorkerType,
     WorkerOwns, Continue, IdleWorker
<1>10. WorkerOwns'
  BY <1>1, <1>2, <1>3, <1>4, <1>8, ChannelAssumption DEF RowOK, Coherent, RowType, Held, Continue,
     IdleWorker, procVars, ChannelInv, ChannelTypeOK, WorkerType, WorkerOwns
<1>. QED
  BY <1>1, <1>2, <1>5, <1>6, <1>7, <1>9, <1>10, RowWritten

\* The worker confirms the cancellation of the job it holds.
LEMMA ConfirmHeldKeeps ==
    ASSUME ChannelInv, ConfirmCancelled(worker.job, worker.claim), worker.at = "confirm",
           worker' = IdleWorker, UNCHANGED <<front, procVars, work, answers>>
    PROVE  ChannelInv' /\ RowForward
<1> DEFINE j == worker.job
           new == Unclaimed(row[j], "cancelled")
<1>1. j \in Jobs /\ row[j] \in RowType /\ RowOK(j, row[j])
  BY DEF ChannelInv, ChannelTypeOK, RowsOK, WorkerOwns, ConfirmCancelled
<1>2. /\ SetRow(j, new)
      /\ row[j].state = "cancel_requested"
      /\ minted' \in Nat /\ UNCHANGED <<receipts, work, answers, front, procVars>>
  BY <1>1, ChannelAssumption DEF ConfirmCancelled, storeVars, ChannelInv, ChannelTypeOK, RowType,
     WorkerOwns, RowOK, Coherent
<1>3. worker' = IdleWorker
  BY <1>1 DEF ConfirmCancelled, procVars, ChannelInv, ChannelTypeOK, WorkerType
<1>4. /\ new.state = "cancelled" /\ new.attempt = row[j].attempt /\ new.checkpoint = row[j].checkpoint
      /\ new.gate = row[j].gate /\ new.response = row[j].response
      /\ new.claim = 0 /\ new.lapsed = FALSE
  BY <1>1 DEF RowType, Unclaimed
<1>5. new \in RowType
  BY <1>1, <1>2, ChannelAssumption DEF RowType, Unclaimed, Pending, Ended, ChannelInv, WorkerOwns
<1> HIDE DEF new
<1>6. RowOK(j, new)
  <2>1. Coherent(j, new)
    BY <1>1, <1>2, <1>4, ChannelAssumption DEF RowOK, Coherent, RowType, Held, Pending, Ended,
       ChannelInv, WorkerOwns
  <2>2. PrefixDone(j, new)
    BY <1>1, <1>2, <1>4, ChannelAssumption DEF RowOK, PrefixDone, RowType, Held, Pending,
       ChannelInv, WorkerOwns
  <2>3. Decided(j, new)
    BY <1>1, <1>2, <1>4, ChannelAssumption DEF RowOK, Decided, RowType, Held, Pending, Ended,
       ChannelInv, WorkerOwns
  <2>. QED
    BY <2>1, <2>2, <2>3 DEF RowOK
<1>7. Forward(row[j], new)
  BY <1>1, <1>2, <1>4 DEF Forward, RowOK, Coherent, RowType, Held, Pending, Ended
<1>8. row'[j] = new /\ \A i \in Jobs \ {j} : row'[i] = row[i]
  BY <1>1, <1>2, <1>5, OneRowChanges DEF ChannelInv, ChannelTypeOK
<1>9. worker' \in WorkerType
  BY <1>1, <1>2, <1>3, ChannelAssumption DEF RowType, ChannelInv, ChannelTypeOK, WorkerType,
     WorkerOwns, Continue, IdleWorker
<1>10. WorkerOwns'
  BY <1>1, <1>2, <1>3, <1>4, <1>8, ChannelAssumption DEF RowOK, Coherent, RowType, Held, Continue,
     IdleWorker, procVars, ChannelInv, ChannelTypeOK, WorkerType, WorkerOwns
<1>. QED
  BY <1>1, <1>2, <1>5, <1>6, <1>7, <1>9, <1>10, RowWritten

\* A step of the worker that writes nothing needs only its new place to be right.
LEMMA WorkerMoves ==
    ASSUME ChannelInv, UNCHANGED <<storeVars, front, procVars, work, answers>>,
           worker' \in WorkerType, WorkerOwns'
    PROVE  ChannelInv' /\ RowForward
BY DEF ChannelInv, ChannelTypeOK, RowsOK, RowOK, Coherent, PrefixDone, Decided, FrontOwns, FrontOK,
       ApprovalsAnswered, ConsentBeforeWork, RowForward, Forward, RowType, storeVars, procVars

\* The worker gives up, loses its claim or fails its last attempt.
LEMMA WorkerStopsKeeps ==
    ASSUME ChannelInv, UNCHANGED <<storeVars, front, procVars, work, answers>>,
           \/ worker' = IdleWorker
           \/ worker.at # "idle" /\ worker' = [worker EXCEPT !.at = "confirm"]
           \/ worker.at # "idle" /\ worker' = [worker EXCEPT !.at = "fail"]
    PROVE  ChannelInv' /\ RowForward
<1>1. worker' \in WorkerType
  BY ChannelAssumption DEF ChannelInv, ChannelTypeOK, WorkerType, IdleWorker
<1>2. \/ worker'.at = "idle"
      \/ /\ worker'.at \in {"confirm", "fail"} /\ worker.at # "idle" /\ worker'.job = worker.job
         /\ worker'.claim = worker.claim /\ worker'.checkpoint = worker.checkpoint
         /\ worker'.response = worker.response
  BY DEF ChannelInv, ChannelTypeOK, WorkerType, IdleWorker
<1>3. WorkerOwns'
  BY <1>2 DEF ChannelInv, WorkerOwns, storeVars, procVars
<1>. QED
  BY <1>1, <1>3, WorkerMoves

\* The work of a step that lies behind the checkpoint of a claimed job moves on,
\* and with it the worker.
LEMMA WorkMoves ==
    ASSUME ChannelInv, UNCHANGED <<storeVars, front, procVars, answers>>,
           worker.at # "idle", NEW w \in {"begun", "finished"}, worker.checkpoint < Steps,
           w = "begun" => work[<<worker.job, worker.checkpoint + 1>>] # "finished",
           work' = [work EXCEPT ![<<worker.job, worker.checkpoint + 1>>] = w],
           worker' \in WorkerType, WorkerOwns'
    PROVE  ChannelInv' /\ RowForward
<1> DEFINE s == <<worker.job, worker.checkpoint + 1>>
<1>1. /\ worker.job \in Jobs /\ worker.checkpoint \in 0..Steps /\ s \in Jobs \X (1..Steps)
      /\ row[worker.job].checkpoint = worker.checkpoint
  BY ChannelAssumption DEF ChannelInv, WorkerOwns, ChannelTypeOK, WorkerType
<1>2. /\ work' \in [Jobs \X (1..Steps) -> {"none", "begun", "finished"}]
      /\ \A x \in Jobs \X (1..Steps) : x # s => work'[x] = work[x]
      /\ \A x \in Jobs \X (1..Steps) : work[x] = "finished" => work'[x] = "finished"
  BY <1>1 DEF ChannelInv, ChannelTypeOK
<1>3. ChannelTypeOK'
  BY <1>2 DEF ChannelInv, ChannelTypeOK, storeVars, procVars
<1>4. RowsOK'
  <2>1. \A j \in Jobs : PrefixDone(j, row[j])'
    BY <1>2 DEF ChannelInv, RowsOK, RowOK, PrefixDone, storeVars
  <2>. QED
    BY <2>1 DEF ChannelInv, RowsOK, RowOK, Coherent, Decided, storeVars
<1>5. ConsentBeforeWork'
  <2> SUFFICES ASSUME NEW j \in Jobs, NEW t \in 1..Steps, NEW g \in Gates,
                      work'[<<j, t>>] # "none", g < t
               PROVE  <<j, g, "approve">> \in answers
    BY DEF ConsentBeforeWork, storeVars
  <2>1. CASE <<j, t>> # s
    BY <1>2, <2>1 DEF ChannelInv, ConsentBeforeWork
  <2>2. CASE <<j, t>> = s
    <3>1. j = worker.job /\ t = worker.checkpoint + 1
      BY <2>2
    <3>2. g \in 1..Steps /\ g <= row[j].checkpoint
      BY <1>1, <3>1, ChannelAssumption
    <3>3. PrefixDone(j, row[j])
      BY DEF ChannelInv, RowsOK, RowOK
    <3>4. <<j, g, "approve">> \in receipts
      BY <3>2, <3>3 DEF PrefixDone
    <3>. QED
      BY <3>4 DEF ChannelInv, ApprovalsAnswered
  <2>. QED
    BY <2>1, <2>2
<1>6. FrontOwns' /\ ApprovalsAnswered' /\ RowForward
  BY DEF ChannelInv, ChannelTypeOK, RowType, FrontOwns, FrontOK, ApprovalsAnswered, RowForward, Forward,
         storeVars
<1>. QED
  BY <1>3, <1>4, <1>5, <1>6 DEF ChannelInv

\* The worker renews its lease before a gate or a step.
LEMMA RenewLeaseKeeps ==
    ASSUME ChannelInv, RenewLease
    PROVE  ChannelInv' /\ RowForward
<1> DEFINE s == worker.checkpoint + 1
<1> DEFINE to == IF s \notin Gates THEN "step" ELSE IF worker.response = s THEN "consume" ELSE "park"
<1>1. /\ worker.at = "renew" /\ up /\ worker' = [worker EXCEPT !.at = to]
      /\ UNCHANGED <<storeVars, front, procVars, answers>>
      /\ work' = IF s \in Gates \/ work[<<worker.job, s>>] = "finished" THEN work
                 ELSE [work EXCEPT ![<<worker.job, s>>] = "begun"]
  BY DEF RenewLease, WorkerGo
<1>2. worker' \in WorkerType
  BY <1>1 DEF ChannelInv, ChannelTypeOK, WorkerType
<1>3. /\ worker'.at = to /\ worker'.job = worker.job /\ worker'.claim = worker.claim
      /\ worker'.checkpoint = worker.checkpoint /\ worker'.response = worker.response
  BY <1>1 DEF ChannelInv, ChannelTypeOK, WorkerType
<1>4. WorkerOwns'
  BY <1>1, <1>3 DEF ChannelInv, WorkerOwns, storeVars, procVars
<1>5. CASE s \in Gates \/ work[<<worker.job, s>>] = "finished"
  BY <1>1, <1>2, <1>4, <1>5, WorkerMoves
<1>6. CASE ~(s \in Gates \/ work[<<worker.job, s>>] = "finished")
  <2>1. worker.checkpoint < Steps
    BY <1>1 DEF ChannelInv, WorkerOwns
  <2>. QED
    BY <1>1, <1>2, <1>4, <1>6, <2>1, WorkMoves
<1>. QED
  BY <1>5, <1>6

\* A step returns or throws.
LEMMA StepEndsKeeps ==
    ASSUME ChannelInv, NEW to \in {"advance", "defer", "fail"}, StepEnds(to)
    PROVE  ChannelInv' /\ RowForward
<1> DEFINE s == worker.checkpoint + 1
<1>1. /\ worker.at = "step" /\ up /\ worker' = [worker EXCEPT !.at = to]
      /\ UNCHANGED <<storeVars, front, procVars, answers>>
      /\ work' = IF to = "advance" THEN [work EXCEPT ![<<worker.job, s>>] = "finished"] ELSE work
  BY DEF StepEnds, WorkerGo
<1>2. worker' \in WorkerType
  BY <1>1 DEF ChannelInv, ChannelTypeOK, WorkerType
<1>3. /\ worker'.at = to /\ worker'.job = worker.job /\ worker'.claim = worker.claim
      /\ worker'.checkpoint = worker.checkpoint /\ worker'.response = worker.response
  BY <1>1 DEF ChannelInv, ChannelTypeOK, WorkerType
<1>4. /\ worker.checkpoint < Steps /\ worker.checkpoint \in 0..Steps
      /\ <<worker.job, s>> \in Jobs \X (1..Steps)
  BY <1>1, ChannelAssumption DEF ChannelInv, WorkerOwns, ChannelTypeOK, WorkerType
<1>5. to = "advance" => work'[<<worker.job, s>>] = "finished"
  BY <1>1, <1>4 DEF ChannelInv, ChannelTypeOK
<1>6. WorkerOwns'
  BY <1>1, <1>3, <1>4, <1>5 DEF ChannelInv, WorkerOwns, storeVars, procVars
<1>7. CASE to = "advance"
  BY <1>1, <1>2, <1>4, <1>6, <1>7, WorkMoves
<1>8. CASE to # "advance"
  BY <1>1, <1>2, <1>6, <1>8, WorkerMoves
<1>. QED
  BY <1>7, <1>8

\* The worker retries a job or gives it up.
LEMMA DeferJobKeeps ==
    ASSUME ChannelInv, DeferJob
    PROVE  ChannelInv' /\ RowForward
<1>1. CASE DeferUntil(worker.job, worker.claim) /\ worker' = IdleWorker
  BY <1>1, DeferUntilKeeps DEF DeferJob
<1>2. CASE UNCHANGED storeVars /\ WorkerGo("defer", "fail")
  BY <1>2, WorkerStopsKeeps DEF DeferJob, WorkerGo
<1>. QED
  BY <1>1, <1>2 DEF DeferJob

\* The worker ends a job.
LEMMA FinishJobKeeps ==
    ASSUME ChannelInv, FinishJob
    PROVE  ChannelInv' /\ RowForward
BY FinishKeeps DEF FinishJob

\* The worker lost its claim, to a cancellation or to a lapse of the lease.
LEMMA ConfirmClaimedKeeps ==
    ASSUME ChannelInv, ConfirmClaimed
    PROVE  ChannelInv' /\ RowForward
<1>1. CASE ConfirmCancelled(worker.job, worker.claim)
  BY <1>1, ConfirmHeldKeeps DEF ConfirmClaimed
<1>2. CASE UNCHANGED storeVars
  BY <1>2, WorkerStopsKeeps DEF ConfirmClaimed
<1>. QED
  BY <1>1, <1>2 DEF ConfirmClaimed

\* A method refuses the worker, or throws.
LEMMA LoseClaimKeeps ==
    ASSUME ChannelInv, LoseClaim \/ WorkerThrows
    PROVE  ChannelInv' /\ RowForward
<1>1. CASE LoseClaim
  BY <1>1, WorkerStopsKeeps DEF LoseClaim, WorkerGo
<1>2. CASE WorkerThrows
  BY <1>2, WorkerStopsKeeps DEF WorkerThrows
<1>. QED
  BY <1>1, <1>2

-----------------------------------------------------------------------------
(* The steps of connect_channel, and crashes *)

\* A step of one chat that writes nothing needs only its new place to be right.
LEMMA FrontMoves ==
    ASSUME ChannelInv, NEW f \in Fronts, NEW new \in FrontType, front' = [front EXCEPT ![f] = new],
           UNCHANGED <<storeVars, worker, procVars, work>>, FrontOK(new, answers'),
           answers \subseteq answers', answers' \subseteq Jobs \X Gates \X Decision
    PROVE  ChannelInv' /\ RowForward
<1>1. front' \in [Fronts -> FrontType] /\ front'[f] = new /\ \A h \in Fronts \ {f} : front'[h] = front[h]
  BY DEF ChannelInv, ChannelTypeOK
<1>2. \A h \in Fronts : FrontOK(front'[h], answers')
  BY <1>1 DEF ChannelInv, FrontOwns, FrontOK
<1>3. ChannelTypeOK' /\ FrontOwns'
  BY <1>1, <1>2 DEF ChannelInv, ChannelTypeOK, FrontOwns, storeVars, procVars
<1>4. RowsOK' /\ WorkerOwns'
  BY DEF ChannelInv, RowsOK, RowOK, Coherent, PrefixDone, Decided, WorkerOwns, storeVars, procVars
<1>5. ApprovalsAnswered' /\ ConsentBeforeWork' /\ RowForward
  BY DEF ChannelInv, ChannelTypeOK, RowType, ApprovalsAnswered, ConsentBeforeWork, RowForward, Forward, storeVars
<1>. QED
  BY <1>3, <1>4, <1>5 DEF ChannelInv

\* What a watching, and what an idle chat looks like.
LEMMA FreshFront ==
    /\ IdleFront \in FrontType /\ FrontOK(IdleFront, answers')
    /\ [IdleFront EXCEPT !.at = "enqueue"] \in FrontType
    /\ FrontOK([IdleFront EXCEPT !.at = "enqueue"], answers')
    /\ \A j \in Jobs : /\ [IdleFront EXCEPT !.at = "watch", !.job = j] \in FrontType
                       /\ FrontOK([IdleFront EXCEPT !.at = "watch", !.job = j], answers')
BY ChannelAssumption DEF IdleFront, FrontType, FrontOK, Decision

\* connect_channel finds a live job or none.
LEMMA AttachKeeps ==
    ASSUME ChannelInv, NEW f \in Fronts, Attach(f)
    PROVE  ChannelInv' /\ RowForward
<1>0. answers \subseteq Jobs \X Gates \X Decision
  BY DEF ChannelInv, ChannelTypeOK
<1>1. CASE \E j \in Jobs : LiveJob(j) /\ FrontGo(f, "idle", [IdleFront EXCEPT !.at = "watch", !.job = j])
  BY <1>0, <1>1, FrontMoves, FreshFront DEF Attach, FrontGo
<1>2. CASE FrontGo(f, "idle", [IdleFront EXCEPT !.at = "enqueue"])
  BY <1>0, <1>2, FrontMoves, FreshFront DEF Attach, FrontGo
<1>. QED
  BY <1>1, <1>2 DEF Attach

\* A chat presents the gate its job is parked at.
LEMMA PresentGateKeeps ==
    ASSUME ChannelInv, NEW f \in Fronts, PresentGate(f)
    PROVE  ChannelInv' /\ RowForward
<1> DEFINE new == [front[f] EXCEPT !.at = "prompt", !.gate = row[front[f].job].gate]
<1>1. /\ front[f] \in FrontType /\ FrontOK(front[f], answers) /\ front[f].at = "watch"
      /\ row[front[f].job].state = "waiting_for_input"
  BY DEF ChannelInv, ChannelTypeOK, FrontOwns, PresentGate
<1>2. front[f].job \in Jobs
  BY <1>1 DEF FrontOK
<1>3. row[front[f].job].gate \in Gates
  BY <1>1, <1>2 DEF ChannelInv, ChannelTypeOK, RowType, RowsOK, RowOK, Coherent
<1>4. new \in FrontType /\ new.at = "prompt" /\ new.job = front[f].job /\ new.gate \in Gates
  BY <1>1, <1>3 DEF FrontType
<1>5. FrontOK(new, answers')
  BY <1>2, <1>4 DEF FrontOK, PresentGate, FrontGo, storeVars
<1>6. /\ front' = [front EXCEPT ![f] = new]
      /\ UNCHANGED <<storeVars, worker, procVars, work, answers>>
      /\ answers' \subseteq Jobs \X Gates \X Decision
  BY DEF PresentGate, FrontGo, ChannelInv, ChannelTypeOK
<1>. QED
  BY <1>4, <1>5, <1>6, FrontMoves

\* The prompt is answered by a person or by its time-out.
LEMMA AnswerKeeps ==
    ASSUME ChannelInv, NEW f \in Fronts, NEW d \in Decision,
           PersonAnswers(f, d) \/ (d = "deny" /\ PromptTimesOut(f))
    PROVE  ChannelInv' /\ RowForward
<1> DEFINE new == [front[f] EXCEPT !.at = "respond", !.decision = d]
<1>1. front[f] \in FrontType /\ FrontOK(front[f], answers) /\ front[f].at = "prompt"
  BY DEF ChannelInv, ChannelTypeOK, FrontOwns, PersonAnswers, PromptTimesOut, FrontGo
<1>2. front[f].job \in Jobs /\ front[f].gate \in Gates
  BY <1>1 DEF FrontOK
<1>3. /\ new \in FrontType /\ new.at = "respond" /\ new.decision = d
      /\ new.job = front[f].job /\ new.gate = front[f].gate
  BY <1>1 DEF FrontType
<1>4. /\ front' = [front EXCEPT ![f] = new]
      /\ UNCHANGED <<storeVars, worker, procVars, work>>
      /\ answers \subseteq answers'
      /\ d = "approve" => <<front[f].job, front[f].gate, d>> \in answers'
      /\ answers' \subseteq Jobs \X Gates \X Decision
  <2>1. CASE PersonAnswers(f, d)
    BY <1>2, <2>1 DEF PersonAnswers, FrontGo, ChannelInv, ChannelTypeOK
  <2>2. CASE d = "deny" /\ PromptTimesOut(f)
    BY <2>2 DEF PromptTimesOut, FrontGo, ChannelInv, ChannelTypeOK
  <2>. QED
    BY <2>1, <2>2
<1>5. FrontOK(new, answers')
  BY <1>2, <1>3, <1>4 DEF FrontOK
<1>. QED
  BY <1>3, <1>4, <1>5, FrontMoves

\* A chat stops watching or is aborted.
LEMMA StopKeeps ==
    ASSUME ChannelInv, NEW f \in Fronts, StopWatching(f) \/ ChatAborted(f)
    PROVE  ChannelInv' /\ RowForward
<1>1. /\ front' = [front EXCEPT ![f] = IdleFront]
      /\ UNCHANGED <<storeVars, worker, procVars, work, answers>>
      /\ answers' \subseteq Jobs \X Gates \X Decision
  BY DEF StopWatching, ChatAborted, FrontGo, ChannelInv, ChannelTypeOK
<1>. QED
  BY <1>1, FrontMoves, FreshFront

\* connect_channel enqueues a job, or joins one that was enqueued meanwhile.
LEMMA StartJobKeeps ==
    ASSUME ChannelInv, NEW f \in Fronts, NEW j \in Jobs, StartJob(f, j)
    PROVE  ChannelInv' /\ RowForward
<1> DEFINE chat == [IdleFront EXCEPT !.at = "watch", !.job = j]
<1>1. /\ front' = [front EXCEPT ![f] = chat]
      /\ UNCHANGED <<worker, procVars, work, answers>>
      /\ answers \subseteq Jobs \X Gates \X Decision
      /\ chat \in FrontType /\ FrontOK(chat, answers')
  BY FreshFront DEF StartJob, FrontGo, ChannelInv, ChannelTypeOK
<1> HIDE DEF chat
<1>2. CASE UNCHANGED storeVars
  BY <1>1, <1>2, FrontMoves
<1>3. CASE Enqueue(j)
  <2>1. row[j].state = "absent" /\ SetRow(j, NewRow) /\ UNCHANGED <<receipts, minted>>
    BY <1>3 DEF Enqueue
  <2>2. row[j] \in RowType /\ RowOK(j, row[j])
    BY DEF ChannelInv, ChannelTypeOK, RowsOK
  <2>3. NewRow \in RowType
    BY ChannelAssumption DEF NewRow, RowType, Pending
  <2>4. RowOK(j, NewRow)
    BY <2>1, <2>2, ChannelAssumption
    DEF NewRow, RowOK, Coherent, PrefixDone, Decided, RowType, Ended
  <2>5. /\ row' \in [Jobs -> RowType] /\ row'[j] = NewRow
        /\ \A i \in Jobs \ {j} : row'[i] = row[i]
        /\ RowsOK' /\ ApprovalsAnswered' /\ ConsentBeforeWork'
    BY <1>1, <2>1, <2>3, <2>4, OneRowKeeps
  <2>6. row[j].claim = 0 /\ row[j].checkpoint = 0 /\ row[j].attempt = 0
    BY <2>1, <2>2 DEF RowOK, Coherent, PrefixDone
  <2>7. WorkerOwns'
    BY <1>1, <2>5, <2>6 DEF ChannelInv, WorkerOwns, procVars
  <2>8. front' \in [Fronts -> FrontType] /\ FrontOwns'
    BY <1>1 DEF ChannelInv, ChannelTypeOK, FrontOwns
  <2>9. ChannelTypeOK'
    BY <1>1, <2>1, <2>5, <2>8 DEF ChannelInv, ChannelTypeOK, procVars
  <2>10. RowForward
    BY <2>1, <2>2, <2>5, <2>6 DEF RowForward, Forward, NewRow, Ended, RowType, ChannelInv, ChannelTypeOK
  <2>. QED
    BY <2>5, <2>7, <2>8, <2>9, <2>10 DEF ChannelInv
<1>. QED
  BY <1>2, <1>3 DEF StartJob

\* What respondToGate makes of the row of a parked job, and of its receipts.
LEMMA AnsweredRow ==
    ASSUME ChannelInv, NEW j \in Jobs, NEW g \in Gates, NEW d \in Decision,
           row[j].state = "waiting_for_input", row[j].gate = g,
           receipts' = receipts \cup {<<j, g, d>>}, UNCHANGED work,
           NEW new \in RowType, new.checkpoint = row[j].checkpoint, new.gate = 0, new.claim = 0,
           \/ d = "approve" /\ new.state = "queued" /\ new.response = g
           \/ d = "deny" /\ new.state = "cancelled" /\ new.response = 0,
           SetRow(j, new)
    PROVE  row' \in [Jobs -> RowType] /\ RowsOK'
<1>1. /\ row' \in [Jobs -> RowType] /\ row'[j] = new
      /\ \A i \in Jobs \ {j} : row'[i] = row[i]
  BY OneRowChanges DEF ChannelInv, ChannelTypeOK
<1>2. row[j] \in RowType /\ Coherent(j, row[j]) /\ PrefixDone(j, row[j]) /\ Decided(j, row[j])
  BY DEF ChannelInv, ChannelTypeOK, RowsOK, RowOK
<1>3. row[j].response = 0 /\ g = row[j].checkpoint + 1 /\ row[j].checkpoint \in 0..Steps
  BY <1>2, ChannelAssumption DEF Coherent, RowType
<1>4. \A h \in Gates : <<j, h, "approve">> \in receipts => h <= row[j].checkpoint
  <2> SUFFICES ASSUME NEW h \in Gates, <<j, h, "approve">> \in receipts
               PROVE  h <= row[j].checkpoint
    OBVIOUS
  <2>1. h # 0
    BY ChannelAssumption
  <2>2. row[j].state \notin {"cancel_requested"} \cup Ended
    BY DEF Ended
  <2>. QED
    BY <1>2, <1>3, <2>1, <2>2 DEF Decided
<1>5. <<j, g, "approve">> \notin receipts
  BY <1>3, <1>4
<1>6. \A h \in Gates : <<j, h, "deny">> \notin receipts
  BY <1>2 DEF Decided, Ended
<1>7. Coherent(j, row[j])'
  BY <1>1, <1>3 DEF Coherent
<1>8. PrefixDone(j, row[j])'
  BY <1>1, <1>2 DEF PrefixDone
<1>9. Decided(j, row[j])'
  BY <1>1, <1>3, <1>4, <1>5, <1>6, ChannelAssumption DEF Decided, Ended
<1>10. ASSUME NEW i \in Jobs, i # j PROVE RowOK(i, row[i])'
  <2>1. RowOK(i, row[i]) /\ row'[i] = row[i]
    BY <1>1, <1>10 DEF ChannelInv, RowsOK
  <2>2. \A h, e : <<i, h, e>> \in receipts' <=> <<i, h, e>> \in receipts
    BY <1>10
  <2>. QED
    BY <2>1, <2>2 DEF RowOK, Coherent, PrefixDone, Decided
<1>. QED
  BY <1>1, <1>7, <1>8, <1>9, <1>10 DEF RowsOK, RowOK

\* A chat records the answer it carries, unless the row has moved on.
LEMMA RespondKeeps ==
    ASSUME ChannelInv, NEW f \in Fronts, Respond(f)
    PROVE  ChannelInv' /\ RowForward
<1> DEFINE j == front[f].job
           g == front[f].gate
           d == front[f].decision
           chat == [IdleFront EXCEPT !.at = "watch", !.job = j]
<1>1. front[f] \in FrontType /\ FrontOK(front[f], answers) /\ front[f].at = "respond"
  BY DEF ChannelInv, ChannelTypeOK, FrontOwns, Respond
<1>2. /\ j \in Jobs /\ g \in Gates /\ d \in Decision
      /\ d = "approve" => <<j, g, "approve">> \in answers
  BY <1>1 DEF FrontOK, FrontType
<1>3. /\ front' = [front EXCEPT ![f] = chat]
      /\ UNCHANGED <<worker, procVars, work, answers>>
      /\ answers \subseteq Jobs \X Gates \X Decision
      /\ chat \in FrontType /\ FrontOK(chat, answers')
  BY <1>2, FreshFront DEF Respond, FrontGo, ChannelInv, ChannelTypeOK
<1> HIDE DEF chat
<1>4. CASE UNCHANGED storeVars
  BY <1>3, <1>4, FrontMoves
<1>5. CASE RespondToGate(j, g, d)
  <2> DEFINE new == IF d = "approve"
                    THEN [row[j] EXCEPT !.state = "queued", !.gate = 0, !.response = g]
                    ELSE [row[j] EXCEPT !.state = "cancelled", !.gate = 0, !.response = 0]
  <2>1. /\ row[j].state = "waiting_for_input" /\ row[j].gate = g
        /\ receipts' = receipts \cup {<<j, g, d>>} /\ SetRow(j, new) /\ UNCHANGED minted
    BY <1>5 DEF RespondToGate
  <2>2. row[j] \in RowType /\ RowOK(j, row[j])
    BY <1>2 DEF ChannelInv, ChannelTypeOK, RowsOK
  <2>3. row[j].claim = 0
    BY <2>1, <2>2 DEF RowOK, Coherent
  <2>4. new \in RowType
    BY <1>2, <2>2 DEF RowType, Pending, Ended
  <2>5. /\ new.checkpoint = row[j].checkpoint /\ new.gate = 0 /\ new.claim = 0
        /\ new.attempt = row[j].attempt
        /\ \/ d = "approve" /\ new.state = "queued" /\ new.response = g
           \/ d = "deny" /\ new.state = "cancelled" /\ new.response = 0
    BY <1>2, <2>2, <2>3 DEF RowType, Decision
  <2> HIDE DEF new
  <2>6. row' \in [Jobs -> RowType] /\ RowsOK'
    BY <1>2, <1>3, <2>1, <2>4, <2>5, AnsweredRow
  <2>7. row'[j] = new /\ \A i \in Jobs \ {j} : row'[i] = row[i]
    BY <1>2, <2>1, <2>4, OneRowChanges DEF ChannelInv, ChannelTypeOK
  <2>8. WorkerOwns'
    BY <1>2, <1>3, <2>3, <2>7 DEF ChannelInv, WorkerOwns, procVars
  <2>9. front' \in [Fronts -> FrontType] /\ FrontOwns'
    BY <1>3 DEF ChannelInv, ChannelTypeOK, FrontOwns
  <2>10. ChannelTypeOK'
    BY <1>2, <1>3, <2>1, <2>6, <2>9 DEF ChannelInv, ChannelTypeOK, procVars
  <2>11. ApprovalsAnswered' /\ ConsentBeforeWork'
    BY <1>2, <1>3, <2>1 DEF ChannelInv, ApprovalsAnswered, ConsentBeforeWork
  <2>12. RowForward
    BY <2>1, <2>2, <2>5, <2>7 DEF RowForward, Forward, Ended, RowType, ChannelInv, ChannelTypeOK
  <2>. QED
    BY <2>6, <2>8, <2>9, <2>10, <2>11, <2>12 DEF ChannelInv
<1>. QED
  BY <1>4, <1>5 DEF Respond

\* The gateway dies: only the rows remain.
LEMMA CrashKeeps ==
    ASSUME ChannelInv, Crash
    PROVE  ChannelInv' /\ RowForward
<1>1. /\ worker' = IdleWorker /\ front' = [f \in Fronts |-> IdleFront] /\ up' = FALSE
      /\ UNCHANGED <<storeVars, boots, outdated, work, answers>>
  BY DEF Crash
<1>2. IdleWorker \in WorkerType /\ WorkerOwns'
  BY <1>1, ChannelAssumption DEF IdleWorker, WorkerType, WorkerOwns
<1>3. ChannelTypeOK' /\ FrontOwns'
  BY <1>1, <1>2, FreshFront DEF ChannelInv, ChannelTypeOK, FrontOwns, storeVars
<1>4. RowsOK'
  BY <1>1 DEF ChannelInv, RowsOK, RowOK, Coherent, PrefixDone, Decided, storeVars
<1>5. ApprovalsAnswered' /\ ConsentBeforeWork' /\ RowForward
  BY <1>1 DEF ChannelInv, ChannelTypeOK, RowType, ApprovalsAnswered, ConsentBeforeWork, RowForward, Forward,
              storeVars
<1>. QED
  BY <1>2, <1>3, <1>4, <1>5 DEF ChannelInv

\* What recoverExpiredClaims makes of a row.
LEMMA RecoveredRow ==
    ASSUME NEW j \in Jobs, NEW r \in RowType, RowOK(j, r)
    PROVE  /\ Recovered(r) \in RowType
           /\ RowOK(j, Recovered(r))
           /\ Forward(r, Recovered(r))
<1>1. CASE Recovered(r) = r
  BY <1>1 DEF Forward, RowType
<1>2. CASE r.state = "cancel_requested" /\ Recovered(r) = Unclaimed(r, "cancelled")
  <2>1. /\ Unclaimed(r, "cancelled") \in RowType /\ Unclaimed(r, "cancelled").state = "cancelled"
        /\ Unclaimed(r, "cancelled").attempt = r.attempt
        /\ Unclaimed(r, "cancelled").checkpoint = r.checkpoint
        /\ Unclaimed(r, "cancelled").gate = r.gate /\ Unclaimed(r, "cancelled").response = r.response
        /\ Unclaimed(r, "cancelled").claim = 0
    BY DEF RowType, Unclaimed, Ended
  <2>. QED
    BY <1>2, <2>1 DEF Forward, RowOK, Coherent, PrefixDone, Decided, Ended
<1>3. CASE r.state = "running" /\ Recovered(r) = Unclaimed(r, "failed")
  <2>1. /\ Unclaimed(r, "failed") \in RowType /\ Unclaimed(r, "failed").state = "failed"
        /\ Unclaimed(r, "failed").attempt = r.attempt
        /\ Unclaimed(r, "failed").checkpoint = r.checkpoint
        /\ Unclaimed(r, "failed").gate = r.gate /\ Unclaimed(r, "failed").response = r.response
        /\ Unclaimed(r, "failed").claim = 0
    BY DEF RowType, Unclaimed, Ended
  <2>. QED
    BY <1>3, <2>1 DEF Forward, RowOK, Coherent, PrefixDone, Decided, Ended
<1>4. CASE /\ r.state = "running" /\ r.attempt < MaxAttempts
           /\ Recovered(r) = [Unclaimed(r, "queued") EXCEPT !.attempt = @ + 1]
  <2> DEFINE new == [Unclaimed(r, "queued") EXCEPT !.attempt = @ + 1]
  <2>1. /\ new.state = "queued" /\ new.attempt = r.attempt + 1 /\ new.checkpoint = r.checkpoint
        /\ new.gate = r.gate /\ new.response = r.response /\ new.claim = 0
    BY DEF RowType, Unclaimed
  <2>2. r.attempt + 1 \in 0..MaxAttempts
    BY <1>4, ChannelAssumption DEF RowType
  <2>3. new \in RowType
    BY <2>2 DEF RowType, Unclaimed, Pending
  <2> HIDE DEF new
  <2>. QED
    BY <1>4, <2>1, <2>3 DEF Forward, RowOK, Coherent, PrefixDone, Decided, Ended, new
<1>. QED
  BY <1>1, <1>2, <1>3, <1>4, ChannelAssumption DEF Recovered, RowType

\* A gateway starts and recovers what it finds.
LEMMA BootKeeps ==
    ASSUME ChannelInv, Boot
    PROVE  ChannelInv' /\ RowForward
<1>1. /\ ~up /\ up' = TRUE /\ boots' = boots + 1 /\ UNCHANGED <<receipts, minted, worker, front, work, answers>>
      /\ row' = [j \in Jobs |-> Recovered(row[j])]
      /\ outdated' \in {outdated, {j \in Jobs : row[j].state # "absent"}}
  BY DEF Boot, RecoverExpiredClaims
<1>2. \A j \in Jobs : row[j] \in RowType /\ RowOK(j, row[j])
  BY DEF ChannelInv, ChannelTypeOK, RowsOK
<1>3. \A j \in Jobs : row'[j] = Recovered(row[j])
  BY <1>1
<1>4. \A j \in Jobs : row'[j] \in RowType /\ RowOK(j, row'[j])
  BY <1>2, <1>3, RecoveredRow
<1>5. RowsOK'
  BY <1>1, <1>4 DEF RowsOK, RowOK, Coherent, PrefixDone, Decided
<1>6. WorkerOwns'
  BY <1>1 DEF ChannelInv, WorkerOwns
<1>7. row' \in [Jobs -> RowType] /\ boots' \in Nat
  BY <1>1, <1>4 DEF ChannelInv, ChannelTypeOK
<1>8. ChannelTypeOK'
  BY <1>1, <1>7 DEF ChannelInv, ChannelTypeOK
<1>9. FrontOwns' /\ ApprovalsAnswered' /\ ConsentBeforeWork'
  BY <1>1 DEF ChannelInv, FrontOwns, ApprovalsAnswered, ConsentBeforeWork
<1>10. RowForward
  BY <1>2, <1>3, RecoveredRow DEF RowForward
<1>. QED
  BY <1>5, <1>6, <1>8, <1>9, <1>10 DEF ChannelInv

-----------------------------------------------------------------------------
\* An empty table satisfies the invariant.
LEMMA ChannelInitOK == ChannelInit => ChannelInv
<1> SUFFICES ASSUME ChannelInit PROVE ChannelInv
  OBVIOUS
<1>1. /\ NoRow \in RowType /\ NoRow.state = "absent" /\ NoRow.checkpoint = 0 /\ NoRow.attempt = 0
      /\ NoRow.gate = 0 /\ NoRow.response = 0 /\ NoRow.claim = 0
  <2>1. NewRow \in RowType
    BY ChannelAssumption DEF NewRow, RowType, Pending
  <2>2. NoRow \in RowType
    BY <2>1 DEF NoRow, RowType
  <2>. QED
    BY <2>2 DEF NoRow, NewRow
<1>2. IdleWorker \in WorkerType /\ IdleWorker.at = "idle"
  BY ChannelAssumption DEF IdleWorker, WorkerType
<1>3. IdleFront \in FrontType /\ IdleFront.at = "idle"
  BY ChannelAssumption DEF IdleFront, FrontType, Decision
<1>4. ChannelTypeOK
  BY <1>1, <1>2, <1>3 DEF ChannelInit, ChannelTypeOK
<1>5. RowsOK
  <2>1. \A j \in Jobs : row[j] = NoRow
    BY DEF ChannelInit
  <2>2. receipts = {}
    BY DEF ChannelInit
  <2>3. \A j \in Jobs : Coherent(j, NoRow) /\ Decided(j, NoRow)
    BY <1>1, <2>2 DEF Coherent, Decided
  <2>4. \A j \in Jobs : PrefixDone(j, NoRow)
    BY <1>1 DEF PrefixDone
  <2>. QED
    BY <2>1, <2>3, <2>4 DEF RowsOK, RowOK
<1>6. WorkerOwns /\ FrontOwns
  BY <1>2, <1>3 DEF ChannelInit, WorkerOwns, FrontOwns, FrontOK
<1>7. ApprovalsAnswered /\ ConsentBeforeWork
  BY DEF ChannelInit, ApprovalsAnswered, ConsentBeforeWork
<1>. QED
  BY <1>4, <1>5, <1>6, <1>7 DEF ChannelInv

\* Every step keeps the invariant and moves rows forward only.
LEMMA ChannelStep ==
    ASSUME ChannelInv, [ChannelNext]_channelVars
    PROVE  ChannelInv' /\ RowForward
<1>1. CASE WorkerNext \/ WorkerThrows
  BY <1>1, ConfirmUnclaimedKeeps, ClaimJobKeeps, RenewLeaseKeeps, PassGateKeeps, ParkJobKeeps,
     StepEndsKeeps, CheckpointStepKeeps, DeferJobKeeps, FinishJobKeeps, LoseClaimKeeps,
     ConfirmClaimedKeeps DEF WorkerNext
<1>2. CASE \E f \in Fronts : FrontNext(f)
  <2> PICK f \in Fronts : FrontNext(f)
    BY <1>2
  <2>1. "deny" \in Decision
    BY DEF Decision
  <2>. QED
    BY <2>1, AttachKeeps, StartJobKeeps, StopKeeps, PresentGateKeeps, AnswerKeeps, RespondKeeps
    DEF FrontNext
<1>3. CASE \E j \in Jobs : CancelJob(j) \/ LeaseLapses(j)
  BY <1>3, CancelJobKeeps, LeaseLapsesKeeps
<1>4. CASE Crash \/ Boot
  BY <1>4, CrashKeeps, BootKeeps
<1>5. CASE UNCHANGED channelVars
  <2>1. worker' \in WorkerType /\ WorkerOwns'
    BY <1>5 DEF ChannelInv, ChannelTypeOK, WorkerOwns, channelVars, storeVars, procVars
  <2>. QED
    BY <1>5, <2>1, WorkerMoves DEF channelVars
<1>. QED
  BY <1>1, <1>2, <1>3, <1>4, <1>5 DEF ChannelNext

\* The inductive invariant of channel procedures, and with it the type
\* correctness of the store, the worker and the chats.
THEOREM ChannelInvariant == ChannelSpec => []ChannelInv
<1>1. ChannelInit => ChannelInv
  BY ChannelInitOK
<1>2. ChannelInv /\ [ChannelNext]_channelVars => ChannelInv'
  BY ChannelStep
<1>. QED
  BY <1>1, <1>2, PTL DEF ChannelSpec

\* Rows, worker and chats keep their types; in particular no job exceeds its
\* budget of attempts.
THEOREM ChannelTypes == ChannelSpec => []ChannelTypeOK
<1>1. ChannelInv => ChannelTypeOK
  BY DEF ChannelInv
<1>. QED
  BY <1>1, ChannelInvariant, PTL

\* channel-job-worker.ts: no step behind a gate begins before a person approved
\* that gate of that job, for every procedure, crash and interleaving of chats.
THEOREM ConsentTheorem == ChannelSpec => []ConsentBeforeWork
<1>1. ChannelInv => ConsentBeforeWork
  BY DEF ChannelInv
<1>. QED
  BY <1>1, ChannelInvariant, PTL

\* channel-job-store.ts, respondToGate: the permanent receipts never hold both an
\* approval and a refusal of one gate.
THEOREM OneDecisionTheorem == ChannelSpec => []OneDecisionPerGate
<1>1. ChannelInv => OneDecisionPerGate
  BY DEF ChannelInv, RowsOK, RowOK, Decided, OneDecisionPerGate
<1>. QED
  BY <1>1, ChannelInvariant, PTL

\* channel-job-store.ts: state, gate, claim and pending response of every row agree.
THEOREM CoherenceTheorem == ChannelSpec => []RowIsCoherent
<1>1. ChannelInv => RowIsCoherent
  BY DEF ChannelInv, RowsOK, RowOK, Coherent, RowIsCoherent
<1>. QED
  BY <1>1, ChannelInvariant, PTL

\* channel-job-store.ts, finish: a job that succeeded has finished every step and
\* has an approval for every gate.
THEOREM CompletenessTheorem == ChannelSpec => []SuccessIsComplete
<1>1. ChannelInv => SuccessIsComplete
  <2> SUFFICES ASSUME ChannelInv, NEW j \in Jobs, row[j].state = "succeeded", NEW s \in 1..Steps
               PROVE  IF s \in Gates THEN <<j, s, "approve">> \in receipts
                                     ELSE work[<<j, s>>] = "finished"
    BY DEF SuccessIsComplete
  <2>1. PrefixDone(j, row[j])
    BY DEF ChannelInv, RowsOK, RowOK
  <2>. QED
    BY <2>1, ChannelAssumption DEF PrefixDone
<1>. QED
  BY <1>1, ChannelInvariant, PTL

\* channel-job-worker.ts: no step of an ended job is being run.
THEOREM IdleTheorem == ChannelSpec => []EndedMeansIdle
<1>1. ChannelInv => EndedMeansIdle
  BY DEF ChannelInv, RowsOK, RowOK, Coherent, WorkerOwns, EndedMeansIdle, Ended
<1>. QED
  BY <1>1, ChannelInvariant, PTL

\* channel-job-store.ts: ended jobs never change, cancellations are never undone,
\* checkpoints move by one and only a failed execution costs an attempt.
THEOREM ForwardJobsTheorem == ChannelSpec => JobsMoveForward
<1>1. ChannelInv /\ [ChannelNext]_channelVars => [RowForward]_channelVars
  BY ChannelStep
<1>. QED
  BY <1>1, ChannelInvariant, PTL DEF ChannelSpec, JobsMoveForward
=============================================================================
