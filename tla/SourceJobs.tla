----------------------------- MODULE SourceJobs -----------------------------
(***************************************************************************)
(* The durable jobs of a source and the worker that runs them:             *)
(* SourceJobStore (inspect_format, extract_text), SourceDataViewStore      *)
(* (prepare_data_view) and SourceJobWorker.  Every store method is one     *)
(* transaction; between two of them the worker awaits, so a cancellation,  *)
(* a freeze, a lapsed lease or a crash may come in between.                *)
(***************************************************************************)
EXTENDS SourceRecord

SetJob(v, k, new) == job' = [job EXCEPT ![<<v, k>>] = new]

SameOutside == UNCHANGED <<upload, handler, quar, staged, object, del, inv, eraser, grants, reader>>

-----------------------------------------------------------------------------
(* Requests *)

\* enqueue, enqueuePreparation, SourceDataViewStore.enqueue.  A row that is
\* there is returned as it is, whatever became of it.
Enqueue(v, k) ==
    /\ source.deletion = "active" /\ version[v].there
    /\ k # "inspect" => source.current = v /\ version[v].inspection = "done"
    /\ job[<<v, k>>].state = "absent"
    /\ SetJob(v, k, [NoJob EXCEPT !.state = "queued", !.revision = source.revision])
    /\ SetHealth(v, k, "queued")
    /\ UNCHANGED <<product, art, worker, faults>> /\ SameOutside

\* requestCancel
RequestCancel(v, k) ==
    /\ job[<<v, k>>].state \in JobPending
    /\ SetJob(v, k, [job[<<v, k>>] EXCEPT !.state = "cancel_requested"])
    /\ UNCHANGED <<source, version, product, art, worker, faults>> /\ SameOutside

-----------------------------------------------------------------------------
(* SourceJobWorker.runOne: what it takes up next *)

Cancellable == {j \in Versions \X JobKinds :
                   j[2] # "view" /\ job[j].state = "cancel_requested" /\ job[j].claim = "none"}

Claimable(kinds) == {j \in Versions \X (kinds \cap JobKinds) :
                        /\ job[j].state \in {"queued", "waiting_for_resource"}
                        /\ job[j].attempt < MaxAttempts}

\* Mutant of LapsedCancellations: a lapsed claim is not taken over.
UnclaimedCancellations == {j \in Versions \X ({"view"} \cap JobKinds) :
                              job[j].state = "cancel_requested" /\ job[j].claim = "none"}

LapsedCancellations == {j \in Versions \X ({"view"} \cap JobKinds) :
                           job[j].state = "cancel_requested" /\ job[j].claim # "live"}

Working(at, v, k, then) ==
    worker' = [at |-> at, version |-> v, kind |-> k, then |-> then,
               checkpoint |-> job'[<<v, k>>].checkpoint, attempt |-> job'[<<v, k>>].attempt]

\* confirmNextUnclaimedCancellation
ConfirmUnclaimed ==
    \E j \in Cancellable :
        /\ SetJob(j[1], j[2], Released(job[j], "cancelled"))
        /\ SetHealth(j[1], j[2], "none")
        /\ UNCHANGED worker

\* claimNext of either store
ClaimNext(kinds) ==
    \E j \in Claimable(kinds) :
        /\ SetJob(j[1], j[2], [job[j] EXCEPT !.state = "running", !.claim = "live",
                                             !.attempt = @ + 1])
        /\ SetHealth(j[1], j[2], "working")
        /\ Working("target", j[1], j[2], "stop")

\* claimNextCancellation: only the data view store takes a claim to cancel.
ClaimNextCancellation ==
    \E j \in LapsedCancellations :
        /\ SetJob(j[1], j[2], [job[j] EXCEPT !.claim = "live"])
        /\ Working("cleanup", j[1], j[2], "stop")
        /\ UNCHANGED <<source, version>>

RunOne ==
    /\ worker.at = "idle"
    /\ \/ ConfirmUnclaimed
       \/ Cancellable = {} /\ ClaimNext({"inspect", "extract"})
       \/ Cancellable = {} /\ Claimable({"inspect", "extract"}) = {} /\ ClaimNextCancellation
       \/ /\ Cancellable = {} /\ Claimable({"inspect", "extract"}) = {}
          /\ LapsedCancellations = {}
          /\ ClaimNext({"view"})
    /\ UNCHANGED <<product, art, faults>> /\ SameOutside

-----------------------------------------------------------------------------
(* SourceJobWorker.execute and executeDataViewClaim, one await at a time *)

Row == job[<<worker.version, worker.kind>>]
View == worker.kind = "view"

Goto(at) == worker' = [worker EXCEPT !.at = at]
Finished == worker' = Idle

\* Where the worker goes when it finds its claim gone.
Lost(at) == IF ~View THEN Goto("confirm")
            ELSE IF at = "begin" THEN Finished ELSE Goto("cleanup")

\* getClaimedInspectionTarget, getClaimedPreparationTarget, getClaimedTarget
GetTarget ==
    /\ worker.at = "target"
    /\ IF Held(Row) THEN Goto("begin") ELSE Lost("target")
    /\ UNCHANGED <<source, jobVars, art, faults>> /\ SameOutside

\* advanceTo and advanceCheckpoint: a checkpoint reached in an earlier attempt
\* is not written again.
AdvanceTo(at, checkpoint, next) ==
    /\ worker.at = at
    /\ IF worker.checkpoint >= checkpoint
       THEN Goto(next) /\ UNCHANGED job
       ELSE IF Held(Row)
       THEN /\ SetJob(worker.version, worker.kind, [Row EXCEPT !.checkpoint = checkpoint])
            /\ worker' = [worker EXCEPT !.at = next, !.checkpoint = checkpoint]
       ELSE Lost(at) /\ UNCHANGED job
    /\ UNCHANGED <<source, version, product, art, faults>> /\ SameOutside

Advance == AdvanceTo("begin", 1, "read") \/ AdvanceTo("check", 2, "record")
           \/ AdvanceTo("record", 3, "finish")

\* inspectPlaced, or prepareCsvDataViewArtifact, which leaves the artifact.
Read ==
    /\ worker.at = "read"
    /\ object[worker.version] = "whole"
    /\ Goto("check")
    /\ art' = IF View THEN art \cup {worker.version} ELSE art
    /\ UNCHANGED <<source, jobVars, faults>> /\ SameOutside

\* The read fails: an error that would recur ends the job, another defers it
\* while attempts are left.  A data view is cleaned up and its cancellation
\* looked at first.
ReadFails(recurs) ==
    /\ worker.at = "read"
    /\ IF object[worker.version] = "whole" THEN Fault ELSE recurs /\ UNCHANGED faults
    /\ LET verdict == IF recurs \/ worker.attempt >= MaxAttempts THEN "fail" ELSE "defer" IN
       worker' = IF View THEN [worker EXCEPT !.at = "cleanup", !.then = verdict]
                 ELSE [worker EXCEPT !.at = verdict]
    /\ UNCHANGED <<source, jobVars, art>> /\ SameOutside

\* finishInspection and finishPreparation with 'succeeded', and publish.
Finish ==
    /\ worker.at = "finish"
    /\ LET v == worker.version
           k == worker.kind
           current == IF View
                      THEN source.current = v /\ source.revision = Row.revision
                      ELSE source.current = v
       IN IF Held(Row) /\ Row.checkpoint = 3 /\ (View => source.deletion = "active")
          THEN /\ SetJob(v, k, [Released(Row, "succeeded") EXCEPT !.checkpoint = 4])
               /\ version' = [version EXCEPT ![v] = WithHealth(@, k, "done")]
               /\ source' = IF current /\ source.deletion = "active"
                            THEN WithHealth(source, k, "done") ELSE source
               /\ product' = IF k = "inspect" THEN product
                             ELSE [product EXCEPT ![<<v, k>>] = IF current THEN "current" ELSE "stale"]
               /\ Finished
          ELSE /\ IF View THEN worker' = [worker EXCEPT !.at = "cleanup", !.then = "fail"]
                  ELSE Goto("confirm")
               /\ UNCHANGED <<source, jobVars>>
    /\ UNCHANGED <<art, faults>> /\ SameOutside

\* fenceUnpublishedArtifactCleanup, then the removal of the artifact.
Cleanup ==
    /\ worker.at = "cleanup"
    /\ LET v == worker.version
           fenced == /\ Row.state \in {"running", "cancel_requested"} /\ Row.claim = "live"
                     /\ product[<<v, "view">>] = "none"
       IN IF fenced THEN art' = art \ {v} /\ Goto("confirm")
          ELSE Finished /\ UNCHANGED art
    /\ UNCHANGED <<source, jobVars, faults>> /\ SameOutside

\* The artifact cannot be removed: artifact_cleanup_failed.
CleanupFails ==
    /\ worker.at = "cleanup" /\ worker.version \in art /\ "data_view" \in Stubborn
    /\ Row.state \in {"running", "cancel_requested"} /\ Row.claim = "live"
    /\ product[<<worker.version, "view">>] = "none"
    /\ Fault
    /\ IF Held(Row)
       THEN /\ SetJob(worker.version, "view", Released(Row, "failed"))
            /\ SetHealth(worker.version, "view", "failed")
       ELSE UNCHANGED <<source, version, job>>
    /\ Finished
    /\ UNCHANGED <<product, art>> /\ SameOutside

\* confirmCancelled.  A data view that was not cancelled goes on to the
\* verdict its cleanup was for.
Confirm ==
    /\ worker.at = "confirm"
    /\ IF Row.state = "cancel_requested" /\ Row.claim = "live"
       THEN /\ SetJob(worker.version, worker.kind, Released(Row, "cancelled"))
            /\ SetHealth(worker.version, worker.kind, "none")
            /\ Finished
       ELSE /\ IF View /\ worker.then # "stop" THEN Goto(worker.then) ELSE Finished
            /\ UNCHANGED <<source, version, job>>
    /\ UNCHANGED <<product, art, faults>> /\ SameOutside

\* finishInspection, finishPreparation and finishFailed with a failure, and
\* deferUntil.
Settle(at, state, health) ==
    /\ worker.at = at
    /\ IF Held(Row)
       THEN /\ SetJob(worker.version, worker.kind, Released(Row, state))
            /\ SetHealth(worker.version, worker.kind, health)
            /\ Finished
       ELSE /\ IF View THEN Finished ELSE Goto("confirm")
            /\ UNCHANGED <<source, version, job>>
    /\ UNCHANGED <<product, art, faults>> /\ SameOutside

FinishFailed == Settle("fail", "failed", "failed")
DeferUntil == Settle("defer", "waiting_for_resource", "queued")

\* A store call throws: runAvailable drops the error and the row keeps its
\* lease until it runs out.
WorkerThrows ==
    /\ worker.at # "idle"
    /\ Fault
    /\ Finished
    /\ UNCHANGED <<source, jobVars, art>> /\ SameOutside

-----------------------------------------------------------------------------
(* Leases *)

Executing(v, k) == worker.at # "idle" /\ worker.version = v /\ worker.kind = k

\* A lease nobody renews runs out ...
LeaseRunsOut(v, k) ==
    /\ job[<<v, k>>].claim = "live" /\ ~Executing(v, k)
    /\ SetJob(v, k, [job[<<v, k>>] EXCEPT !.claim = "lapsed"])
    /\ UNCHANGED <<source, version, product, art, worker, faults>> /\ SameOutside

\* ... and so does that of a worker that stalls.
LeaseStalls(v, k) ==
    /\ job[<<v, k>>].claim = "live" /\ Executing(v, k)
    /\ Fault
    /\ SetJob(v, k, [job[<<v, k>>] EXCEPT !.claim = "lapsed"])
    /\ UNCHANGED <<source, version, product, art, worker>> /\ SameOutside

\* recoverExpiredClaims of the two stores, at boot: what becomes of a row.
\* A data view's cancellation is left to the worker, which must clean up.
Recovered(k, r) ==
    IF r.state = "running" /\ r.claim = "lapsed"
    THEN Released(r, IF r.attempt < MaxAttempts THEN "queued" ELSE "failed")
    ELSE IF r.state = "cancel_requested" /\ r.claim # "live" /\ k # "view"
    THEN Released(r, "cancelled")
    ELSE r

HealthOf(state) == IF state = "cancelled" THEN "none" ELSE state

\* The same for the states the recovered rows stand for; the data view store
\* recovers last.
RecoveredHealth(rows, v, aspect, old) ==
    LET changed(k) == k \in JobKinds /\ Recovered(k, rows[<<v, k>>]) # rows[<<v, k>>]
        new(k) == HealthOf(Recovered(k, rows[<<v, k>>]).state)
    IN IF aspect = "inspection"
       THEN IF changed("inspect") THEN new("inspect") ELSE old
       ELSE IF changed("view") THEN new("view")
       ELSE IF changed("extract") THEN new("extract") ELSE old

RecoverJobs(rows) ==
    /\ job' = [j \in DOMAIN rows |-> Recovered(j[2], rows[j])]
    /\ version' = [v \in Versions |->
          [there |-> version[v].there,
           inspection |-> RecoveredHealth(rows, v, "inspection", version[v].inspection),
           preparation |-> RecoveredHealth(rows, v, "preparation", version[v].preparation)]]

-----------------------------------------------------------------------------

WorkerStep ==
    \/ RunOne \/ GetTarget \/ Advance \/ Read \/ ReadFails(TRUE) \/ ReadFails(FALSE)
    \/ Finish \/ Cleanup \/ CleanupFails \/ Confirm \/ FinishFailed \/ DeferUntil

JobNext ==
    \/ WorkerStep \/ WorkerThrows
    \/ \E v \in Versions, k \in JobKinds :
           Enqueue(v, k) \/ RequestCancel(v, k) \/ LeaseRunsOut(v, k) \/ LeaseStalls(v, k)

============================================================================
