------------------------------ MODULE RunStart ------------------------------
(***************************************************************************)
(* Starting runs on one conversation thread: the POST /run handler and     *)
(* startProfileRun (handlers/run.ts), the fence of RunIdempotency, the     *)
(* process-local maps the runner and the state keep per thread, and the    *)
(* bracket that the background loop puts around a run (session-runner.ts). *)
(* What the loop does inside the bracket is RunExecution's subject; the    *)
(* thread's displayed status, title and messages are left out.             *)
(*                                                                         *)
(* Requests race: nothing holds the thread between the check that no run   *)
(* is active and the call of runner.start.  A request is identified with   *)
(* the run id it mints, if it comes that far.                              *)
(***************************************************************************)
EXTENDS RunStore, RunIdempotency, Sequences

CONSTANTS
    KeyOf,          \* Idempotency-Key of a request, Nobody without one
    BodyOf,         \* its body
    MaxBoot,        \* boots of the gateway
    MaxEvents,      \* events a loop publishes
    StorageMayFail  \* whether a database call may throw

ASSUME StartAssumption ==
    /\ Holder = Runs
    /\ KeyOf \in [Runs -> Keys \cup {Nobody}]
    /\ BodyOf \in [Runs -> Bodies]
    /\ MaxBoot \in Nat \ {0} /\ MaxEvents \in Nat
    /\ StorageMayFail \in BOOLEAN

VARIABLES
    req,     \* where the handler of a request is
    told,    \* the run id of its 200 response
    loop,    \* where the loop of a run is
    drives,  \* the run whose execution port that loop drives
    slot,    \* SessionRunner.runs of the thread
    runtime, \* the run whose start set GatewayState.runtimes of the thread
    port,    \* the run whose execution port is published there
    log,     \* root events of the thread, each as the run it belongs to
    startSeq, endSeq, \* the bounds read for the row of a run, -1 before
    cancel,  \* the cancel handler: where it is and its run
    boot,    \* lease of the current process
    serving  \* the gateway is up

reqVars == <<req, told, cancel>>
loopVars == <<loop, drives>>
mapVars == <<slot, runtime, port>>
logVars == <<log, startSeq, endSeq>>
procVars == <<boot, serving>>
startVars == <<storeVars, fence, reqVars, loopVars, mapVars, logVars, procVars>>

-----------------------------------------------------------------------------

Starting == {"preflight", "seq", "create", "message", "launch", "link", "complete"}
Looping == {"boot", "lookup", "run", "drop", "seq", "finish", "leave"}

NoCancel == [at |-> "idle", r |-> Nobody]

FenceRow == [state : {"none", "in_progress", "completed", "indeterminate"},
             body : Bodies \cup {Nobody}, lease : 0..MaxBoot,
             run : Runs \cup {Nobody}, result : Runs \cup {Nobody}]

StartTypeOK ==
    /\ RunStoreTypeOK
    /\ fence \in [Keys -> FenceRow]
    /\ req \in [Runs -> {"idle", "claim", "check", "giveup", "done"} \cup Starting]
    /\ told \in [Runs -> Runs \cup {Nobody}]
    /\ loop \in [Runs -> {"none", "gone"} \cup Looping]
    /\ drives \in [Runs -> Runs \cup {Nobody}]
    /\ {slot, runtime, port} \subseteq Runs \cup {Nobody}
    /\ log \in Seq(Runs)
    /\ startSeq \in [Runs -> -1..Len(log)]
    /\ endSeq \in [Runs -> -1..Len(log)]
    /\ cancel \in [at : {"idle", "persist", "done"}, r : Runs \cup {Nobody}]
    /\ boot \in 1..MaxBoot
    /\ serving \in BOOLEAN

StartInit ==
    /\ RunStoreInit
    /\ FenceInit
    /\ req = [r \in Runs |-> "idle"]
    /\ told = [r \in Runs |-> Nobody]
    /\ loop = [r \in Runs |-> "none"]
    /\ drives = [r \in Runs |-> Nobody]
    /\ slot = Nobody /\ runtime = Nobody /\ port = Nobody
    /\ log = <<>>
    /\ startSeq = [r \in Runs |-> -1] /\ endSeq = [r \in Runs |-> -1]
    /\ cancel = NoCancel
    /\ boot = 1 /\ serving = TRUE

\* The handler of r, or its loop, moves from one await to the next.
ReqGo(r, from, to) == serving /\ req[r] = from /\ req' = [req EXCEPT ![r] = to]
LoopGo(r, from, to) == serving /\ loop[r] = from /\ loop' = [loop EXCEPT ![r] = to]

-----------------------------------------------------------------------------
(* POST /run *)

Keyed(r) == KeyOf[r] # Nobody

\* Without a key there is no fence to pass.
Receive(r) ==
    /\ ReqGo(r, "idle", IF Keyed(r) THEN "claim" ELSE "check")
    /\ UNCHANGED <<storeVars, fence, told, cancel, loopVars, mapVars, logVars, procVars>>

ClaimKey(r) ==
    /\ req[r] = "claim"
    /\ \E kind \in Claims(KeyOf[r], BodyOf[r], boot) :
         /\ Claim(KeyOf[r], BodyOf[r], boot, kind)
         /\ ReqGo(r, "claim", IF kind = "claimed" THEN "check" ELSE "done")
         /\ told' = [told EXCEPT ![r] = IF kind = "replay" THEN fence[KeyOf[r]].result ELSE @]
    /\ UNCHANGED <<storeVars, cancel, loopVars, mapVars, logVars, procVars>>

CheckIdle(r) ==
    /\ ReqGo(r, "check", IF slot = Nobody THEN "preflight" ELSE "giveup")
    /\ UNCHANGED <<storeVars, fence, told, cancel, loopVars, mapVars, logVars, procVars>>

\* Profile, thread and session are resolved; the thread's runtime is replaced,
\* whoever set it, by one without an execution port.
SetRuntime(r) ==
    /\ ReqGo(r, "preflight", "seq")
    /\ runtime' = r /\ port' = Nobody
    /\ UNCHANGED <<storeVars, fence, told, cancel, loopVars, slot, logVars, procVars>>

\* Mutant of ReadStartSeq: the next sequence number instead of the last.
ReadNextSeq(r) ==
    /\ ReqGo(r, "seq", "create")
    /\ startSeq' = [startSeq EXCEPT ![r] = Len(log) + 1]
    /\ UNCHANGED <<storeVars, fence, told, cancel, loopVars, mapVars, log, endSeq, procVars>>

ReadStartSeq(r) ==
    /\ ReqGo(r, "seq", "create")
    /\ startSeq' = [startSeq EXCEPT ![r] = Len(log)]
    /\ UNCHANGED <<storeVars, fence, told, cancel, loopVars, mapVars, log, endSeq,
                   procVars>>

CreateRun(r) ==
    /\ ReqGo(r, "create", "message")
    /\ Create(r)
    /\ UNCHANGED <<fence, told, cancel, loopVars, mapVars, logVars, procVars>>

\* A paused or undeployed profile: the thread's runtime is deleted.
RefuseRun(r) ==
    /\ ReqGo(r, "create", "giveup")
    /\ runtime' = Nobody /\ port' = Nobody
    /\ UNCHANGED <<storeVars, fence, told, cancel, loopVars, slot, logVars, procVars>>

IngestUserMessage(r) ==
    /\ ReqGo(r, "message", "launch")
    /\ log' = Append(log, r)
    /\ UNCHANGED <<storeVars, fence, told, cancel, loopVars, mapVars, startSeq, endSeq,
                   procVars>>

\* Mutant of Launch: runner.start trusts the earlier check.
LaunchAnyway(r) ==
    /\ ReqGo(r, "launch", "link")
    /\ slot' = r
    /\ loop' = [loop EXCEPT ![r] = "boot"]
    /\ UNCHANGED <<storeVars, fence, told, cancel, drives, runtime, port, logVars, procVars>>

\* runner.start throws if the thread has an active run by now.
Launch(r) ==
    /\ \/ /\ slot = Nobody
          /\ ReqGo(r, "launch", "link")
          /\ slot' = r
          /\ loop' = [loop EXCEPT ![r] = "boot"]
       \/ /\ slot # Nobody
          /\ ReqGo(r, "launch", "giveup")
          /\ UNCHANGED <<slot, loop>>
    /\ UNCHANGED <<storeVars, fence, told, cancel, drives, runtime, port, logVars, procVars>>

LinkKey(r) ==
    /\ \/ /\ Keyed(r)
          /\ LinkRun(KeyOf[r], boot, r)
          /\ ReqGo(r, "link", "complete")
          /\ UNCHANGED told
       \/ /\ ~Keyed(r)
          /\ ReqGo(r, "link", "done")
          /\ told' = [told EXCEPT ![r] = r]
          /\ UNCHANGED fence
    /\ UNCHANGED <<storeVars, cancel, loopVars, mapVars, logVars, procVars>>

CompleteKey(r) ==
    /\ ReqGo(r, "complete", "done")
    /\ Complete(KeyOf[r], boot, r)
    /\ told' = [told EXCEPT ![r] = r]
    /\ UNCHANGED <<storeVars, cancel, loopVars, mapVars, logVars, procVars>>

\* A preflight step or a database call throws.
StartFails(r) ==
    /\ req[r] \in IF StorageMayFail THEN Starting ELSE {"preflight"}
    /\ ReqGo(r, req[r], "giveup")
    /\ UNCHANGED <<storeVars, fence, told, cancel, loopVars, mapVars, logVars, procVars>>

\* The claim is never released: nobody can prove that nothing happened.
GiveUp(r) ==
    /\ ReqGo(r, "giveup", "done")
    /\ IF Keyed(r) THEN MarkIndeterminate(KeyOf[r]) ELSE UNCHANGED fence
    /\ UNCHANGED <<storeVars, told, cancel, loopVars, mapVars, logVars, procVars>>

-----------------------------------------------------------------------------
(* The bracket of consumeLoop *)

BeginLoop(r) ==
    /\ LoopGo(r, "boot", "lookup")
    /\ MarkRunning(r)
    /\ UNCHANGED <<fence, reqVars, drives, mapVars, logVars, procVars>>

\* No runtime: the loop returns before its try block, so nothing finalizes.
\* Otherwise a port that is already published is used, or else a new one is.
LookupRuntime(r) ==
    /\ \/ /\ runtime = Nobody
          /\ LoopGo(r, "lookup", "leave")
          /\ UNCHANGED <<drives, port>>
       \/ /\ runtime # Nobody
          /\ LoopGo(r, "lookup", "run")
          /\ port' = IF port = Nobody THEN r ELSE port
          /\ drives' = [drives EXCEPT ![r] = port']
    /\ UNCHANGED <<storeVars, fence, reqVars, slot, runtime, logVars, procVars>>

EventsOf(r) == SelectSeq(log, LAMBDA x : x = r)

PublishEvent(r) ==
    /\ LoopGo(r, "run", "run")
    /\ Len(EventsOf(r)) <= MaxEvents
    /\ log' = Append(log, r)
    /\ UNCHANGED <<storeVars, fence, reqVars, drives, mapVars, startSeq, endSeq, procVars>>

EndLoop(r) ==
    /\ LoopGo(r, "run", "drop")
    /\ UNCHANGED <<storeVars, fence, reqVars, drives, mapVars, logVars, procVars>>

\* The thread's runtime is deleted, whoever set it.
DeleteRuntime(r) ==
    /\ LoopGo(r, "drop", "seq")
    /\ runtime' = Nobody /\ port' = Nobody
    /\ UNCHANGED <<storeVars, fence, reqVars, drives, slot, logVars, procVars>>

ReadEndSeq(r) ==
    /\ LoopGo(r, "seq", "finish")
    /\ endSeq' = [endSeq EXCEPT ![r] = Len(log)]
    /\ UNCHANGED <<storeVars, fence, reqVars, drives, mapVars, log, startSeq, procVars>>

FinishLoop(r) ==
    /\ LoopGo(r, "finish", "leave")
    /\ \E s \in {"succeeded", "failed"} : MarkTerminal(r, s, NoneObserved)
    /\ UNCHANGED <<fence, reqVars, drives, mapVars, logVars, procVars>>

\* Storage is gone during the final bookkeeping: the row stays as it is.
FinishFails(r) ==
    /\ StorageMayFail
    /\ loop[r] \in {"boot", "seq", "finish"}
    /\ LoopGo(r, loop[r], "leave")
    /\ UNCHANGED <<storeVars, fence, reqVars, drives, mapVars, logVars, procVars>>

LeaveSlot(r) ==
    /\ LoopGo(r, "leave", "gone")
    /\ slot' = Nobody
    /\ UNCHANGED <<storeVars, fence, reqVars, drives, runtime, port, logVars, procVars>>

-----------------------------------------------------------------------------
(* POST /runs/:runId/cancel.  The signal that follows goes to the thread and
   can reach a later run; a loop here ends at any moment anyway. *)

CancelCheck(r) ==
    /\ serving /\ cancel.at = "idle"
    /\ status[r] \in Live /\ slot = r
    /\ cancel' = [at |-> "persist", r |-> r]
    /\ UNCHANGED <<storeVars, fence, req, told, loopVars, mapVars, logVars, procVars>>

CancelDurably ==
    /\ serving /\ cancel.at = "persist"
    /\ RequestCancel(cancel.r)
    /\ cancel' = [cancel EXCEPT !.at = "done"]
    /\ UNCHANGED <<fence, req, told, loopVars, mapVars, logVars, procVars>>

-----------------------------------------------------------------------------
(* Crash and boot *)

Crash ==
    /\ serving /\ boot < MaxBoot
    /\ serving' = FALSE
    /\ boot' = boot + 1
    /\ req' = [r \in Runs |-> IF req[r] = "idle" THEN "idle" ELSE "done"]
    /\ loop' = [r \in Runs |-> IF loop[r] = "none" THEN "none" ELSE "gone"]
    /\ slot' = Nobody /\ runtime' = Nobody /\ port' = Nobody
    /\ cancel' = IF cancel = NoCancel THEN NoCancel ELSE [cancel EXCEPT !.at = "done"]
    /\ UNCHANGED <<storeVars, fence, told, drives, logVars>>

RecoverRuns ==
    /\ ~serving
    /\ RecoverInterrupted
    /\ serving' = TRUE
    /\ UNCHANGED <<fence, reqVars, loopVars, mapVars, logVars, boot>>

-----------------------------------------------------------------------------

Handler(r) ==
    \/ Receive(r) \/ ClaimKey(r) \/ CheckIdle(r) \/ SetRuntime(r) \/ ReadStartSeq(r)
    \/ CreateRun(r) \/ RefuseRun(r) \/ IngestUserMessage(r) \/ Launch(r)
    \/ LinkKey(r) \/ CompleteKey(r) \/ StartFails(r) \/ GiveUp(r)

Loop(r) ==
    \/ BeginLoop(r) \/ LookupRuntime(r) \/ PublishEvent(r) \/ EndLoop(r)
    \/ DeleteRuntime(r) \/ ReadEndSeq(r) \/ FinishLoop(r) \/ FinishFails(r) \/ LeaveSlot(r)

StartNext ==
    \/ \E r \in Runs : Handler(r) \/ Loop(r) \/ CancelCheck(r)
    \/ CancelDurably \/ Crash \/ RecoverRuns

StartSpec == StartInit /\ [][StartNext]_startVars

-----------------------------------------------------------------------------
(* Properties *)

\* ADR-0003: an idempotency key starts at most one run, through retries that race
\* each other, refusals, failures half way and restarts.
OneRunPerKey ==
    \A r, s \in Runs :
        (Keyed(r) /\ KeyOf[r] = KeyOf[s] /\ status[r] # "absent" /\ status[s] # "absent") => r = s

\* A 200 response, original or replayed, names the run that the key of the
\* request really started, with the body it was sent with.
AnswerIsTheRun ==
    \A r \in Runs : told[r] # Nobody =>
        /\ loop[told[r]] # "none" /\ status[told[r]] # "absent"
        /\ KeyOf[told[r]] = KeyOf[r]
        /\ Keyed(r) => BodyOf[told[r]] = BodyOf[r]
        /\ ~Keyed(r) => told[r] = r

\* At most one loop runs on the thread, and it is the one the runner lists: two
\* starts that both saw an idle thread never both get through, and however they
\* overwrite and delete each other's runtime, it never drives another run's port.
OneLoopPerThread ==
    \A r \in Runs : loop[r] \in Looping => slot = r /\ drives[r] \in {r, Nobody}

\* The recorded interval of a finished run contains every event of that run, its
\* user message first (startSeq is read before it, endSeq after the last event).
IntervalCovers ==
    \A r \in Runs : status[r] \in {"succeeded", "failed"} =>
        \A i \in 1..Len(log) : log[i] = r => startSeq[r] < i /\ i <= endSeq[r]

\* Every record follows ADR-0004's state machine, whatever the races.
StartRecord == INSTANCE RunRecord
StartImplementsRunRecord == StartRecord!RecordSpec
=============================================================================
