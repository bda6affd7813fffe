# Ownware gateway: TLA+ verification project

Ownware is a TypeScript monorepo whose core is a *gateway* (`packages/cortex`), a
long-lived Node process that runs AI agents for its users, and *loom*
(`packages/loom`), the agent loop it drives. A run streams a model's output, executes
tool calls, pauses for human permission, and leaves a durable record of what may have
happened. The other packages (`client`, `react`, `ui`, `cli`) present the gateway's API.

This project models the part in which a mistake is expensive and a test is unlikely to
find it: durable rows in SQLite or PostgreSQL, handlers and background workers that
interleave at every `await`, prompts that nobody answers, cancellations, time-outs,
crashes and restarts. Everything is translated from the source; the repository's
ADRs, comments and tests are used only to know what the code is supposed to guarantee.

## 1. Inventory

State kept, operations, interactions, hard behaviours and what correctness means.
Paths are relative to `src/packages/`; `G` is `cortex/src/gateway`.

| Component | State | Operations | Talks to | What is hard | What makes it correct |
|---|---|---|---|---|---|
| Run ledger (`G/run-store.ts`) | `gateway_runs`, permission requests, receipts, consumptions | create, markRunning, markWaiting, advanceConsequence, requestCancel, markTerminal, record/decide/expire/consume permission, recoverInterrupted | every other part; each method is one transaction | late writes after a terminal status; sweeps racing with a consumption | forward-only rows; an approval is spent once, against a receipt; sweeps never touch spent approvals |
| Effect receipts (`G/effect-receipt-store.ts`) | one row per tool call | observe intent/outcome, mark unknown, reconcile | session runner, boot | crash between the effect and its outcome | a finished run admits that something may have happened |
| Session runner (`G/session-runner.ts`) | map of active runs per thread, timers | start, consumeLoop, drainAll | port, ledger, event log | failure of any write between two events, finalizer | observe before pull; one loop per thread; every run is finalized |
| Execution port (`cortex/src/runtime/port.ts`) | phase, pending permissions, consequence reached | start, respond, cancel, close | runner, handlers | phase read before and used after an await | the record reflects what the loop really did |
| Agent loop (`loom/src/core/loop.ts`, `session.ts`) | abort controller, turn state | turns, retries, parallel read-only batch, serial tools, hooks, permission, authorization | port, HITL | the signal is captured after an await | no gated tool runs without a spent approval; cancellation stops it |
| Prompts (`loom/src/permissions/hitl.ts`, `G/hitl-registry.ts`) | open prompts and their timers | requestApproval, respond, time-out, deny all | loop, handlers | an answer racing a time-out | a prompt resolves once and eventually |
| Decision and cancellation routes (`G/handlers/run.ts`) | none of their own | decidePermission, resume, cancelRun, abort | ledger, port, registry | check, await, write | a grant is durable before it is effective |
| Run start and idempotency (`G/handlers/run.ts`, `G/idempotency.ts`) | fence rows per key; process-local maps per thread | claim, linkRun, complete, markIndeterminate; startProfileRun | ledger, runner, event log | retries, racing starts, death between start and response | one run per key, the replayed answer is that run; one loop per thread |
| Boot and shutdown (`G/server.ts`) | none | recover runs, effects, jobs; drainAll | all stores | rows of a dead process | nothing of a dead process looks live |
| Channel procedures (`G/channel-job-store.ts`, `channel-job-worker.ts`, `channel-connect-tool.ts`) | job rows with checkpoint, gate, decision, lease; permanent receipts | enqueue, claim, renew, advance, park, respond, consume, defer, finish, cancel, recover | worker, tool in a chat, boot | leases, competing chats, crash between step and checkpoint | no step behind a consent gate without a person's approval |
| Runtime sources (`G/source-*.ts`, `G/handlers/source-*.ts`) | source and version rows, upload sessions, job leases, derived resources, data views, deletion plan and inventory; quarantine, staging, objects and artifacts on disk | create, append and complete an upload; inspect, extract, build a view; plan, cancel, run and retry a deletion; recover at boot | job worker, deletion worker, grants, protected reads | a deletion racing uploads and leased jobs; bytes moved outside a transaction; a lapsed lease whose worker goes on | acknowledged bytes are there; nothing is lost before destruction, nothing escapes it or comes back; nothing replaced or frozen is served |
| Schedules (`cortex/src/schedules`, `G/handlers/schedules.ts`) | schedule row with its cursor, run rows, the sweep's and each dispatch's place | create, edit, pause, resume, run now, delete; sweep, fire, dispatch, classify, deliver; fail interrupted runs at boot | run start, delivery sink | due rows read before they are fired; catch-up after downtime; death between any two writes | a slot fires at most once and no backlog follows; every run ends; its report is true |
| Held drafts (`cortex/src/schedules/approvals.ts`, `draft-hold.ts`, `G/handlers/approvals.ts`) | one row per held action | hold, claim, execute, finish, discard, recover | scheduled runs, executor | two approvals and a discard racing; death after the claim | a held action is executed at most once, and never when discarded |
| Team runs (`cortex/src/team`) | tasks with owner, status, dependencies; the run; in memory the tick chain, wakes, sessions | goal, tasks, waves, questions, answers, finish; ticks, dispatch, verify rounds, wakes and retries, liveness sweep, cancel, resume | conductor's and members' sessions | ticks, turns, sweeps and restarts write one board from snapshots | dependencies come first; an active task is worked on; the kernel never goes quiet over a board that needs it |
| Candidates and deployment (`G/candidate-store.ts`) | revisions | compare-and-set | run start | concurrent publishes | no lost update |
| Event log and SSE (`G/event-ingestor.ts`, `event-bus.ts`, `sse.ts`) | sequence per thread | append, replay, tail | runner, clients | replay-then-tail | no gap, no duplicate |
| Access grants (`G/access-grant-store.ts`, `protected-source-read.ts`) | grants with expiry | grant, revoke, evaluate, read | sources, loop | a grant checked before and used after an await | a read answers only with what was offered when it took its bytes |
| Egress control, effect reversal, sensitive-input broker | rows with expiry | evaluate, reserve, reverse, reveal once | loop, tools | stale evaluations, one-time use | no use after revocation or expiry |
| Helper agents, zones, compaction, providers, credentials, storage adapters, UI/client/CLI | - | - | - | - | see `PROJECT.json` for why each is left out or deferred |

The gateway is one process per database (`docs/gateway/storage.md`), so the models have
one process that may die and be started again, never two at once. Every method of a
store is one transaction and therefore one atomic step; between two of them every other
actor may move.

## 2. Modules

| Module | Models | Uses |
|---|---|---|
| `RunStore` | run ledger and effect receipts: one action per mutating method | - |
| `RunRecord` | abstract specification of a public run record (ADR-0004): which status may follow which, evidence only grows | - |
| `RunExecution` | one run from acceptance to terminal record: runner, port, loop, prompts, decision and cancellation handlers, crash, boot | extends `RunStore`; implements `RunRecord` |
| `RunIdempotency` | the idempotency fence of `POST /run` | - |
| `RunStart` | several starts on one thread: handler, fence, per-thread maps, event interval, cancel handler, crash, boot | extends `RunStore`, `RunIdempotency`; implements `RunRecord` |
| `ChannelJobs` | job store, worker and `connect_channel`, with lapsing leases, crash, boot | - |
| `SourceLifecycle` | abstract specification of a runtime source: what is offered to readers, what is retired for good, and how far a deletion can be taken back | - |
| `SourceRecord` | the rows and bytes of one source, and what a reader may select | - |
| `SourceJobs` | inspection, extraction and data views as leased jobs, and their worker | extends `SourceRecord` |
| `SourceUploads` | upload sessions: chunks, quarantine, staging, completion, expiry | extends `SourceRecord` |
| `SourceDeletion` | plan, freeze, inventory, the deletion worker, cancellation, retry | extends `SourceRecord` |
| `Sources` | composition of the three with grants, protected reads, crash and boot | extends them; implements `SourceLifecycle` |
| `Schedules` | one schedule: routes, sweep, dispatch, outcome, delivery, crash and boot | - |
| `ScheduleApprovals` | the drafts a scheduled run holds, and the approve and discard routes | extends `Schedules` |
| `TeamBoard` | the tasks of a team run and what the conductor's and members' tools write | - |
| `TeamScheduler` | the kernel: ticks, wakes, sessions, sweep, budget, cancel, crash and resume | extends `TeamBoard` |
| `RunStore_proofs`, `RunExecution_proofs`, `RunStart_proofs`, `ChannelJobs_proofs`, `Schedules_proofs`, `Team_proofs`, `Sources_proofs`, `SourceErasure_proofs` | theorems (section 5) | the modules they are named after; those of a run extend `RunStore_proofs`, `SourceErasure_proofs` extends `Sources_proofs` |
| `MC*` | constants for TLC | |

How to read them against the code:

* **RunStore.** `status`, `consequence`, `perm`, `receipt`, `consumed` and `effect` are
  columns or tables of the same meaning; a permission request is identified by run and
  call. `Create` to `ReconcileInterrupted` carry the methods' names. Timestamps, hashes and
  the activity ledger are left out.
* **RunExecution.** A generator is *pulled*: while the consumer persists an event the loop
  does not move. Consumer, port and loop therefore share one program counter `pc`; each of
  its steps goes from one `await` to the next. The decision handler (`dec`), the
  cancel handler (`can`), prompts' time-outs, the wall-clock timer and shutdown move
  independently of it. `executed` and `gated` are history variables: which
  calls ran, and which prompts were raised for them.
* **RunStart.** `req` and `loop` are the places of a request's handler and of a run's loop,
  `slot`, `runtime` and `port` the per-thread maps of runner and state, `log` the thread's
  root events. The loop's inside is cut down to publishing events.
* **ChannelJobs.** `row` and `receipts` are tables; time is reduced to whether a lease has
  lapsed. `worker` is the place of `execute` and what it has read, `front` the same for each
  call of `connect_channel`. `work` and `answers` are history variables: what was really done
  of a step, and what a person really answered. `outdated` marks jobs whose number of steps is
  not that of the running build.

* **Sources.** Each variable of `SourceRecord` is a table or a kind of file; an upload is named by
  the version it will become. A handler or worker is a record with its place `at` and what it
  has read; each of its steps ends at the next `await` at which something can change. `staged` is
  the sequence of chunks in the staging file, so a repeated or torn append is visible. Bytes are
  moved by steps of their own, apart from the row that refers to them, as in the code. A claim is
  `live`, `lapsed` or `none`; a worker whose lease lapsed goes on until a store method refuses it.
  `reader.seen` is a history variable: whether the thing was offered when the bytes were read.
* **Schedules, ScheduleApprovals.** `sweep` holds the snapshot `getDue` returned, `dispatch` each
  run's background promise, `active` the threads `SessionRunner` knows. `sent` and `effects` are
  history variables: messages that went out, held actions that were really executed. A store call
  that throws in a dispatch is a rejection without a handler, hence a restart.
* **TeamBoard, TeamScheduler.** A task's id is its position on `board`. `due` and `tick` are
  `tickSoon`'s chain, `tick` with the snapshot it works from; `pending` and `awaiting` are
  `pendingWakes` and `awaitingUser`; a session is a slot with its task and its place in
  `runMemberTask`. `sweep` is the stale snapshot of the liveness sweep.

Definitions commented as "Mutant of ..." are faulty variants of the definition that
follows them; they are not part of any specification and exist to show that a property
notices the fault.

## 3. Runs

| Run | Instance | Shows |
|---|---|---|
| `run_store` | two runs, one call | the methods in *any* order (no caller's discipline) keep spent approvals, receipts and forward-only rows |
| `run_execution` | one run, two tool calls, one hook prompt, one decider, one stream recovery, storage may fail | gated tools run only on spent approvals; evidence survives every crash and storage failure; a finished run has no open approval and no moving loop; the record implements `RunRecord` |
| `run_liveness` | one tool call, one hook prompt, working storage, fairness | every accepted run settles; `waiting` is never left behind |
| `run_start` | two retries of a key and one with another body over two restarts, or a keyed and an unkeyed start over one; storage may fail | at most one run per key, and the answer is that run; one loop per thread, each on its own port; the event interval covers the run; the record implements `RunRecord` |
| `channel_jobs` | one job, four steps (work, gate, gate, work), two attempts, two chats, two crashes, storage may fail, fairness | consent before work, one decision per gate, coherent rows, complete successes, ended means idle, forward-only rows, progress |
| `sources` | two versions whose uploads may race, text extraction, one reader, one fault | uploads, jobs, deletion, grants, reads and a crash together implement `SourceLifecycle`; no read answers past a refresh or a freeze that was over before it took its bytes |
| `sources_delete` | one version, two chunks, data views, two attempts, three faults, removals that may fail, fairness | acknowledged bytes are intact; nothing is lost before destruction; no row and no byte escapes the inventory; none comes back, an original only after the removal of its staging file failed; every deletion ends |
| `schedules` | a one-off or daily schedule in catch-up, whose run holds a draft; two approve requests and a discard; one crash | a held action is executed at most once and only when claimed; the run's status and delivery are true |
| `schedules_fire` | an interval with a catch-up window, two runs, one crash, fairness | a slot fires once and no backlog follows; recorded runs end; what is due is dealt with |
| `team` | two members and a verifier, three tasks, two slots | dependencies first; an active task of an active run is worked on; no lost wake-up |
| `erasure_fails` | one version, one chunk, text extraction, one fault | a violation: section 4 |
| `timeout_decides` | one job, one chat, no fault | a violation: section 4 |

Bounds and why they suffice:

* *RunStore*: rows of different runs meet only in the restart sweeps, which treat each run
  by itself; two runs let a sweep meet runs in different states. `EvidenceForOneRun` restricts
  effect evidence to one of them at a time.
* *RunExecution*: two tool calls let a parallel batch, a serial pair and a second prompt
  after a first happen; a hook prompt and a permission prompt can belong to one call.
  `MaxRetry` bounds recoveries of the stream between tool turns. A call id is used
  once, as in the code, so turns are bounded without a counter of their own.
* *RunStart*: a retry needs two requests with one key; misuse needs a third with another
  body; a race needs one run that is not fenced. `MaxBoot` counts starts of the process; three
  let a claim of the first boot meet a retry in the second and a replay in the third.
  The constraint `RetriesOrRace` keeps the two questions apart: once the request without a key has
  come, only one keyed request joins it, and the process starts at most twice.
  `MaxEvents` is one event per loop, enough to tell an interval that is off by one.
* *ChannelJobs*: two adjacent gates are needed for an answer to meet the wrong gate, and a work
  step on each side for work before and after consent. With `MaxAttempts` = 2 (the code: 3) and
  three boots the budget can be spent by retries, by recoveries and by both. All jobs belong
  to one profile and operation, of which only one can be live.
* *Sources*: two versions are needed for a refresh, one for a deletion; the other dimensions are
  spent where the hazard is. `MaxRevision` = 3 lets a deletion be planned, cancelled, and
  planned again. `MaxAttempts` is 1 in `sources`, where attempts do not matter to what is
  offered, and 2 in `sources_delete`, where the budget can be spent by a lapse and by a failure.
  `Stubborn` names the kinds of artifact whose removal may fail: in every run all those that are
  files (`FilesMayStay`). `faults` counts the faults and remembers the uploads whose staging file a
  removal failed to remove, since what an erasure achieves depends on it. With three faults a stall of
  each worker and a crash, or a failing removal and two crashes, happen. Two chunks are the
  least for an append to be repeated, torn or out of place.
* *Schedules*: the units of time are the smallest at which a slot can be missed once
  (`MaxClock` = 2 and an interval of 1) and be inside or outside the window. One run and two
  clicks show the races of a draft; two runs show what one fire means for the next.
  `SetEnabled`, edits, deletion and run-now are always possible.
* *Team*: `MCWaves` has a lone task and a wave in which the first task refers forward to the
  second, the case `file_tasks` patches afterwards; three tasks are a goal and such a wave, or a
  goal, a task and a question. `MaxConcurrent` = 2 (the code: 3) equals the roster. Wake attempts and verify
  rounds have caps of 1 (the code: 3 each), the least at which the cap is reached.
  `MaxDue` = 1: `tickSoon` requests that wait are not told apart. `MaxEvents` = 5 bounds
  conductor turns, tool calls, crashes, failures, cancellations and sweeps together, in any
  mixture. Slots are interchangeable and symmetric.

Deadlock checking is off in `RunStart`, `ChannelJobs`, `Sources`, `Schedules` and `TeamScheduler`,
where the system really may stop: all requests answered, all jobs ended, the source deleted, the
schedule deleted or completed, the team's run over.

Fairness:

* `RunExecution!FairSpec`: weak fairness of the consumer (an `await` that can return
  returns), of the prompt's time-out (a timer that is always set, `hitl.ts`) and of boot (a
  supervisor restarts the gateway). No fairness of deciders, cancellation or the wall-clock
  timer: nobody is obliged to answer.
* `ChannelJobs!FairChannelSpec`: weak fairness of the worker (it polls, and its steps end) and
  of boot. Nobody is obliged to answer a gate or to open a chat, and a lease need not lapse.
  `JobProgresses` therefore ends in "ended, waiting for a person, or orphaned".
* `Sources!FairSourcesSpec`: weak fairness of both workers (they poll every 250 ms and drain what they
  find) and of the passing of leases. Uploads, cancellations, retries of a partial deletion and
  readers are not obliged to come; `DeletionEnds` therefore ends in active, partially deleted or
  deleted.
* `ScheduleApprovals!FairSchedulesSpec`: weak fairness of the sweep (run every minute) and of each
  run's dispatch and end. That a run's thread ends is what `RunSettles` of `RunExecution` shows. Clock,
  users and approvals are not obliged to move.
* `TeamSpec` has no fairness: `NoLostWakeup` is the safety form of "the kernel looks again", which
  is what the code itself controls; whether a member's model ever answers is not.

Refinement: `ImplementsRunRecord` and `StartImplementsRunRecord` instantiate `RunRecord` with
the ledger's own `status` and `consequence`, so the mapping is the identity on two variables; the
content is that no interleaving of runner, handlers, recovery and crash writes a transition ADR-0004
excludes. `ImplementsLifecycle` instantiates `SourceLifecycle` with `phase <- source.deletion`,
`current <- source.current`, `Kinds <- Preparations`, `offered <-` the things the lookups behind a
protected read would select, and `retired <-` everything of replaced versions, everything begun at
an earlier revision and, once destruction started, everything. The mapping is computed from the rows
of five tables, so the content is that no interleaving makes a stale combination of them selectable.

## 4. Where the code and its documentation disagree

Two disagreements have a run of their own, in which TLC finds a behaviour of the code that the
quoted text excludes (`PROJECT.json` has the quotations):

* `timeout_decides`: the time-out of a gate's prompt is recorded as the owner's refusal and ends the
  job.
* `erasure_fails`: a source is reported deleted while its original is on disk. `executeClaim`
  (`G/source-deletion-worker.ts:121-168`) goes on after a removal that failed and verifies in the
  order of kinds, the place of the original before the staging file. If the removal of a staging file
  failed while a completion that was checked before the freeze has yet to rename it, the rename can
  come between the two: the place was verified empty and is then filled, and the staging file is gone
  when its turn comes. TLC needs 21 steps and one fault. `ErasedStaysErased` therefore excepts the
  originals of uploads for which such a removal failed, in its own text; everything else it says holds
  whatever cannot be removed.

The following were met while modelling. The models contain these behaviours, and no property
says otherwise. Paths as in section 1; ADRs are under `docs/architecture/`.

*Runs*

* ADR-0004:56 records `cancelled` when "cancellation was observed by the loop and its finalizer
  completed". A loop that observes its cancellation returns normally (`loom/src/core/loop.ts:538`)
  and the run becomes `succeeded`.
* `G/hitl-registry.ts:16`: "the next loop iteration hits the signal check and exits cleanly".
  `Session.abort()` replaces the controller; an abort before `submitMessage` has read the signal
  (`loom/src/core/session.ts:467`, `:777`; it awaits a compaction first) is lost, and turns follow.
* `G/handlers/run.ts:1069`: the answer to an `approve` hook "comes through the existing POST
  /threads/:id/resume endpoint". The port does not know the prompt, so the routes refuse
  (`G/handlers/run.ts:2600`).
* ADR-0004:49 has `running` rows owned by a process. Two racing starts can delete each other's
  runtime (`G/session-runner.ts:371`); a row then stays `running` with no loop until the next boot.
* `decidePermission` reads the port's phase and then writes `running` (`G/handlers/run.ts:2646`). The
  next prompt may have parked the row in between, so a row can say `running` while a prompt is open.
  `WaitingMeansPaused` is the other direction only.
* The user message of a start that loses a race is ingested before `runner.start` refuses it and
  lies inside the winner's event interval. A cancellation is checked against a run but signalled
  to a thread, where another run may have started in between.
* `G/channel-job-store.ts:726`: "Startup / periodic recovery", but only the boot calls
  `recoverExpiredClaims`; a job under a dead claim blocks its operation until then.

*Sources*

* ADR-0006:158-163 has nothing of a deleted source left. A chunk whose request was checked before
  the freeze is received into quarantine afterwards (`G/handlers/source-uploads.ts:143-180`,
  `G/source-byte-store.ts:174-207`); boot recovery sweeps staging only (`G/server.ts:1634-1650`).
* After a cancelled deletion nothing is enqueued again, and things prepared before stay
  unselectable (their revision is the old one) until a new upload.
* `setInspectionState` and `setPreparationState` leave the row of a frozen source alone, so a
  restored source can show the state before the freeze. Extraction and views share one
  `preparation_state`.
* A cancelled inspection or extraction whose claim has lapsed waits for the next boot.

*Schedules*

* `cortex/src/schedules/runner.ts:268`: "don't pile a new run on a still-running previous one" (and
  `cortex/tests/unit/schedules/runner.test.ts:305`). A skipped slot becomes `last_run_id`, is not
  active, and the next slot therefore starts beside the run that still goes on.
* `fire` works from the snapshot of `getDue`: a schedule paused or edited in between fires with the
  old values and is `scheduled` again. A changed cadence does not move `next_run_at`. Resuming fires
  what was missed as a catch-up.
* If recording a delivery throws after the message went out, the run is put down as not delivered, a
  success as `failed-to-deliver` (`runner.ts:416-428`). `RecordDelivery` does so, and `ReportIsHonest`
  says only that what is reported delivered was sent.
* A crash between the terminal status and the delivery leaves a run `succeeded` and undelivered. A
  store error in a dispatch is an unhandled rejection.
* Deleting a thread makes its pending drafts `indeterminate` when approved, since the operation
  hash covers the thread's id. Deleting a schedule while an approval executes loses its record.
  A run stays `needs-approval` after its drafts were decided.

*Team*

* `cortex/src/team/conductor-tools.ts:361`: "L9's termination rule, enforced". `finish_run` checks, awaits
  and writes; work filed in between is closed over, and `setRunStatus` overwrites any terminal status.
* `conductor-tools.ts:152-153`: "a wave is filed atomically or not at all". The tasks are inserted one by
  one; a crash in between leaves part of a wave.
* `cortex/src/team/lease-gate.ts:2`: "two members physically cannot collide". The gate is in the wrapped
  tool's `validateInput` (`lease-gate.ts:122-147`), which the loop does not call
  (`loom/src/core/loop.ts:2096`).
* The sweep reclaims a task whose session is still being assembled, after which two sessions work on
  it; from its stale snapshot it can also put a failed or blocked task back to ready.
* A verify round is filed from a snapshot, and a verify task that is `done` counts as clean whatever
  its verdict. Dependency cycles and unresolved local ids stall silently; a local id of the form
  "T3" resolves to the existing T3.
* `scheduler.ts:719`: "The next boot's resume path re-queues the task from the board". That boot looks at
  active runs only (`cortex/src/team/module.ts:84`). A run that was failed, cancelled or finished can
  still have a member at work (`failRun` aborts nobody, `scheduler.ts:1150-1166`; `cancelRun` misses
  sessions that are being assembled), and if the process ends or shuts down under it (`:719`, `:753`)
  the task stays active for good. `CrashAndResume` does this in every status of the run;
  `ActiveIsWorked` speaks of active runs.
* A turn that the user began can bring the spend to the cap (`scheduler.ts:265-274`) without anything
  that looks at the board again. If there was something to dispatch, a tick would have come anyway; on
  a board where nothing can move, such as one with a cycle of dependencies, the cap is noticed only at
  the next tick, whatever brings it.
* A failed resume at boot leaves an active run without an engine. A reply of the user that arrives
  before the scan after a wake suppresses wakes. Cancelling does not stop members that are being
  assembled. A throw in the catch of `runMemberTask` is an unhandled rejection.

## 5. Proofs

The theorems hold for every value of the constants: any set of runs, calls, jobs and
chats, any procedure, any number of attempts, boots and crashes.

**`RunStore_proofs`.** `LedgerInvariant` (`RunStoreSpec => []LedgerInv`), where `LedgerInv` is
the conjunction of the type invariant, `SpentApprovalIsReceipted` and `DecisionHasReceipt`. The two
safety properties are inductive only together with each other and the types: expiry leaves a spent
approval alone because it is spent, and a decision is refused once the row is decided.
`SpentApprovalTheorem` and `DecisionReceiptTheorem` follow; `ForwardTheorem` proves the action
property from the same invariant. There are no assumptions on the constants.

**`ChannelJobs_proofs`.** `ChannelInvariant` (`ChannelSpec => []ChannelInv`) under
`ChannelAssumption` (at least one step; gates are steps; bounds are naturals). None of the
properties is inductive by itself. `ConsentBeforeWork` needs

* `PrefixDone`: what lies before a row's checkpoint is approved or finished; so a step that
  begins at checkpoint + 1 has all its gates approved in the receipts;
* `ApprovalsAnswered` and `FrontOK`: a receipt of an approval, and an approval a chat still
  carries, stem from a person's answer;
* `WorkerOwns`: the worker acts only under the claim of the row in its hand, and the
  checkpoint it remembers is the row's;
* `Coherent`: a recorded approval is for the gate the job stands at, so consuming it passes
  that gate and no other.

`OneDecisionPerGate` needs `Decided`: a refusal has ended the job, and an approval is on the row
until its gate is passed or the job is on its way out. The last part is what makes parking the
job at the same gate again impossible. The proof has one lemma per action; `OneRowKeeps` and
`RowWritten` carry what a write to one row leaves of everything else, `WorkerMoves` and
`FrontMoves` the same for steps that write nothing, and `RecoveredRow` describes the boot's
sweep. `ConsentTheorem`, `OneDecisionTheorem`, `CoherenceTheorem`, `CompletenessTheorem`,
`IdleTheorem` and `ChannelTypes` follow, and `ForwardJobsTheorem` from the same step lemmas.

**`RunExecution_proofs`.** Under `ExecutionAssumption` (the run is one of the runs; its calls are
tool calls and prompts raised by hooks, and no call is both; the retry bound is a natural), `ExecInvariant` is `Spec => []ExecInv`. First `ExecCallsStore`: every
step of runner, port, loop, handlers, crash and boot is one method of the ledger or leaves it alone. So
`ExecUsesLedger` holds (`Spec => RunStoreSpec`), and with it every theorem of the ledger carries
over; `LedgerInv` is a part of `ExecInv`. The other parts:

* `HandsFull`, `TurnKept`: the call in hand is one still to do, a call is taken once in a
  run's life, and one that has run is not to be done again (outside the recording of a batch);
* `GateKept`: a prompt raised for the call in hand is either the one being asked or spent, and the
  call has not run yet. This makes `GatedToolSpentApproval` inductive;
* `EvidenceKept`: the durable intent of a call precedes it and stays "pending" until its outcome is
  in the row at full weight, or until what ends the run (finalizer, boot) gives it up and raises the
  consequence in the same step (`Accounted`). `EvidenceSurvives` follows; it is not inductive, because
  a run has many steps in which the row says nothing yet;
* `FinishedRunIsClosed` and `PlaceKept`: how far the row can be from the place of the loop.

The proof goes by what a step does to the turn: `ExecMoves` shows that each of them is a plain move, a
loss of the locals, or one of nine named steps, and only those need a proof of their own.
`GateTheorem`, `EvidenceTheorem`, `FinishedTheorem` follow. `WaitingTheorem` has the hypothesis that storage
does not fail (`~StorageMayFail`, as in the run that checks it): with a failing `markRunning` a row
stays "waiting" although the loop goes on. `ExecRefinement` is the step simulation of `RunRecord`: the
statuses a step may write are those `RunRecord` lets follow, and evidence never shrinks.

**`RunStart_proofs`.** Under `StartAssumption` (keys and bodies of the requests, at least one boot),
`StartInvariant` is `StartSpec => []StartInv`; `StartUsesLedger` as above. `OneRunPerKey` needs `FenceKept` (whoever
is past the fence, or has a row, finds its claim there and is alone with that key); `AnswerIsTheRun` needs
`CompletedIsStarted` (a completed claim names a run with this key and body that has a row and a
loop), `OneLoopPerThread` needs `PlacesAgree` and `MapsAgree` (slot, port and loop), `IntervalCovers` needs
`EventsBounded`: at every moment a run's events lie behind its first bound, a run before its first
message has none, and once the second bound was read no event is added. `OneRunPerKeyTheorem`,
`AnswerTheorem`, `OneLoopTheorem`, `IntervalTheorem` follow, and `StartRefinement` for `RunRecord`.

**`Schedules_proofs`.** Under `ScheduleAssumption` (the policies are those of the code; times and
bounds are naturals; an interval and a day are not zero). `SchedulesInv` is the types with `CursorKept` (also
what a sweep has read, and not only the row, lies ahead of every slot fired: the sweep acts on a
stale snapshot), `FenceHeld` (a draft being executed is in the hands of one click, and its effect is
counted as far as that click has come) and `JudgedLast` (a run's outcome is judged after its draft was
recorded). `NextRunLater` is the lemma about the arithmetic of cadences: `computeNextRun` returns an
instant strictly after the one it is given, or none. `SchedulesTypes`, `FiringTheorem`,
`HeldActionTheorem` and `ReportTheorem` follow.

**`Team_proofs`.** Under `TeamAssumption` and `SchedulerAssumption` (the verifier and
"nobody" are no members; a wave is a non-empty sequence of tasks with owners; there is a session slot;
caps are naturals). `DependenciesFirst`
needs `WaveKept`, the least obvious part of `TeamInv`: while a wave is filed, every task filed so far is
one of its own and carries the placeholder `Unresolved` until its forward references are
resolved, so that no task with a reference still to come can be dispatched in between. `TickKept` says what
a tick has read and still relies on after its awaits. `ActiveIsWorked` is inductive with
`SessionsKept`; it speaks of active runs, since of a closed one the code does not keep it (section 4).
A run that is not active never becomes active again, so a crash under a closed run does not disturb it.
`NoLostWakeup` needs `LookKept`: unless something else will look at the board (`Covered`), the
tick under way knows exactly what there is to do, and without a tick there is nothing to do. Since a tick looks
for the first task of several, `MinIn` proves that a non-empty finite set of numbers has a least one, from
the well-foundedness of the strict subset order. `DependenciesTheorem`, `ActiveTheorem` and
`WakeupTheorem` follow.

**`Sources_proofs`.** Under `SourceAssumption` (the null version is none; preparations are extraction and
views; a chunk and an attempt at least; bounds are naturals). No step of a source needs the whole
invariant, so the proof goes by what a step does to the rest: a job step rewrites or requests one row
and leaves the source's life alone (`JobEffects`); an upload step leaves the source alone or refreshes it
(`UploadEffects`); a step of the deletion is one of eight moves (`DeletionLife`); a restart keeps rows,
revisions and phase but may leave a destruction partial (`RestartRows`). The parts of `SourcesInv` are

* `PhaseKept`: the phase, the deletion's row and its worker agree, and once a source is not active no
  upload is open and no job is pending, although their handlers and workers are still under way;
* `RevisionsKept`: no job has a revision above the source's, and in a source that is not active
  every job is below it; so a cancelled deletion offers nothing that was begun before it. A
  version is new until the upload that makes it finishes, so it is made only once;
* `ReadsKept`: what a read has missed (the source had moved on when it took the bytes) is retired
  and, since nothing retired returns, the second lookup will refuse it. Without that,
  `AnswerWasOffered` is not inductive: the two lookups alone do not exclude that the thing went
  away and came back between them;
* `BytesKept`: how far the staging file is ahead of the checkpoint, by the place of the handler.

`SourcesTypes`, `AnswersWereOffered` and `AcceptedBytes` follow. `SourcesRefinement` is the step
simulation of `SourceLifecycle` by the same kinds of step: retirement is shown to be kept by all of them
and to grow by exactly what a refresh or a freeze retires.

**`SourceErasure_proofs`.** What becomes of the bytes of a source. `ErasureInv` (`ErasureInvariant`) is
`SourcesInv` with

* `OriginalsKept`: how the place of a version's original, its staging file, its upload row and the
  place of its handler go together. A completion that verified the staging file itself is the only
  one to touch that file before the rename, so what becomes a version is whole; and until destruction
  starts an original that is in its place has an upload row that says so (`pending`);
* `ViewsKept`: until destruction starts a job row stands behind every artifact of a view, every product and
  whatever the worker has in hand, so the inventory finds them through the row;
* `ListKept`: in a frozen source the inventory is the one `collectInventory` would take now, and from
  then on it lists all there is *and all that handlers and workers still under way could bring about*
  (`Listed`). Without the last part `NothingEscapesInventory` is not inductive: a completion that was
  checked before the freeze places its original after the list was taken.

`NothingLost` and `NothingEscapes` follow. The lemmas go by what a step may do to a source that is not
active (`Shrinks`: rows, products and bytes only go, except for what was under way).

`ErasedForGood` has an invariant of its own, `ErasedInv`. What was verified absent stays so because
nothing is left that could bring it back, and that must be known already at the verification: the
staging file of every upload has been removed *before* anything is verified, or its removal is on
record as failed (`PassKept`). In the first case a late rename has nothing to rename and a late append no
chunk (`Swept`, which no step of a source that is not active undoes: `Sinks`); the second is the exception
the property makes for originals, and since the record only grows (`StepRemembers`) the exception is made
once and for all. Even then a deleted source has nothing staged: it was reported deleted only after every
staging file was verified absent. Since claiming the deletion waits for cancelled view jobs, no worker
has a view in hand once destruction started (`ViewsStopped`). The theorem has no hypothesis on
`Stubborn`; that the exception is needed is what `erasure_fails` shows.

**Only model-checked.** Liveness (`RunSettles`, `JobProgresses`, `DeletionEnds`, `RunEnds`,
`DueIsHandled`), since the prover has no rule for fairness. The types of Boolean
variables and flags of `RunExecution` are not part of its type invariant.

## 6. Not modelled

*Left out of the models that exist.* Timestamps and durations other than "lapsed", "due" or "timed
out"; model output beyond whether there was any and which calls it announced; credential and
sensitive-input prompts; helpers spawned by tools; wording, titles and thread status; the widening
of a grant by "always"; the contract checks for external drivers (the gateway constructs only the
built-in one); what the WhatsApp steps do outside. A step's external work is "begun" or "finished";
that a repeated step is idempotent is up to the step.

Of sources: the removal of an artifact's bytes, of its row and the mark in the inventory are one step
(each is idempotent, and a retry repeats all three); checksums, quotas, refusals by size or type, what parsing makes of the bytes, the
evidence-search cache, catalogue and listing routes, several sources at once, the idempotency of
these routes. Of schedules: cron and time-zone arithmetic, weekends and holidays, what a channel does
with a message; several drafts of one run. The policies `skip`, `allow` and `silent` are in the model
and in no checked instance. Of team runs: digests, prompts, receipts, amounts of money, team
management and the roster's changes, leases (section 4). Its storage always works and no two writes
fall in one millisecond; the sweep's timer is always armed; a crash and the resume at the next boot
are one step, and so are the end of a session's last turn with the kernel's verdict, and a
retry timer with the wake it delivers.

*Components not modelled.* `PROJECT.json` lists every component with its status and reason:
presentation (UI, client, CLI, most of the repository's lines), network adapters, SQL dialects and
migrations have no protocol of their own; candidates, the event log, egress, effect reversal, the
sensitive-input broker, OAuth refresh and helper agents are in the plan.

## 7. Plan

Done, in this order: ledger, execution of one run, start of runs, channel procedures; runtime
sources with grants and protected reads; schedules and held drafts; team runs; the proofs of their
safety properties (section 5).

Next:

1. `EventLog`: ingest, retention, replay-then-tail for SSE; no gap, no duplicate.
2. `Deployment`: compare-and-set of candidates and the pinning of a run to a revision.
3. The coordinator of OAuth refreshes (`cortex/src/credential`).
4. The rest of access grants, and effect reversal, as extensions of `RunStore`; the sensitive-input
   broker; `abandon` and `linkSourceMutation` of the fence with the routes that use them.
5. Helper agents; `RunExecution` for two consecutive runs of a thread, for a cancellation that reaches
   the successor, and for prompts that a tool raises itself.
