---------------------------- MODULE RunExecution ----------------------------
(***************************************************************************)
(* One run from its acceptance to its terminal record: the background      *)
(* consumer of the gateway (session-runner.ts), the execution port         *)
(* (runtime/port.ts), the agent loop behind it (loom core/loop.ts), the    *)
(* human-in-the-loop prompt (loom permissions/hitl.ts) and the HTTP        *)
(* handlers that decide, resume, cancel and abort (handlers/run.ts), over  *)
(* the durable rows of RunStore, with crashes and the recovery at boot.    *)
(*                                                                         *)
(* The gateway is one Node process: a step runs from one await to the      *)
(* next.  A generator is pulled, so the loop does not move while the       *)
(* consumer persists the event it has just yielded; that is why consumer,  *)
(* port and loop share one program counter.                                *)
(*                                                                         *)
(* The runtime is the built-in driver, the only one the gateway constructs.*)
(* Helpers spawned by a tool, credential prompts and sensitive-input       *)
(* prompts are left out; model output is cut down to whether there was any *)
(* and which tool calls it announced.                                      *)
(***************************************************************************)
EXTENDS RunStore

CONSTANTS
    Run,            \* the run
    ToolCalls,      \* tool call ids the model may use; each is its own request id
    HookPrompts,    \* request ids minted for "approve" hooks
    NoCall,         \* no call
    Deciders,       \* concurrent decision requests
    MaxRetry,       \* recoveries of the model stream between two tool turns
    StorageMayFail  \* whether a write of the consumer may throw

ASSUME ExecutionAssumption ==
    /\ Run \in Runs
    /\ Calls = ToolCalls \cup HookPrompts
    /\ ToolCalls \cap HookPrompts = {}
    /\ NoCall \notin Calls
    /\ MaxRetry \in Nat
    /\ StorageMayFail \in BOOLEAN

VARIABLES
    \* consumer and loop
    pc,       \* where they are
    cur,      \* the tool call in hand
    prompt,   \* the permission request in hand
    answer,   \* what its prompt resolved to
    todo,     \* tool calls of this turn still to handle
    used,     \* call and prompt ids already taken
    batch,    \* read-only calls run in parallel whose outcome is not published yet
    retries,  \* recoveries since the last tool turn
    cached,   \* whether the outcome in hand was replayed from the cache
    result,   \* MutableRun.status once the event stream is over
    errored,  \* MutableRun.errorEventMessage is set
    \* ManagedExecutionRuntime
    phase, pending, reached,
    \* session and process
    aborted,  \* the signal the loop captured is aborted
    timer,    \* the wall-clock timer is armed
    live,     \* the thread has a runtime
    active,   \* the runner lists the run
    gateway,  \* "up", "down" or "recovering"
    \* HTTP handlers
    dec, can,
    \* observations
    executed, \* tool calls whose tool ran
    gated     \* <<call, prompt>> for every prompt raised on behalf of a call

handVars == <<cur, prompt, answer, cached>>
turnVars == <<todo, used, retries, batch>>
fateVars == <<result, errored>>
loopVars == <<pc, handVars, turnVars, fateVars>>
portVars == <<phase, pending, reached>>
procVars == <<aborted, timer, live, active, gateway>>
handlerVars == <<dec, can>>
seenVars == <<executed, gated>>
vars == <<storeVars, loopVars, portVars, procVars, handlerVars, seenVars>>

-----------------------------------------------------------------------------
(* Vocabulary *)

Prompting == {"record", "wait", "park", "parked", "respond", "unpark", "authorize"}

\* submitMessage has read the abort signal: an abort now reaches the loop.
Captured == {"top", "stream", "tools", "batch", "policy", "exec", "toolEnd"} \cup Prompting

Finalizing == {"close", "drop", "unknown", "finish"}

Where == {"off", "accepted", "boot", "install", "start", "drain", "returned",
          "leave", "done", "dead"} \cup Captured \cup Finalizing

\* A decision request: where its handler is, and what it decides.
Decision == [at : {"idle", "decide", "deliver", "expire", "finish", "mark", "done"},
             p : Calls \cup {NoCall}, v : Verdict, route : {"decide", "resume"}]

\* A decision request with nothing in hand.
Blank(at) == [at |-> at, p |-> NoCall, v |-> "denied", route |-> "decide"]

\* answer, cached, errored, aborted, timer, live and active are Booleans.
ExecTypeOK ==
    /\ RunStoreTypeOK
    /\ pc \in Where
    /\ cur \in ToolCalls \cup {NoCall}
    /\ prompt \in Calls \cup {NoCall}
    /\ todo \subseteq ToolCalls
    /\ used \subseteq Calls
    /\ batch \subseteq todo
    /\ retries \in 0..MaxRetry
    /\ result \in {"running", "completed", "aborted", "timeout", "error"}
    /\ phase \in {"none", "idle", "running", "waiting_permission", "cancelling",
                  "completed", "failed", "closed"}
    /\ pending \subseteq ToolCalls
    /\ reached \in Consequence
    /\ gateway \in {"up", "down", "recovering"}
    /\ dec \in [Deciders -> Decision]
    /\ can \in {"idle", "persist", "signal", "signalled", "done"}
    /\ executed \subseteq ToolCalls
    /\ gated \subseteq ToolCalls \X Calls

Init ==
    /\ RunStoreInit
    /\ pc = "off" /\ cur = NoCall /\ prompt = NoCall /\ answer = FALSE
    /\ todo = {} /\ used = {} /\ retries = 0 /\ batch = {} /\ cached = FALSE
    /\ result = "running" /\ errored = FALSE
    /\ phase = "none" /\ pending = {} /\ reached = NoneObserved
    /\ aborted = FALSE /\ timer = FALSE /\ live = FALSE /\ active = FALSE
    /\ gateway = "up"
    /\ dec = [d \in Deciders |-> Blank("idle")] /\ can = "idle"
    /\ executed = {} /\ gated = {}

\* The consumer moves from one place to another.
Go(from, to) == gateway = "up" /\ pc = from /\ pc' = to

\* The locals of a generator that returned, was abandoned or died are gone.
ForgetLocals ==
    /\ cur' = NoCall /\ prompt' = NoCall /\ answer' = FALSE /\ cached' = FALSE
    /\ todo' = {} /\ retries' = 0 /\ batch' = {}

-----------------------------------------------------------------------------
(* Start of a run *)

\* startProfileRun: the thread's runtime is set, then the row is created.
AcceptRun ==
    /\ Go("off", "accepted")
    /\ Create(Run)
    /\ live' = TRUE
    /\ UNCHANGED <<handVars, turnVars, fateVars, portVars, aborted, timer, active, gateway,
                   handlerVars, seenVars>>

StartRunner ==
    /\ Go("accepted", "boot")
    /\ active' = TRUE
    /\ UNCHANGED <<storeVars, handVars, turnVars, fateVars, portVars, aborted, timer, live,
                   gateway, handlerVars, seenVars>>

BeginRun ==
    /\ Go("boot", "install")
    /\ MarkRunning(Run)
    /\ UNCHANGED <<handVars, turnVars, fateVars, portVars, procVars, handlerVars, seenVars>>

\* The execution port is built and published on the thread, the wall-clock
\* timer armed.  Reconciling the session's tools comes next.
InstallExecution ==
    /\ Go("install", "start")
    /\ phase' = "idle"
    /\ timer' = TRUE
    /\ UNCHANGED <<storeVars, handVars, turnVars, fateVars, pending, reached, aborted, live,
                   active, gateway, handlerVars, seenVars>>

\* ManagedExecutionRuntime.start refuses every phase but "idle", so a
\* cancellation that came first turns into a failure of the run.
StartExecution ==
    /\ gateway = "up" /\ pc = "start"
    /\ \/ phase = "idle" /\ phase' = "running" /\ pc' = "drain" /\ UNCHANGED result
       \/ phase # "idle" /\ UNCHANGED phase /\ pc' = "close" /\ result' = "error"
    /\ UNCHANGED <<storeVars, handVars, turnVars, errored, pending, reached, procVars,
                   handlerVars, seenVars>>

\* submitMessage drains a compaction still in flight, and only then reads the
\* session's current abort signal.
CaptureSignal ==
    /\ Go("drain", "top")
    /\ UNCHANGED <<storeVars, handVars, turnVars, fateVars, portVars, procVars, handlerVars,
                   seenVars>>

-----------------------------------------------------------------------------
(* Model turns *)

\* The check at the top of the loop: the generator returns normally.
ObserveAbort ==
    /\ Go("top", "returned")
    /\ aborted
    /\ UNCHANGED <<storeVars, handVars, turnVars, fateVars, portVars, procVars, handlerVars,
                   executed, gated>>

\* The turn or budget limit: an error event, then a normal return.
HitLimit ==
    /\ Go("top", "returned")
    /\ ~aborted
    /\ errored' = TRUE
    /\ UNCHANGED <<storeVars, handVars, turnVars, result, portVars, procVars, handlerVars,
                   seenVars>>

BeginTurn ==
    /\ Go("top", "stream")
    /\ ~aborted
    /\ UNCHANGED <<storeVars, handVars, turnVars, fateVars, portVars, procVars, handlerVars,
                   seenVars>>

\* A text or thinking event: its consequence is durable before it is published.
StreamOutput ==
    /\ Go("stream", "stream")
    /\ AdvanceConsequence(Run, OutputObserved)
    /\ reached' = Greater(reached, OutputObserved)
    /\ UNCHANGED <<handVars, turnVars, fateVars, phase, pending, procVars, handlerVars,
                   seenVars>>

\* tool.call.start: the intent is durable before the loop is pulled again.
StreamToolStart(c) ==
    /\ Go("stream", "stream")
    /\ c \in ToolCalls \ used
    /\ ObserveIntent(Run, c)
    /\ todo' = todo \cup {c}
    /\ used' = used \cup {c}
    /\ UNCHANGED <<handVars, retries, batch, fateVars, portVars, procVars, handlerVars, seenVars>>

\* The whole message arrived: its tool calls are executed even if the signal is
\* aborted by now.
StreamComplete ==
    /\ gateway = "up" /\ pc = "stream"
    /\ pc' = IF todo = {} THEN "returned" ELSE "tools"
    /\ UNCHANGED <<storeVars, handVars, turnVars, fateVars, portVars, procVars, handlerVars,
                   seenVars>>

\* The stream is left at an aborted signal with no message, hence no tool call.
StreamBreak ==
    /\ Go("stream", "returned")
    /\ aborted
    /\ todo' = {}
    /\ UNCHANGED <<storeVars, handVars, used, retries, batch, fateVars, portVars, procVars,
                   handlerVars, executed, gated>>

\* A provider error or the idle watchdog, not recoverable.
StreamFails ==
    /\ Go("stream", "returned")
    /\ todo' = {}
    /\ errored' = TRUE
    /\ UNCHANGED <<storeVars, handVars, used, retries, batch, result, portVars, procVars,
                   handlerVars, seenVars>>

\* Rate limit, overflow or output limit: the turn is tried again.
StreamRetry ==
    /\ Go("stream", "top")
    /\ retries < MaxRetry
    /\ retries' = retries + 1
    /\ todo' = {}
    /\ UNCHANGED <<storeVars, handVars, used, batch, fateVars, portVars, procVars, handlerVars,
                   seenVars>>

-----------------------------------------------------------------------------
(* Tool calls *)

\* Read-only tools that need no permission run in parallel, and none of their
\* outcomes is published before all have ended.  ran: those no hook blocked and
\* no cache answered.
RunBatch(calls, ran) ==
    /\ Go("tools", "batch")
    /\ calls # {} /\ calls \subseteq todo /\ ran \subseteq calls
    /\ batch' = calls
    /\ executed' = executed \cup ran
    /\ UNCHANGED <<storeVars, handVars, todo, used, retries, fateVars, portVars, procVars,
                   handlerVars, gated>>

\* tool.call.end of one of them; k is its inferConsequence.
EndBatchCall(c, k) ==
    /\ gateway = "up" /\ pc = "batch"
    /\ c \in batch
    /\ k \in IF c \in executed THEN {EffectPossible} ELSE {OutputObserved, EffectPossible}
    /\ ObserveOutcome(Run, c, k)
    /\ reached' = Greater(reached, k)
    /\ todo' = todo \ {c}
    /\ batch' = batch \ {c}
    /\ pc' = IF batch' = {} THEN "tools" ELSE "batch"
    /\ UNCHANGED <<handVars, used, retries, fateVars, phase, pending, procVars, handlerVars,
                   seenVars>>

\* An unknown tool, a local-only egress refusal or a blocking hook.
BlockCall(c) ==
    /\ Go("tools", "toolEnd")
    /\ c \in todo
    /\ cur' = c
    /\ cached' = FALSE
    /\ UNCHANGED <<storeVars, prompt, answer, turnVars, fateVars, portVars, procVars,
                   handlerVars, seenVars>>

\* requestHookApproval: a fresh request that does not pass through the port.
AskHook(c, h) ==
    /\ Go("tools", "record")
    /\ c \in todo
    /\ h \in HookPrompts \ used
    /\ cur' = c
    /\ prompt' = h
    /\ used' = used \cup {h}
    /\ gated' = gated \cup {<<c, h>>}
    /\ UNCHANGED <<storeVars, answer, cached, todo, retries, batch, fateVars, portVars, procVars,
                   handlerVars, executed>>

PassHooks(c) ==
    /\ Go("tools", "policy")
    /\ c \in todo
    /\ cur' = c
    /\ UNCHANGED <<storeVars, prompt, answer, cached, turnVars, fateVars, portVars,
                   procVars, handlerVars, seenVars>>

\* Allowed, or allowed by a policy that has been revised since.
AllowCall ==
    /\ gateway = "up" /\ pc = "policy"
    /\ pc' \in {"exec", "toolEnd"}
    /\ cached' = FALSE
    /\ UNCHANGED <<storeVars, cur, prompt, answer, turnVars, fateVars, portVars, procVars,
                   handlerVars, seenVars>>

\* permission.request passes through the port, which forgets a cancellation.
AskPermission ==
    /\ Go("policy", "record")
    /\ prompt' = cur
    /\ pending' = pending \cup {cur}
    /\ phase' = "waiting_permission"
    /\ gated' = gated \cup {<<cur, cur>>}
    /\ UNCHANGED <<storeVars, cur, answer, cached, turnVars, fateVars, reached, procVars,
                   handlerVars, executed>>

RecordRequest ==
    /\ Go("record", "wait")
    /\ RecordPermissionRequest(Run, prompt)
    /\ UNCHANGED <<handVars, turnVars, fateVars, portVars, procVars, handlerVars, seenVars>>

ParkRow ==
    /\ Go("wait", "park")
    /\ MarkWaiting(Run)
    /\ UNCHANGED <<handVars, turnVars, fateVars, portVars, procVars, handlerVars, seenVars>>

\* The request is published, the loop pulled, and the prompt registered.
Park ==
    /\ Go("park", "parked")
    /\ UNCHANGED <<storeVars, handVars, turnVars, fateVars, portVars, procVars, handlerVars,
                   seenVars>>

\* A prompt resolves; whoever resolves it, only a parked one can.
Resolve(granted) ==
    /\ pc = "parked"
    /\ pc' = "respond"
    /\ answer' = granted
    /\ UNCHANGED <<cur, prompt, cached, turnVars, fateVars>>

HitlTimeout ==
    /\ gateway = "up"
    /\ Resolve(FALSE)
    /\ UNCHANGED <<storeVars, portVars, procVars, handlerVars, seenVars>>

\* permission.response: the port forgets the request, and a decision nobody has
\* made durable yet is recorded.
Respond ==
    /\ Go("respond", "unpark")
    /\ pending' = pending \ {prompt}
    /\ phase' = IF prompt \in ToolCalls THEN "running" ELSE phase
    /\ IF perm[<<Run, prompt>>] = "pending"
       THEN DecidePermission(Run, prompt, IF answer THEN "approved" ELSE "denied")
       ELSE UNCHANGED storeVars
    /\ UNCHANGED <<handVars, turnVars, fateVars, reached, procVars, handlerVars, seenVars>>

\* Mutant of Unpark: the row is not taken out of "waiting".
UnparkSilently ==
    /\ gateway = "up" /\ pc = "unpark"
    /\ pc' = IF answer THEN "authorize" ELSE "toolEnd"
    /\ cached' = FALSE
    /\ UNCHANGED <<storeVars, cur, prompt, answer, turnVars, fateVars, portVars, procVars,
                   handlerVars, seenVars>>

Unpark ==
    /\ gateway = "up" /\ pc = "unpark"
    /\ pc' = IF answer THEN "authorize" ELSE "toolEnd"
    /\ MarkRunningAfterDecision(Run)
    /\ cached' = FALSE
    /\ UNCHANGED <<cur, prompt, answer, turnVars, fateVars, portVars, procVars, handlerVars,
                   seenVars>>

\* Mutant of Authorize: the approval is looked at, not spent.
AuthorizeUnspent ==
    /\ gateway = "up" /\ pc = "authorize"
    /\ pc' = IF ~Consumable(Run, prompt) THEN "toolEnd"
             ELSE IF prompt \in HookPrompts THEN "policy" ELSE "exec"
    /\ UNCHANGED <<storeVars, handVars, turnVars, fateVars, portVars, procVars, handlerVars,
                   seenVars>>

\* The approval is spent, or the call is blocked.  A hook's approval lets the
\* call go on to the permission policy.
Authorize ==
    /\ gateway = "up" /\ pc = "authorize"
    /\ \/ /\ ConsumePermissionApproval(Run, prompt)
          /\ pc' = IF prompt \in HookPrompts THEN "policy" ELSE "exec"
       \/ /\ ~Consumable(Run, prompt) \/ StorageMayFail
          /\ UNCHANGED storeVars
          /\ pc' = "toolEnd"
    /\ UNCHANGED <<handVars, turnVars, fateVars, portVars, procVars, handlerVars, seenVars>>

ExecuteTool ==
    /\ Go("exec", "toolEnd")
    /\ executed' = executed \cup {cur}
    /\ cached' = FALSE
    /\ UNCHANGED <<storeVars, cur, prompt, answer, turnVars, fateVars, portVars, procVars,
                   handlerVars, gated>>

ReplayCached ==
    /\ Go("exec", "toolEnd")
    /\ cached' = TRUE
    /\ UNCHANGED <<storeVars, cur, prompt, answer, turnVars, fateVars, portVars, procVars,
                   handlerVars, seenVars>>

\* inferConsequence of tool.call.end.
Weight == IF cached THEN OutputObserved ELSE EffectPossible

\* tool.call.end, for refused calls too.
EndCall ==
    /\ Go("toolEnd", "tools")
    /\ ObserveOutcome(Run, cur, Weight)
    /\ reached' = Greater(reached, Weight)
    /\ todo' = todo \ {cur}
    /\ cur' = NoCall
    /\ prompt' = NoCall
    /\ UNCHANGED <<answer, cached, used, retries, batch, fateVars, phase, pending, procVars,
                   handlerVars, seenVars>>

\* A checkpoint that cannot be saved leaves an error event behind.
EndTurn ==
    /\ Go("tools", "top")
    /\ todo = {}
    /\ retries' = 0
    /\ errored' \in {errored, TRUE}
    /\ UNCHANGED <<storeVars, handVars, todo, used, batch, result, portVars, procVars, handlerVars,
                   seenVars>>

\* Persisting an event throws: the generator is abandoned where it stands.
EventFails ==
    /\ StorageMayFail
    /\ gateway = "up"
    /\ pc \in {"stream", "record", "wait", "park", "respond", "unpark", "toolEnd", "batch"}
    /\ pc \in Prompting => prompt \in ToolCalls
    /\ pc' = "close"
    /\ result' = "error"
    /\ ForgetLocals
    /\ UNCHANGED <<storeVars, used, errored, portVars, procVars, handlerVars, seenVars>>

\* A hook prompt that cannot be recorded or published is denied instead.
HookRecordFails ==
    /\ StorageMayFail
    /\ gateway = "up"
    /\ pc \in {"record", "wait", "park"}
    /\ prompt \in HookPrompts
    /\ pc' = "toolEnd"
    /\ cached' = FALSE
    /\ UNCHANGED <<storeVars, cur, prompt, answer, turnVars, fateVars, portVars, procVars,
                   handlerVars, seenVars>>

-----------------------------------------------------------------------------
(* End of a run *)

\* The built-in driver reports success for every generator that returns; the
\* port turns that into a contract failure if a request is still open.
ReturnLoop ==
    /\ Go("returned", "close")
    /\ result' = IF pending = {} THEN "completed" ELSE "error"
    /\ phase' = IF pending = {} THEN "completed" ELSE "failed"
    /\ reached' = IF pending = {} THEN reached ELSE Greater(reached, EffectPossible)
    /\ ForgetLocals
    /\ UNCHANGED <<storeVars, used, errored, pending, procVars, handlerVars, seenVars>>

CloseExecution ==
    /\ Go("close", "drop")
    /\ timer' = FALSE
    /\ phase' = "closed"
    /\ UNCHANGED <<storeVars, handVars, turnVars, fateVars, pending, reached, aborted, live,
                   active, gateway, handlerVars, seenVars>>

DropRuntime ==
    /\ Go("drop", "unknown")
    /\ live' = FALSE
    /\ UNCHANGED <<storeVars, handVars, turnVars, fateVars, portVars, aborted, timer,
                   active, gateway, handlerVars, seenVars>>

\* Mutant of MarkUnknown: the finalizer leaves pending effects alone.
LeaveUnknown ==
    /\ Go("unknown", "finish")
    /\ UNCHANGED <<storeVars, handVars, turnVars, fateVars, portVars, procVars, handlerVars,
                   seenVars>>

MarkUnknown ==
    /\ Go("unknown", "finish")
    /\ MarkPendingUnknownForRun(Run)
    /\ UNCHANGED <<handVars, turnVars, fateVars, portVars, procVars, handlerVars, seenVars>>

TerminalStatus ==
    CASE result = "completed" /\ ~errored -> "succeeded"
      [] result = "timeout" -> "timed_out"
      [] result = "aborted" -> "cancelled"
      [] OTHER -> "failed"

FinishRun ==
    /\ Go("finish", "leave")
    /\ MarkTerminal(Run, TerminalStatus, reached)
    /\ UNCHANGED <<handVars, turnVars, fateVars, portVars, procVars, handlerVars, seenVars>>

LeaveRunner ==
    /\ Go("leave", "done")
    /\ active' = FALSE
    /\ UNCHANGED <<storeVars, handVars, turnVars, fateVars, portVars, aborted, timer, live,
                   gateway, handlerVars, seenVars>>

\* Storage disappears during the finalizer: the row stays live until a restart.
FinalizeFails ==
    /\ StorageMayFail
    /\ gateway = "up"
    /\ pc \in {"unknown", "finish"}
    /\ pc' = "done"
    /\ active' = FALSE
    /\ UNCHANGED <<storeVars, handVars, turnVars, fateVars, portVars, aborted, timer, live,
                   gateway, handlerVars, seenVars>>

-----------------------------------------------------------------------------
(* The two routes that answer a prompt.  decidePermission and resume check,
   make the decision durable, and only then deliver it. *)

\* hasPendingPermission of the port answers, even for a prompt it never saw.
DecideCheck(d, p, v, route) ==
    /\ gateway = "up"
    /\ dec[d].at = "idle"
    /\ perm[<<Run, p>>] = "pending"
    /\ live /\ p \in pending
    /\ dec' = [dec EXCEPT ![d] = [at |-> "decide", p |-> p, v |-> v, route |-> route]]
    /\ UNCHANGED <<storeVars, loopVars, portVars, procVars, can, seenVars>>

\* A handler ends: what it was about no longer matters.
Done(d) == dec' = [dec EXCEPT ![d] = Blank("done")]

DecideDurably(d) ==
    /\ gateway = "up"
    /\ dec[d].at = "decide"
    /\ \/ /\ DecidePermission(Run, dec[d].p, dec[d].v)
          /\ dec' = [dec EXCEPT ![d].at = "deliver"]
       \/ /\ perm[<<Run, dec[d].p>>] # "pending"
          /\ UNCHANGED storeVars
          /\ Done(d)
    /\ UNCHANGED <<loopVars, portVars, procVars, can, seenVars>>

\* answerPermission: delivered if the prompt is registered, stale otherwise.
Deliver(d) ==
    /\ gateway = "up"
    /\ dec[d].at = "deliver"
    /\ \/ /\ prompt = dec[d].p
          /\ Resolve(dec[d].v = "approved")
          /\ pending' = IF phase = "waiting_permission" THEN pending \ {prompt} ELSE pending
          /\ phase' = IF phase = "waiting_permission" THEN "running" ELSE phase
          /\ IF dec[d].route = "decide" THEN dec' = [dec EXCEPT ![d].at = "finish"] ELSE Done(d)
       \/ /\ ~(pc = "parked" /\ prompt = dec[d].p)
          /\ dec' = [dec EXCEPT ![d].at = "expire"]
          /\ UNCHANGED <<loopVars, phase, pending>>
    /\ UNCHANGED <<storeVars, reached, procVars, can, seenVars>>

ExpireStale(d) ==
    /\ gateway = "up"
    /\ dec[d].at = "expire"
    /\ ExpirePermission(Run, dec[d].p)
    /\ Done(d)
    /\ UNCHANGED <<loopVars, portVars, procVars, can, seenVars>>

\* The decide route then reads the phase, and writes on what it read.
FinishDecision(d) ==
    /\ gateway = "up"
    /\ dec[d].at = "finish"
    /\ IF phase # "waiting_permission" THEN dec' = [dec EXCEPT ![d].at = "mark"] ELSE Done(d)
    /\ UNCHANGED <<storeVars, loopVars, portVars, procVars, can, seenVars>>

MarkDecided(d) ==
    /\ gateway = "up"
    /\ dec[d].at = "mark"
    /\ MarkRunningAfterDecision(Run)
    /\ Done(d)
    /\ UNCHANGED <<loopVars, portVars, procVars, can, seenVars>>

\* resume without a request id: denies whatever is parked.
BulkDeny ==
    /\ gateway = "up" /\ live
    /\ Resolve(FALSE)
    /\ UNCHANGED <<storeVars, portVars, procVars, handlerVars, seenVars>>

-----------------------------------------------------------------------------
(* Cancellation *)

\* ManagedExecutionRuntime.cancel and Session.abort, which replaces the signal:
\* a loop that has not captured one never learns of it.
CancelPort ==
    /\ phase' = IF phase \in {"none", "completed", "failed", "closed"} THEN phase ELSE "cancelling"
    /\ aborted' = (aborted \/ pc \in Captured)

\* denyAllHitls
DenyAll == Resolve(FALSE) \/ (pc # "parked" /\ UNCHANGED loopVars)

\* cancelRun, and the legacy abort of the thread's active run.
CancelCheck ==
    /\ gateway = "up"
    /\ can = "idle"
    /\ active
    /\ can' = "persist"
    /\ UNCHANGED <<storeVars, loopVars, portVars, procVars, dec, seenVars>>

CancelDurably ==
    /\ gateway = "up"
    /\ can = "persist"
    /\ RequestCancel(Run)
    /\ can' = IF status[Run] \in Terminal THEN "done" ELSE "signal"
    /\ UNCHANGED <<loopVars, portVars, procVars, dec, seenVars>>

SignalCancellation ==
    /\ gateway = "up"
    /\ can = "signal"
    /\ can' = "signalled"
    /\ CancelPort
    /\ DenyAll
    /\ UNCHANGED <<storeVars, pending, reached, timer, live, active, gateway, dec, seenVars>>

\* The wall-clock limit cancels the port, and denies no prompt.
TimerFires ==
    /\ gateway = "up"
    /\ timer
    /\ timer' = FALSE
    /\ CancelPort
    /\ UNCHANGED <<storeVars, loopVars, pending, reached, live, active, gateway, handlerVars,
                   seenVars>>

\* drainAll at shutdown.
DrainAll ==
    /\ gateway = "up"
    /\ active
    /\ CancelPort
    /\ DenyAll
    /\ UNCHANGED <<storeVars, pending, reached, timer, live, active, gateway, handlerVars,
                   seenVars>>

-----------------------------------------------------------------------------
(* Crash and boot *)

Crash ==
    /\ gateway # "down" /\ pc # "off"
    /\ gateway' = "down"
    /\ pc' = "dead"
    /\ ForgetLocals
    /\ result' = "running" /\ errored' = FALSE
    /\ phase' = "none" /\ pending' = {} /\ reached' = NoneObserved
    /\ aborted' = FALSE /\ timer' = FALSE /\ live' = FALSE /\ active' = FALSE
    /\ dec' = [d \in Deciders |-> Blank("done")] /\ can' = "done"
    /\ UNCHANGED <<storeVars, used, seenVars>>

RecoverRuns ==
    /\ gateway = "down"
    /\ RecoverInterrupted
    /\ gateway' = "recovering"
    /\ UNCHANGED <<loopVars, portVars, aborted, timer, live, active, handlerVars, seenVars>>

RecoverEffects ==
    /\ gateway = "recovering"
    /\ ReconcileInterrupted
    /\ gateway' = "up"
    /\ UNCHANGED <<loopVars, portVars, aborted, timer, live, active, handlerVars, seenVars>>

-----------------------------------------------------------------------------

Consumer ==
    \/ AcceptRun \/ StartRunner \/ BeginRun \/ InstallExecution \/ StartExecution \/ CaptureSignal
    \/ ObserveAbort \/ HitLimit \/ BeginTurn
    \/ StreamOutput \/ (\E c \in ToolCalls : StreamToolStart(c))
    \/ StreamComplete \/ StreamBreak \/ StreamFails \/ StreamRetry
    \/ \E calls, ran \in SUBSET ToolCalls : RunBatch(calls, ran)
    \/ \E c \in ToolCalls, k \in Consequence : EndBatchCall(c, k)
    \/ \E c \in ToolCalls : BlockCall(c) \/ PassHooks(c) \/ (\E h \in HookPrompts : AskHook(c, h))
    \/ AllowCall \/ AskPermission \/ RecordRequest \/ ParkRow \/ Park \/ Respond \/ Unpark
    \/ Authorize \/ ExecuteTool \/ ReplayCached \/ EndCall \/ EndTurn
    \/ ReturnLoop \/ CloseExecution \/ DropRuntime \/ MarkUnknown \/ FinishRun \/ LeaveRunner

Failures == EventFails \/ HookRecordFails \/ FinalizeFails \/ Crash

Decider(d) ==
    \/ \E p \in Calls, v \in Verdict, route \in {"decide", "resume"} : DecideCheck(d, p, v, route)
    \/ DecideDurably(d) \/ Deliver(d) \/ ExpireStale(d) \/ FinishDecision(d) \/ MarkDecided(d)

Canceller == CancelCheck \/ CancelDurably \/ SignalCancellation

Boot == RecoverRuns \/ RecoverEffects

Next ==
    \/ Consumer
    \/ HitlTimeout \/ BulkDeny \/ TimerFires \/ DrainAll
    \/ \E d \in Deciders : Decider(d)
    \/ Canceller
    \/ Failures
    \/ Boot

Spec == Init /\ [][Next]_vars

\* Promises resolve, the model stream ends or stalls into its watchdog, tools
\* end, timers fire and a crashed gateway is restarted.  Nobody is obliged to
\* answer a prompt or to cancel.
FairSpec == Spec /\ WF_vars(Consumer) /\ WF_vars(HitlTimeout) /\ WF_vars(Boot)

-----------------------------------------------------------------------------
(* Properties *)

\* A prompt that was raised on behalf of a call (permission policy or "approve"
\* hook) is execution authority only as a durable approval spent for it: no
\* answer, timeout, expiry, cancellation or restart lets the tool run without
\* (authorizeToolExecution, requestHookApproval).
GatedToolSpentApproval ==
    \A g \in gated : g[1] \in executed => <<Run, g[2]>> \in consumed

\* Whenever the gateway serves requests, the record of a finished run admits
\* that a tool ran, however it finished: normally, by a storage failure between
\* the tool and its outcome, or by a crash (observe before pull,
\* markPendingUnknownForRun, reconcileInterrupted).
EvidenceSurvives ==
    (gateway = "up" /\ status[Run] \in Terminal /\ executed # {})
        => consequence[Run] >= EffectPossible

\* A finished run is over: its loop can run nothing more (only the finalizer or a
\* restart ends a run), and it has no permission request left that could still be
\* decided or spent (expireUnconsumedPermissions in every terminal transition).
FinishedRunIsClosed ==
    status[Run] \in Terminal =>
        /\ pc \in {"leave", "done", "dead"}
        /\ \A c \in Calls : perm[<<Run, c>>] # "pending" /\ ~Consumable(Run, c)

\* ADR-0004: "waiting" says that the run is paused on a human decision.  As long
\* as storage works, a row says so only while a prompt is open or, for the row of
\* a dead process, until the boot recovers it.
WaitingMeansPaused ==
    status[Run] = "waiting" => pc \in {"park", "parked", "respond", "unpark", "dead"}

\* Every accepted run gets a terminal record, through lost aborts, unanswered
\* prompts, cancellations and crashes, as long as storage works.
RunSettles == status[Run] \in Live ~> status[Run] \in Terminal

\* The run's record follows ADR-0004's state machine.
Record == INSTANCE RunRecord
ImplementsRunRecord == Record!RecordSpec
=============================================================================
