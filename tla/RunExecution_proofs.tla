------------------------ MODULE RunExecution_proofs ------------------------
(***************************************************************************)
(* What holds of the execution of a run for any set of tool calls, hook    *)
(* prompts and concurrent deciders: a gated tool runs only on a spent      *)
(* approval, evidence survives, a finished run is closed, and its record   *)
(* follows RunRecord.                                                      *)
(***************************************************************************)
EXTENDS RunExecution, RunStore_proofs

-----------------------------------------------------------------------------
(* The inductive invariant *)

Early == {"off", "accepted", "boot", "install", "start", "drain", "top"}
Over == {"leave", "done", "dead"}
InHand == {"policy", "exec", "toolEnd"} \cup Prompting

\* What the loop and the handlers have in hand is a call, or a request.
HandsFull ==
    /\ pc \in InHand => cur \in todo
    /\ pc \in Prompting => prompt \in Calls
    /\ \A d \in Deciders : dec[d].at \in {"decide", "deliver", "expire"} => dec[d].p \in Calls

\* No call is taken twice: what ran or was gated is used, and a call still to be
\* handled was neither run nor gated.
TurnKept ==
    /\ todo \cup executed \subseteq used
    /\ \A g \in gated : g[1] \in used
    /\ \A c \in todo :
         (pc \in InHand => c # cur) => /\ c \in executed => pc = "batch" /\ c \in batch
                                       /\ \A g \in gated : g[1] # c
    /\ pc \in Early => todo = {}
    /\ pc # "batch" => batch = {}

\* Every prompt raised for the call in hand is spent before the next place is
\* reached, and the call has not run yet.
GateKept ==
    /\ pc \in InHand \ {"toolEnd"} => cur \notin executed
    /\ \A g \in gated : g[1] = cur =>
         /\ pc \in {"policy", "exec"} => <<Run, g[2]>> \in consumed
         /\ pc \in Prompting => g[2] = prompt \/ <<Run, g[2]>> \in consumed

\* Open intents have been given up: by the finalizer, or by the boot for a run it
\* declared interrupted.
Accounted ==
    \/ pc \in {"finish", "leave"}
    \/ status[Run] \in Terminal \ {"indeterminate"}
    \/ status[Run] = "indeterminate" /\ gateway = "up"

\* The intent of a call is durable before it runs, and stays open until its
\* outcome is recorded at its full weight or the finalizer gives it up.
EvidenceKept ==
    /\ \A c \in ToolCalls \ used : effect[<<Run, c>>] = "none"
    /\ pc \in Captured => \A c \in todo : effect[<<Run, c>>] = "pending"
    /\ pc = "toolEnd" /\ cur \in executed => cached = FALSE
    /\ \A c \in executed : effect[<<Run, c>>] = "pending" \/ consequence[Run] >= EffectPossible
    /\ executed # {} /\ Accounted => consequence[Run] >= EffectPossible

\* The row and the place of the run.
PlaceKept ==
    /\ gateway # "up" => pc = "dead"
    /\ pc \notin {"off", "accepted", "boot", "dead"} => status[Run] # "accepted"

ExecInv ==
    /\ ExecTypeOK /\ LedgerInv
    /\ HandsFull /\ TurnKept /\ GateKept /\ GatedToolSpentApproval
    /\ EvidenceKept /\ FinishedRunIsClosed /\ PlaceKept

-----------------------------------------------------------------------------
(* The ledger under it *)

\* The steps that touch the ledger at all.
StoreCall ==
    \/ AcceptRun \/ BeginRun \/ StreamOutput \/ RecordRequest \/ ParkRow \/ Respond \/ Unpark \/ Authorize
    \/ EndCall \/ MarkUnknown \/ FinishRun
    \/ \E c \in ToolCalls : StreamToolStart(c) \/ \E k \in Consequence : EndBatchCall(c, k)
    \/ \E d \in Deciders : DecideDurably(d) \/ ExpireStale(d) \/ MarkDecided(d)
    \/ CancelDurably \/ RecoverRuns \/ RecoverEffects

\* Every other step leaves the ledger alone.
LEMMA StoreFrame ==
    ASSUME [Next]_vars, ~StoreCall
    PROVE  UNCHANGED storeVars
<1>1. CASE Consumer
  BY <1>1 DEF StoreCall, Consumer, StartRunner, InstallExecution, StartExecution, CaptureSignal,
     ObserveAbort, HitLimit, BeginTurn, StreamComplete, StreamBreak, StreamFails, StreamRetry, RunBatch,
     BlockCall, PassHooks, AskHook, AllowCall, AskPermission, Park, ExecuteTool, ReplayCached, EndTurn,
     ReturnLoop, CloseExecution, DropRuntime, LeaveRunner
<1>2. CASE HitlTimeout \/ BulkDeny \/ TimerFires \/ DrainAll \/ CancelCheck \/ SignalCancellation \/ Failures
  BY <1>2 DEF HitlTimeout, BulkDeny, TimerFires, DrainAll, CancelCheck, SignalCancellation,
     Failures, EventFails, HookRecordFails, FinalizeFails, Crash
<1>3. CASE \E d \in Deciders : Decider(d)
  BY <1>3 DEF StoreCall, Decider, DecideCheck, Deliver, FinishDecision
<1>4. CASE UNCHANGED vars
  BY <1>4 DEF vars
<1>. QED
  BY <1>1, <1>2, <1>3, <1>4 DEF StoreCall, Next, Canceller, Boot

\* Whatever the consumer, a handler or a boot does to the ledger is one call of
\* its methods, or nothing.
LEMMA ExecCallsStore ==
    ASSUME ExecTypeOK, HandsFull, [Next]_vars
    PROVE  [RunStoreNext]_storeVars
<1>0. Run \in Runs /\ ToolCalls \subseteq Calls /\ todo \subseteq ToolCalls
  BY ExecutionAssumption DEF ExecTypeOK
<1>u. CASE UNCHANGED storeVars
  BY <1>u
<1>1. CASE AcceptRun \/ BeginRun \/ ParkRow \/ Unpark
  BY <1>0, <1>1 DEF AcceptRun, BeginRun, ParkRow, Unpark, RunStoreNext
<1>2. CASE StreamOutput \/ (\E c \in ToolCalls : StreamToolStart(c))
  BY <1>0, <1>2 DEF StreamOutput, StreamToolStart, RunStoreNext, OutputObserved, Consequence
<1>3. CASE \E c \in ToolCalls, k \in Consequence : EndBatchCall(c, k)
  BY <1>0, <1>3 DEF EndBatchCall, RunStoreNext
<1>4. CASE RecordRequest \/ Respond \/ Authorize
  <2>1. prompt \in Calls
    BY <1>4 DEF RecordRequest, Respond, Authorize, Go, HandsFull, Prompting
  <2>2. CASE Respond
    <3>1. (IF answer THEN "approved" ELSE "denied") \in Verdict
      BY DEF Verdict
    <3>. QED
      BY <1>0, <2>1, <2>2, <3>1 DEF Respond, RunStoreNext
  <2>. QED
    BY <1>0, <1>4, <2>1, <2>2 DEF RecordRequest, Authorize, RunStoreNext
<1>5. CASE EndCall
  <2>1. cur \in Calls /\ Weight \in Consequence
    BY <1>0, <1>5 DEF EndCall, Go, HandsFull, InHand, Weight, OutputObserved, EffectPossible, Consequence
  <2>. QED
    BY <1>0, <1>5, <2>1 DEF EndCall, RunStoreNext
<1>6. CASE MarkUnknown
  BY <1>0, <1>6 DEF MarkUnknown, RunStoreNext
<1>7. CASE FinishRun
  <2>1. TerminalStatus \in Terminal /\ reached \in Consequence
    BY DEF TerminalStatus, Terminal, ExecTypeOK
  <2>. QED
    BY <1>0, <1>7, <2>1 DEF FinishRun, RunStoreNext
<1>8. ASSUME NEW d \in Deciders, DecideDurably(d) \/ ExpireStale(d) \/ MarkDecided(d)
      PROVE  [RunStoreNext]_storeVars
  <2>1. dec[d].v \in Verdict
    BY DEF ExecTypeOK, Decision
  <2>2. dec[d].at \in {"decide", "expire"} => dec[d].p \in Calls
    BY DEF HandsFull
  <2>. QED
    BY <1>0, <1>8, <2>1, <2>2 DEF DecideDurably, ExpireStale, MarkDecided, RunStoreNext
<1>9. CASE CancelDurably \/ RecoverRuns \/ RecoverEffects
  BY <1>0, <1>9 DEF CancelDurably, RecoverRuns, RecoverEffects, RunStoreNext
<1>. QED
  BY <1>u, <1>1, <1>2, <1>3, <1>4, <1>5, <1>6, <1>7, <1>8, <1>9, StoreFrame DEF StoreCall

-----------------------------------------------------------------------------
(* Types *)

\* The type invariant is kept by every step.
LEMMA ExecTypesStep ==
    ASSUME ExecInv, [Next]_vars
    PROVE  ExecTypeOK'
<1> USE DEF ExecInv
<1>s. RunStoreTypeOK'
  BY ExecCallsStore, LedgerStep DEF LedgerInv
<1>0. Calls = ToolCalls \cup HookPrompts /\ MaxRetry \in Nat
  BY ExecutionAssumption
<1>h. /\ pc \in InHand => cur \in ToolCalls
      /\ pc # "batch" => batch = {}
  BY DEF HandsFull, TurnKept, ExecTypeOK
<1>g. ASSUME NEW k \in Consequence PROVE Greater(reached, k) \in Consequence
  BY <1>g, GreaterConsequence DEF ExecTypeOK
<1>w. {OutputObserved, EffectPossible, Weight} \subseteq Consequence /\ NoneObserved \in Consequence
  BY DEF Weight, OutputObserved, EffectPossible, NoneObserved, Consequence
<1>d. /\ Blank("done") \in Decision
      /\ \A x \in Decision, at \in {"deliver", "expire", "finish", "mark"} :
           [x EXCEPT !.at = at] \in Decision
  BY DEF Blank, Decision, Verdict
<1> USE DEF ExecTypeOK, Go, Where, Captured, Prompting, Finalizing, InHand, ForgetLocals, Resolve,
            CancelPort, DenyAll, Done, handVars, turnVars, fateVars, loopVars, portVars, procVars,
            handlerVars, seenVars
<1>1. ASSUME AcceptRun PROVE ExecTypeOK'
  BY <1>1, <1>s DEF AcceptRun
<1>2. ASSUME StartRunner PROVE ExecTypeOK'
  BY <1>2, <1>s DEF StartRunner
<1>3. ASSUME BeginRun PROVE ExecTypeOK'
  BY <1>3, <1>s DEF BeginRun
<1>4. ASSUME InstallExecution PROVE ExecTypeOK'
  BY <1>4, <1>s DEF InstallExecution
<1>5. ASSUME StartExecution PROVE ExecTypeOK'
  BY <1>5, <1>s DEF StartExecution
<1>6. ASSUME CaptureSignal PROVE ExecTypeOK'
  BY <1>6, <1>s DEF CaptureSignal
<1>7. ASSUME ObserveAbort PROVE ExecTypeOK'
  BY <1>7, <1>s DEF ObserveAbort
<1>8. ASSUME HitLimit PROVE ExecTypeOK'
  BY <1>8, <1>s DEF HitLimit
<1>9. ASSUME BeginTurn PROVE ExecTypeOK'
  BY <1>9, <1>s DEF BeginTurn
<1>10. ASSUME StreamOutput PROVE ExecTypeOK'
  BY <1>10, <1>s, <1>g, <1>w DEF StreamOutput
<1>11. ASSUME NEW c \in ToolCalls, StreamToolStart(c) PROVE ExecTypeOK'
  BY <1>11, <1>s, <1>0, <1>h DEF StreamToolStart
<1>12. ASSUME StreamComplete PROVE ExecTypeOK'
  BY <1>12, <1>s DEF StreamComplete
<1>13. ASSUME StreamBreak PROVE ExecTypeOK'
  BY <1>13, <1>s, <1>h DEF StreamBreak
<1>14. ASSUME StreamFails PROVE ExecTypeOK'
  BY <1>14, <1>s, <1>h DEF StreamFails
<1>15. ASSUME StreamRetry PROVE ExecTypeOK'
  BY <1>15, <1>s, <1>0, <1>h DEF StreamRetry
<1>16. ASSUME NEW calls \in SUBSET ToolCalls, NEW ran \in SUBSET ToolCalls, RunBatch(calls, ran) PROVE ExecTypeOK'
  BY <1>16, <1>s, <1>0, <1>h DEF RunBatch
<1>17. ASSUME NEW c \in ToolCalls, NEW k \in Consequence, EndBatchCall(c, k) PROVE ExecTypeOK'
  BY <1>17, <1>s, <1>h, <1>g, <1>w DEF EndBatchCall
<1>18. ASSUME NEW c \in ToolCalls, BlockCall(c) PROVE ExecTypeOK'
  BY <1>18, <1>s, <1>0 DEF BlockCall
<1>19. ASSUME NEW c \in ToolCalls, PassHooks(c) PROVE ExecTypeOK'
  BY <1>19, <1>s, <1>0 DEF PassHooks
<1>20. ASSUME NEW c \in ToolCalls, NEW h \in HookPrompts, AskHook(c, h) PROVE ExecTypeOK'
  BY <1>20, <1>s, <1>0 DEF AskHook
<1>21. ASSUME AllowCall PROVE ExecTypeOK'
  BY <1>21, <1>s DEF AllowCall
<1>22. ASSUME AskPermission PROVE ExecTypeOK'
  BY <1>22, <1>s, <1>0, <1>h DEF AskPermission
<1>23. ASSUME RecordRequest PROVE ExecTypeOK'
  BY <1>23, <1>s DEF RecordRequest
<1>24. ASSUME ParkRow PROVE ExecTypeOK'
  BY <1>24, <1>s DEF ParkRow
<1>25. ASSUME Park PROVE ExecTypeOK'
  BY <1>25, <1>s DEF Park
<1>26. ASSUME Respond PROVE ExecTypeOK'
  BY <1>26, <1>s DEF Respond
<1>27. ASSUME Unpark PROVE ExecTypeOK'
  BY <1>27, <1>s DEF Unpark
<1>28. ASSUME Authorize PROVE ExecTypeOK'
  BY <1>28, <1>s DEF Authorize
<1>29. ASSUME ExecuteTool PROVE ExecTypeOK'
  BY <1>29, <1>s, <1>h DEF ExecuteTool
<1>30. ASSUME ReplayCached PROVE ExecTypeOK'
  BY <1>30, <1>s DEF ReplayCached
<1>31. ASSUME EndCall PROVE ExecTypeOK'
  BY <1>31, <1>s, <1>h, <1>g, <1>w DEF EndCall
<1>32. ASSUME EndTurn PROVE ExecTypeOK'
  BY <1>32, <1>s, <1>0, <1>h DEF EndTurn
<1>33. ASSUME ReturnLoop PROVE ExecTypeOK'
  BY <1>33, <1>s, <1>0, <1>h, <1>g, <1>w DEF ReturnLoop
<1>34. ASSUME CloseExecution PROVE ExecTypeOK'
  BY <1>34, <1>s DEF CloseExecution
<1>35. ASSUME DropRuntime PROVE ExecTypeOK'
  BY <1>35, <1>s DEF DropRuntime
<1>36. ASSUME MarkUnknown PROVE ExecTypeOK'
  BY <1>36, <1>s DEF MarkUnknown
<1>37. ASSUME FinishRun PROVE ExecTypeOK'
  BY <1>37, <1>s DEF FinishRun
<1>38. ASSUME LeaveRunner PROVE ExecTypeOK'
  BY <1>38, <1>s DEF LeaveRunner
<1>39. ASSUME HitlTimeout PROVE ExecTypeOK'
  BY <1>39, <1>s DEF HitlTimeout
<1>40. ASSUME BulkDeny PROVE ExecTypeOK'
  BY <1>40, <1>s DEF BulkDeny
<1>41. ASSUME TimerFires PROVE ExecTypeOK'
  BY <1>41, <1>s DEF TimerFires
<1>42. ASSUME DrainAll PROVE ExecTypeOK'
  BY <1>42, <1>s DEF DrainAll
<1>43. ASSUME CancelCheck PROVE ExecTypeOK'
  BY <1>43, <1>s DEF CancelCheck
<1>44. ASSUME CancelDurably PROVE ExecTypeOK'
  BY <1>44, <1>s DEF CancelDurably
<1>45. ASSUME SignalCancellation PROVE ExecTypeOK'
  BY <1>45, <1>s DEF SignalCancellation
<1>46. ASSUME EventFails PROVE ExecTypeOK'
  BY <1>46, <1>s, <1>0 DEF EventFails
<1>47. ASSUME HookRecordFails PROVE ExecTypeOK'
  BY <1>47, <1>s DEF HookRecordFails
<1>48. ASSUME FinalizeFails PROVE ExecTypeOK'
  BY <1>48, <1>s DEF FinalizeFails
<1>49. ASSUME Crash PROVE ExecTypeOK'
  BY <1>49, <1>s, <1>0, <1>d, <1>w DEF Crash
<1>56. ASSUME RecoverRuns PROVE ExecTypeOK'
  BY <1>56, <1>s DEF RecoverRuns
<1>57. ASSUME RecoverEffects PROVE ExecTypeOK'
  BY <1>57, <1>s DEF RecoverEffects
<1>50. ASSUME NEW d \in Deciders, Decider(d) PROVE ExecTypeOK'
  <2>0. dec[d] \in Decision
    OBVIOUS
  <2>e. ASSUME NEW x \in Decision, dec' = [dec EXCEPT ![d] = x] PROVE dec' \in [Deciders -> Decision]
    BY <2>e
  <2>1. ASSUME NEW p \in Calls, NEW v \in Verdict, NEW route \in {"decide", "resume"},
               DecideCheck(d, p, v, route)
        PROVE  ExecTypeOK'
    <3>1. [at |-> "decide", p |-> p, v |-> v, route |-> route] \in Decision
      BY DEF Decision
    <3>. QED
      BY <1>s, <2>1, <2>e, <3>1 DEF DecideCheck
  <2>2. CASE DecideDurably(d)
    <3>1. dec' \in [Deciders -> Decision]
      BY <1>d, <2>0, <2>2, <2>e DEF DecideDurably
    <3>. QED
      BY <1>s, <2>2, <3>1 DEF DecideDurably
  <2>3. CASE Deliver(d)
    <3>1. dec' \in [Deciders -> Decision]
      BY <1>d, <2>0, <2>3, <2>e DEF Deliver
    <3>2. /\ pending' \subseteq ToolCalls /\ pc' \in Where
          /\ phase' \in {"none", "idle", "running", "waiting_permission", "cancelling",
                         "completed", "failed", "closed"}
      BY <2>3 DEF Deliver
    <3>3. UNCHANGED <<cur, prompt, todo, used, batch, retries, result, reached, gateway, can, executed, gated>>
      BY <2>3 DEF Deliver
    <3>. QED
      BY <1>s, <3>1, <3>2, <3>3
  <2>4. CASE ExpireStale(d) \/ MarkDecided(d)
    <3>1. dec' \in [Deciders -> Decision]
      BY <1>d, <2>4, <2>e DEF ExpireStale, MarkDecided
    <3>. QED
      BY <1>s, <2>4, <3>1 DEF ExpireStale, MarkDecided
  <2>5. CASE FinishDecision(d)
    <3>1. dec' \in [Deciders -> Decision]
      BY <1>d, <2>0, <2>5, <2>e DEF FinishDecision
    <3>. QED
      BY <1>s, <2>5, <3>1 DEF FinishDecision
  <2>. QED
    BY <1>50, <2>1, <2>2, <2>3, <2>4, <2>5 DEF Decider
<1>51. CASE UNCHANGED vars
  BY <1>51, <1>s DEF vars
<1>. QED
  BY <1>1, <1>2, <1>3, <1>4, <1>5, <1>6, <1>7, <1>8, <1>9, <1>10, <1>11, <1>12, <1>13, <1>14, <1>15,
     <1>16, <1>17, <1>18, <1>19, <1>20, <1>21, <1>22, <1>23, <1>24, <1>25, <1>26, <1>27, <1>28,
     <1>29, <1>30, <1>31, <1>32, <1>33, <1>34, <1>35, <1>36, <1>37, <1>38, <1>39, <1>40, <1>41,
     <1>42, <1>43, <1>44, <1>45, <1>46, <1>47, <1>48, <1>49, <1>50, <1>51, <1>56, <1>57
  DEF Next, Consumer, Failures, Canceller, Boot

-----------------------------------------------------------------------------
(* The moves of the loop *)

\* A step that leaves the turn alone and enters no place where more is promised
\* of it than where it came from.
PlainMove ==
    /\ UNCHANGED <<cur, prompt, todo, used, batch, executed, gated>>
    /\ pc' # pc =>
         /\ pc # "batch" /\ pc' # "batch"
         /\ pc' \in InHand <=> pc \in InHand
         /\ pc' \in InHand \ {"toolEnd"} => pc \in InHand \ {"toolEnd"}
         /\ pc' \in Prompting => pc \in Prompting
         /\ pc' \in {"policy", "exec"} => pc \in {"policy", "exec"}
         /\ pc' \in Early => pc \in Early
         /\ pc' \in Captured => pc \in Captured \cup {"drain"}
         /\ pc \in Over => pc' \in Over

\* The generator is gone, and with it its locals.
Forget ==
    /\ ForgetLocals
    /\ pc' = "dead" \/ (pc' = "close" /\ pc \notin Over)
    /\ UNCHANGED <<used, executed, gated>>

\* The turn loses its calls.
Abandon ==
    /\ pc = "stream" /\ pc' \in {"returned", "top"} /\ todo' = {}
    /\ UNCHANGED <<cur, prompt, used, batch, executed, gated>>

\* Each step is a plain move, or one of the few that change the turn.
LEMMA ExecMoves ==
    ASSUME [Next]_vars
    PROVE  \/ PlainMove \/ Forget \/ Abandon
           \/ EndTurn \/ Authorize \/ AskPermission \/ ExecuteTool \/ EndCall
           \/ \E c \in ToolCalls : \/ StreamToolStart(c) \/ BlockCall(c) \/ PassHooks(c)
                                   \/ \E h \in HookPrompts : AskHook(c, h)
                                   \/ \E k \in Consequence : EndBatchCall(c, k)
           \/ \E calls, ran \in SUBSET ToolCalls : RunBatch(calls, ran)
<1> USE DEF PlainMove, Forget, Abandon, Over, Go, handVars, turnVars, loopVars, seenVars, Early, InHand,
            Prompting, Captured
<1>1. CASE AcceptRun \/ StartRunner \/ BeginRun \/ InstallExecution \/ StartExecution \/ CaptureSignal
  BY <1>1 DEF AcceptRun, StartRunner, BeginRun, InstallExecution, StartExecution, CaptureSignal
<1>2. CASE ObserveAbort \/ HitLimit \/ BeginTurn \/ StreamOutput \/ StreamComplete
  BY <1>2 DEF ObserveAbort, HitLimit, BeginTurn, StreamOutput, StreamComplete
<1>3. CASE StreamBreak \/ StreamFails \/ StreamRetry
  BY <1>3 DEF StreamBreak, StreamFails, StreamRetry
<1>4. CASE AllowCall \/ RecordRequest \/ ParkRow \/ Park \/ Respond \/ Unpark \/ ReplayCached
  BY <1>4 DEF AllowCall, RecordRequest, ParkRow, Park, Respond, Unpark, ReplayCached
<1>5. CASE ReturnLoop \/ EventFails \/ Crash
  BY <1>5 DEF ReturnLoop, EventFails, Crash
<1>6. CASE CloseExecution \/ DropRuntime \/ MarkUnknown \/ FinishRun \/ LeaveRunner \/ FinalizeFails
  BY <1>6 DEF CloseExecution, DropRuntime, MarkUnknown, FinishRun, LeaveRunner, FinalizeFails
<1>7. CASE HitlTimeout \/ BulkDeny \/ TimerFires \/ DrainAll \/ SignalCancellation
  BY <1>7 DEF HitlTimeout, BulkDeny, TimerFires, DrainAll, SignalCancellation, Resolve, DenyAll
<1>8. CASE CancelCheck \/ CancelDurably \/ HookRecordFails \/ Boot \/ UNCHANGED vars
  BY <1>8 DEF CancelCheck, CancelDurably, HookRecordFails, Boot, RecoverRuns, RecoverEffects, vars
<1>9. ASSUME NEW d \in Deciders, Decider(d) PROVE PlainMove
  BY <1>9 DEF Decider, DecideCheck, DecideDurably, Deliver, ExpireStale, FinishDecision, MarkDecided,
     Resolve
<1>. QED
  BY <1>1, <1>2, <1>3, <1>4, <1>5, <1>6, <1>7, <1>8, <1>9 DEF Next, Consumer, Failures, Canceller

\* What the loop and the handlers have in hand stays a call, or a request.
LEMMA HandsStep ==
    ASSUME ExecInv, [Next]_vars
    PROVE  HandsFull'
<1> USE DEF ExecInv
<1>0. /\ todo \subseteq ToolCalls /\ ToolCalls \subseteq Calls /\ HookPrompts \subseteq Calls
      /\ dec \in [Deciders -> Decision]
  BY ExecutionAssumption DEF ExecTypeOK
<1>1. (pc \in InHand => cur \in todo)' /\ (pc \in Prompting => prompt \in Calls)'
  <2> USE DEF Go, InHand, Prompting
  <2>1. CASE PlainMove
    BY <2>1 DEF PlainMove, HandsFull
  <2>2. CASE Forget \/ Abandon \/ EndTurn
    BY <2>2 DEF Forget, Abandon, EndTurn
  <2>3. CASE Authorize \/ ExecuteTool \/ EndCall
    BY <2>3 DEF Authorize, ExecuteTool, EndCall, HandsFull, handVars, turnVars
  <2>4. CASE AskPermission
    BY <1>0, <2>4 DEF AskPermission, HandsFull, turnVars
  <2>5. ASSUME NEW c \in ToolCalls, StreamToolStart(c) \/ BlockCall(c) \/ PassHooks(c)
        PROVE  (pc \in InHand => cur \in todo)' /\ (pc \in Prompting => prompt \in Calls)'
    BY <2>5 DEF StreamToolStart, BlockCall, PassHooks, turnVars
  <2>6. ASSUME NEW c \in ToolCalls, NEW h \in HookPrompts, AskHook(c, h)
        PROVE  (pc \in InHand => cur \in todo)' /\ (pc \in Prompting => prompt \in Calls)'
    BY <1>0, <2>6 DEF AskHook
  <2>7. CASE \/ \E c \in ToolCalls, k \in Consequence : EndBatchCall(c, k)
             \/ \E calls, ran \in SUBSET ToolCalls : RunBatch(calls, ran)
    BY <2>7 DEF EndBatchCall, RunBatch
  <2>. QED
    BY <2>1, <2>2, <2>3, <2>4, <2>5, <2>6, <2>7, ExecMoves
<1>2. \A d \in Deciders : dec'[d].at \in {"decide", "deliver", "expire"} => dec'[d].p \in Calls
  <2>1. CASE UNCHANGED dec
    BY <2>1 DEF HandsFull
  <2>2. ASSUME NEW e \in Deciders, NEW x, dec' = [dec EXCEPT ![e] = x],
               x.at \in {"decide", "deliver", "expire"} => x.p \in Calls
        PROVE  \A d \in Deciders : dec'[d].at \in {"decide", "deliver", "expire"} => dec'[d].p \in Calls
    BY <1>0, <2>2 DEF HandsFull
  <2>3. Blank("done").at = "done"
    BY DEF Blank
  <2>4. ASSUME NEW e \in Deciders, Decider(e)
        PROVE  \/ UNCHANGED dec
               \/ \E x : /\ dec' = [dec EXCEPT ![e] = x]
                         /\ x.at \in {"decide", "deliver", "expire"} => x.p \in Calls
    <3>1. dec[e] \in Decision /\ (dec[e].at \in {"decide", "deliver", "expire"} => dec[e].p \in Calls)
      BY <1>0 DEF HandsFull
    <3>2. ASSUME NEW at \in {"deliver", "expire", "finish", "mark"},
                 dec[e].at \in {"decide", "deliver"} \/ at \in {"finish", "mark"}
          PROVE  [dec[e] EXCEPT !.at = at].at \in {"decide", "deliver", "expire"}
                   => [dec[e] EXCEPT !.at = at].p \in Calls
      BY <3>1, <3>2 DEF Decision
    <3>3. CASE \E p \in Calls, v \in Verdict, route \in {"decide", "resume"} : DecideCheck(e, p, v, route)
      BY <3>3 DEF DecideCheck
    <3>4. CASE DecideDurably(e)
      BY <2>3, <3>2, <3>4 DEF DecideDurably, Done
    <3>5. CASE Deliver(e)
      BY <2>3, <3>2, <3>5 DEF Deliver, Done
    <3>6. CASE ExpireStale(e) \/ FinishDecision(e) \/ MarkDecided(e)
      BY <2>3, <3>2, <3>6 DEF ExpireStale, FinishDecision, MarkDecided, Done
    <3>. QED
      BY <2>4, <3>3, <3>4, <3>5, <3>6 DEF Decider
  <2>5. CASE Crash
    BY <2>3, <2>5 DEF Crash
  <2>6. CASE Consumer
    BY <2>1, <2>6 DEF Consumer, AcceptRun, StartRunner, BeginRun, InstallExecution, StartExecution,
       CaptureSignal, ObserveAbort, HitLimit, BeginTurn, StreamOutput, StreamToolStart, StreamComplete,
       StreamBreak, StreamFails, StreamRetry, RunBatch, EndBatchCall, BlockCall, PassHooks, AskHook,
       AllowCall, AskPermission, RecordRequest, ParkRow, Park, Respond, Unpark, Authorize, ExecuteTool,
       ReplayCached, EndCall, EndTurn, ReturnLoop, CloseExecution, DropRuntime, MarkUnknown, FinishRun,
       LeaveRunner, handlerVars
  <2>7. CASE HitlTimeout \/ BulkDeny \/ TimerFires \/ DrainAll \/ Canceller \/ Boot \/ UNCHANGED vars
             \/ EventFails \/ HookRecordFails \/ FinalizeFails
    BY <2>1, <2>7 DEF HitlTimeout, BulkDeny, TimerFires, DrainAll, Canceller, CancelCheck, CancelDurably,
       SignalCancellation, Boot, RecoverRuns, RecoverEffects, EventFails, HookRecordFails, FinalizeFails,
       vars, handlerVars
  <2>. QED
    BY <2>1, <2>2, <2>4, <2>5, <2>6, <2>7 DEF Next, Failures
<1>. QED
  BY <1>1, <1>2 DEF HandsFull

\* No call is taken twice.
LEMMA TurnStep ==
    ASSUME ExecInv, [Next]_vars
    PROVE  TurnKept'
<1> USE DEF ExecInv
<1>0. /\ todo \subseteq ToolCalls /\ ToolCalls \cap HookPrompts = {} /\ batch \subseteq todo
      /\ pc \in InHand => cur \in todo
  BY ExecutionAssumption DEF ExecTypeOK, HandsFull
<1>1. CASE PlainMove
  BY <1>1 DEF PlainMove, TurnKept
<1>2. CASE Forget \/ Abandon
  BY <1>2 DEF Forget, ForgetLocals, Abandon, TurnKept
<1> USE DEF Go, InHand, Prompting, Early
<1>3. CASE EndTurn
  BY <1>3 DEF EndTurn, TurnKept, handVars, seenVars
<1>4. CASE Authorize
  BY <1>0, <1>4 DEF Authorize, TurnKept, handVars, turnVars, seenVars
<1>5. CASE AskPermission
  BY <1>0, <1>5 DEF AskPermission, TurnKept, turnVars
<1>6. CASE ExecuteTool
  BY <1>0, <1>6 DEF ExecuteTool, TurnKept, turnVars
<1>7. CASE EndCall
  BY <1>0, <1>7 DEF EndCall, TurnKept, seenVars
<1>8. ASSUME NEW c \in ToolCalls, StreamToolStart(c) PROVE TurnKept'
  BY <1>8 DEF StreamToolStart, TurnKept, handVars, seenVars
<1>9. ASSUME NEW c \in ToolCalls, BlockCall(c) \/ PassHooks(c) PROVE TurnKept'
  BY <1>9 DEF BlockCall, PassHooks, TurnKept, turnVars, seenVars
<1>10. ASSUME NEW c \in ToolCalls, NEW h \in HookPrompts, AskHook(c, h) PROVE TurnKept'
  BY <1>10 DEF AskHook, TurnKept
<1>11. ASSUME NEW c \in ToolCalls, NEW k \in Consequence, EndBatchCall(c, k) PROVE TurnKept'
  BY <1>11 DEF EndBatchCall, TurnKept, seenVars
<1>12. ASSUME NEW calls \in SUBSET ToolCalls, NEW ran \in SUBSET ToolCalls, RunBatch(calls, ran)
       PROVE  TurnKept'
  BY <1>12 DEF RunBatch, TurnKept
<1>. QED
  BY <1>1, <1>2, <1>3, <1>4, <1>5, <1>6, <1>7, <1>8, <1>9, <1>10, <1>11, <1>12, ExecMoves

\* No call gets past a prompt that is not spent.
LEMMA GateStep ==
    ASSUME ExecInv, [Next]_vars
    PROVE  GateKept' /\ GatedToolSpentApproval'
<1> USE DEF ExecInv
<1>0. /\ consumed \subseteq consumed'
      /\ todo \subseteq ToolCalls /\ (pc \in InHand => cur \in todo)
  BY ExecCallsStore, ForwardStep DEF StepForward, ExecTypeOK, HandsFull
<1>1. CASE PlainMove
  BY <1>0, <1>1 DEF PlainMove, GateKept, GatedToolSpentApproval
<1> USE DEF Go, InHand, Prompting
<1>2. CASE Forget \/ Abandon \/ EndTurn
  BY <1>0, <1>2 DEF Forget, Abandon, EndTurn, GateKept, GatedToolSpentApproval, seenVars
<1>3. CASE Authorize
  BY <1>0, <1>3 DEF Authorize, ConsumePermissionApproval, GateKept, GatedToolSpentApproval, handVars,
     seenVars
<1>4. CASE AskPermission
  BY <1>0, <1>4 DEF AskPermission, GateKept, GatedToolSpentApproval
<1>5. CASE ExecuteTool
  BY <1>0, <1>5 DEF ExecuteTool, GateKept, GatedToolSpentApproval
<1>6. CASE EndCall
  BY <1>0, <1>6 DEF EndCall, GateKept, GatedToolSpentApproval, seenVars
<1>7. ASSUME NEW c \in ToolCalls, StreamToolStart(c) \/ BlockCall(c) \/ PassHooks(c)
      PROVE  GateKept' /\ GatedToolSpentApproval'
  BY <1>0, <1>7 DEF StreamToolStart, BlockCall, PassHooks, GateKept, GatedToolSpentApproval, TurnKept,
     seenVars
<1>8. ASSUME NEW c \in ToolCalls, NEW h \in HookPrompts, AskHook(c, h)
      PROVE  GateKept' /\ GatedToolSpentApproval'
  BY <1>0, <1>8 DEF AskHook, GateKept, GatedToolSpentApproval, TurnKept
<1>9. ASSUME NEW c \in ToolCalls, NEW k \in Consequence, EndBatchCall(c, k)
      PROVE  GateKept' /\ GatedToolSpentApproval'
  BY <1>0, <1>9 DEF EndBatchCall, GateKept, GatedToolSpentApproval, seenVars
<1>10. ASSUME NEW calls \in SUBSET ToolCalls, NEW ran \in SUBSET ToolCalls, RunBatch(calls, ran)
       PROVE  GateKept' /\ GatedToolSpentApproval'
  BY <1>0, <1>10 DEF RunBatch, GateKept, GatedToolSpentApproval, TurnKept
<1>. QED
  BY <1>1, <1>2, <1>3, <1>4, <1>5, <1>6, <1>7, <1>8, <1>9, <1>10, ExecMoves

\* The row and the place of the run stay in step, and a terminal row is written by
\* the finalizer or by the boot.
LEMMA StatusMoves ==
    ASSUME ExecInv, [Next]_vars
    PROVE  /\ PlaceKept'
           /\ status[Run] \notin Terminal /\ status'[Run] \in Terminal => FinishRun \/ RecoverRuns
           /\ status[Run] # "waiting" /\ status'[Run] = "waiting" => ParkRow
<1> USE DEF ExecInv
<1>0. /\ status \in [Runs -> {"absent"} \cup Live \cup Terminal] /\ Run \in Runs
      /\ pc \in Where
  BY ExecutionAssumption DEF LedgerInv, RunStoreTypeOK, ExecTypeOK
<1>1. CASE FinishRun
  BY <1>0, <1>1 DEF FinishRun, MarkTerminal, Move, Go, PlaceKept, TerminalStatus, procVars
<1>2. CASE RecoverRuns
  BY <1>0, <1>2 DEF RecoverRuns, RecoverInterrupted, PlaceKept, loopVars, Live
<1>3. CASE AcceptRun \/ BeginRun \/ ParkRow \/ Unpark
  BY <1>0, <1>3 DEF AcceptRun, BeginRun, ParkRow, Unpark, Create, MarkRunning, MarkWaiting,
     MarkRunningAfterDecision, Move, Go, PlaceKept, procVars, Terminal
<1>4. CASE CancelDurably
  BY <1>0, <1>4 DEF CancelDurably, RequestCancel, Move, PlaceKept, loopVars, procVars, Terminal
<1>5. ASSUME NEW d \in Deciders, MarkDecided(d)
      PROVE  /\ PlaceKept'
             /\ status[Run] \notin Terminal => status'[Run] \notin Terminal
             /\ status[Run] # "waiting" => status'[Run] # "waiting"
  BY <1>0, <1>5 DEF MarkDecided, MarkRunningAfterDecision, Move, PlaceKept, loopVars, procVars, Terminal
<1>6. ASSUME UNCHANGED status, UNCHANGED gateway \/ gateway' = "up" \/ pc' = "dead",
             \/ pc' \in {pc, "dead"}
             \/ gateway = "up" /\ (pc' = "boot" \/ pc \notin {"off", "accepted", "boot", "dead"})
      PROVE  PlaceKept'
  BY <1>6 DEF PlaceKept
<1>7. CASE Crash \/ RecoverEffects
  BY <1>6, <1>7 DEF Crash, RecoverEffects, ReconcileInterrupted, Reconcile, storeVars, loopVars
<1>. QED
  <2>1. ASSUME Consumer, ~AcceptRun, ~BeginRun, ~ParkRow, ~Unpark, ~FinishRun
        PROVE  /\ UNCHANGED <<status, gateway>>
               /\ \/ pc' = pc
                  \/ gateway = "up" /\ (pc' = "boot" \/ pc \notin {"off", "accepted", "boot", "dead"})
    <3>1. CASE \/ StartRunner \/ InstallExecution \/ StartExecution \/ CaptureSignal \/ ObserveAbort \/ HitLimit
               \/ BeginTurn \/ StreamOutput \/ StreamComplete \/ StreamBreak \/ StreamFails \/ StreamRetry
      BY <3>1 DEF StartRunner, InstallExecution, StartExecution, CaptureSignal, ObserveAbort,
         HitLimit, BeginTurn, StreamOutput, StreamComplete, StreamBreak, StreamFails, StreamRetry,
         AdvanceConsequence, Go, procVars, storeVars
    <3>2. CASE \/ \E c \in ToolCalls : \/ StreamToolStart(c) \/ BlockCall(c) \/ PassHooks(c)
                                       \/ \E h \in HookPrompts : AskHook(c, h)
                                       \/ \E k \in Consequence : EndBatchCall(c, k)
               \/ \E calls, ran \in SUBSET ToolCalls : RunBatch(calls, ran)
      BY <3>2 DEF StreamToolStart, BlockCall, PassHooks, AskHook, EndBatchCall, RunBatch, ObserveIntent,
         ObserveOutcome, Go, procVars, storeVars
    <3>3. CASE \/ AllowCall \/ AskPermission \/ RecordRequest \/ Park \/ Respond \/ Authorize \/ ExecuteTool
               \/ ReplayCached \/ EndCall \/ EndTurn
      BY <3>3 DEF AllowCall, AskPermission, RecordRequest, Park, Respond, Authorize, ExecuteTool,
         ReplayCached, EndCall, EndTurn, RecordPermissionRequest, DecidePermission,
         ConsumePermissionApproval, ObserveOutcome, Go, procVars, storeVars
    <3>4. CASE ReturnLoop \/ CloseExecution \/ DropRuntime \/ MarkUnknown \/ LeaveRunner
      BY <3>4 DEF ReturnLoop, CloseExecution, DropRuntime, MarkUnknown, LeaveRunner,
         MarkPendingUnknownForRun, Reconcile, Go, procVars, storeVars
    <3>. QED
      BY <2>1, <3>1, <3>2, <3>3, <3>4 DEF Consumer
  <2>2. ASSUME \/ HitlTimeout \/ BulkDeny \/ TimerFires \/ DrainAll \/ CancelCheck \/ SignalCancellation
               \/ EventFails \/ HookRecordFails \/ FinalizeFails \/ UNCHANGED vars
        PROVE  /\ UNCHANGED <<status, gateway>>
               /\ pc' = pc \/ (pc \notin {"off", "accepted", "boot", "dead"} /\ gateway = "up")
    BY <2>2 DEF HitlTimeout, BulkDeny, TimerFires, DrainAll, CancelCheck, SignalCancellation, EventFails,
       HookRecordFails, FinalizeFails, vars, Resolve, DenyAll, loopVars, procVars, storeVars
  <2>3. ASSUME NEW d \in Deciders, Decider(d), ~MarkDecided(d)
        PROVE  /\ UNCHANGED <<status, gateway>>
               /\ pc' = pc \/ (pc \notin {"off", "accepted", "boot", "dead"} /\ gateway = "up")
    BY <2>3 DEF Decider, DecideCheck, DecideDurably, Deliver, ExpireStale, FinishDecision,
       DecidePermission, ExpirePermission, Resolve, loopVars, procVars, storeVars
  <2>4. CASE Crash \/ RecoverEffects
    BY <1>7, <2>4 DEF Crash, RecoverEffects, ReconcileInterrupted, Reconcile, storeVars
  <2>. QED
    BY <1>1, <1>2, <1>3, <1>4, <1>5, <1>6, <2>1, <2>2, <2>3, <2>4
    DEF Next, Failures, Canceller, Boot

-----------------------------------------------------------------------------
(* The end of the run *)

\* Only recording a request opens one, and only an open one can be approved.
LEMMA RequestMoves ==
    ASSUME ExecInv, [Next]_vars, ~RecordRequest, NEW c \in Calls
    PROVE  /\ perm'[<<Run, c>>] = "pending" => perm[<<Run, c>>] = "pending"
           /\ perm'[<<Run, c>>] = "approved" => perm[<<Run, c>>] \in {"pending", "approved"}
<1> USE DEF ExecInv
<1>0. <<Run, c>> \in Row /\ RunStoreTypeOK /\ perm \in [Row -> {"none", "pending", "approved", "denied", "expired"}]
  BY ExecutionAssumption DEF Row, LedgerInv, RunStoreTypeOK
<1>1. CASE UNCHANGED perm
  BY <1>1
<1>2. ASSUME NEW rs, ExpireUnconsumed(rs) PROVE perm'[<<Run, c>>] \in {perm[<<Run, c>>], "expired"}
  BY <1>0, <1>2, ExpireFacts
<1>3. CASE FinishRun \/ CancelDurably \/ RecoverRuns
  BY <1>2, <1>3 DEF FinishRun, MarkTerminal, CancelDurably, RequestCancel, RecoverRuns, RecoverInterrupted
<1>4. ASSUME NEW p, NEW v \in Verdict, DecidePermission(Run, p, v)
      PROVE  \/ perm'[<<Run, c>>] = perm[<<Run, c>>]
             \/ perm'[<<Run, c>>] \in Verdict /\ perm[<<Run, c>>] = "pending"
  BY <1>0, <1>4 DEF DecidePermission
<1>5. CASE Respond
  BY <1>0, <1>1, <1>4, <1>5 DEF Respond, storeVars, Verdict
<1>6. ASSUME NEW d \in Deciders, DecideDurably(d)
      PROVE  \/ perm'[<<Run, c>>] = perm[<<Run, c>>]
             \/ perm'[<<Run, c>>] \in Verdict /\ perm[<<Run, c>>] = "pending"
  <2>1. dec[d].v \in Verdict
    BY DEF ExecTypeOK, Decision
  <2>. QED
    BY <1>4, <1>6, <2>1 DEF DecideDurably, storeVars
<1>7. ASSUME NEW d \in Deciders, ExpireStale(d) PROVE perm'[<<Run, c>>] \in {perm[<<Run, c>>], "expired"}
  BY <1>0, <1>7 DEF ExpireStale, ExpirePermission
<1>8. ASSUME \/ AcceptRun \/ BeginRun \/ StreamOutput \/ ParkRow \/ Unpark \/ Authorize \/ EndCall \/ MarkUnknown
             \/ \E x \in ToolCalls : StreamToolStart(x) \/ \E k \in Consequence : EndBatchCall(x, k)
             \/ \E d \in Deciders : MarkDecided(d)
             \/ RecoverEffects \/ UNCHANGED storeVars
      PROVE  UNCHANGED perm
  BY <1>8 DEF AcceptRun, Create, BeginRun, MarkRunning, StreamOutput, AdvanceConsequence, ParkRow, MarkWaiting,
     Unpark, MarkRunningAfterDecision, Authorize, ConsumePermissionApproval, EndCall, ObserveOutcome, MarkUnknown,
     MarkPendingUnknownForRun, Reconcile, StreamToolStart, ObserveIntent, EndBatchCall, MarkDecided,
     RecoverEffects, ReconcileInterrupted, storeVars
<1>. QED
  BY <1>1, <1>3, <1>5, <1>6, <1>7, <1>8, StoreFrame DEF StoreCall, Verdict

\* A finished run stays over: its consumer does nothing more, and no request of it
\* is open or can be spent.
LEMMA FinishedStep ==
    ASSUME ExecInv, [Next]_vars
    PROVE  FinishedRunIsClosed'
<1> USE DEF ExecInv
<1>0. /\ RunStoreTypeOK /\ Run \in Runs /\ consumed \subseteq consumed'
      /\ SpentApprovalIsReceipted
  BY ExecutionAssumption, ExecCallsStore, ForwardStep DEF LedgerInv, StepForward
<1>1. ASSUME pc \in Over PROVE pc' \in Over /\ ~RecordRequest
  <2>1. ~RecordRequest /\ ~EndTurn /\ ~Authorize /\ ~AskPermission /\ ~ExecuteTool /\ ~EndCall
    BY <1>1 DEF RecordRequest, EndTurn, Authorize, AskPermission, ExecuteTool, EndCall, Go, Over
  <2>2. ASSUME NEW c \in ToolCalls, NEW h \in HookPrompts PROVE ~AskHook(c, h)
    BY <1>1 DEF AskHook, Go, Over
  <2>6. ASSUME NEW c \in ToolCalls, NEW k \in Consequence PROVE ~EndBatchCall(c, k)
    BY <1>1 DEF EndBatchCall, Over
  <2>3. ASSUME NEW c \in ToolCalls PROVE ~StreamToolStart(c) /\ ~BlockCall(c) /\ ~PassHooks(c)
    BY <1>1 DEF StreamToolStart, BlockCall, PassHooks, Go, Over
  <2>4. ASSUME NEW calls, NEW ran PROVE ~RunBatch(calls, ran)
    BY <1>1 DEF RunBatch, Go, Over
  <2>5. PlainMove \/ Forget \/ Abandon
    BY <2>1, <2>2, <2>3, <2>4, <2>6, ExecMoves
  <2>. QED
    BY <1>1, <2>1, <2>5 DEF PlainMove, Forget, Abandon, Over
<1>2. SUFFICES ASSUME status'[Run] \in Terminal
               PROVE  /\ pc' \in Over
                      /\ \A c \in Calls : /\ perm'[<<Run, c>>] # "pending"
                                          /\ perm'[<<Run, c>>] = "approved" => <<Run, c>> \in consumed'
  BY DEF FinishedRunIsClosed, Consumable, Over
<1>3. CASE status[Run] \in Terminal
  <2>1. pc \in Over /\ \A c \in Calls : /\ perm[<<Run, c>>] # "pending"
                                        /\ perm[<<Run, c>>] = "approved" => <<Run, c>> \in consumed
    BY <1>3 DEF FinishedRunIsClosed, Consumable, Over
  <2>. QED
    BY <1>0, <1>1, <2>1, RequestMoves
<1>4. ASSUME NEW rs, ExpireUnconsumed(rs), Run \in rs, UNCHANGED consumed, NEW c \in Calls
      PROVE  /\ perm'[<<Run, c>>] # "pending"
             /\ perm'[<<Run, c>>] = "approved" => <<Run, c>> \in consumed'
  <2>1. <<Run, c>> \in Row
    BY <1>0 DEF Row
  <2>2. perm[<<Run, c>>] = "pending" => <<Run, c>> \notin consumed
    BY <1>0 DEF SpentApprovalIsReceipted
  <2>. QED
    BY <1>4, <2>1, <2>2 DEF ExpireUnconsumed
<1>5. CASE FinishRun
  BY <1>4, <1>5 DEF FinishRun, MarkTerminal, Go, Over
<1>6. CASE RecoverRuns /\ status[Run] \notin Terminal
  <2>1. status[Run] \in Live
    BY <1>0, <1>2, <1>6 DEF RecoverRuns, RecoverInterrupted
  <2>2. pc' = "dead"
    BY <1>6 DEF RecoverRuns, PlaceKept, loopVars
  <2>. QED
    BY <1>0, <1>4, <1>6, <2>1, <2>2 DEF RecoverRuns, RecoverInterrupted, Over
<1>. QED
  BY <1>2, <1>3, <1>5, <1>6, StatusMoves

-----------------------------------------------------------------------------
(* The evidence *)

\* The steps that write effect rows.
EffectCall ==
    \/ EndCall \/ MarkUnknown \/ RecoverEffects
    \/ \E c \in ToolCalls : StreamToolStart(c) \/ \E k \in Consequence : EndBatchCall(c, k)

\* Every other step leaves them alone, and the steps that run a tool write none.
LEMMA EffectFrame ==
    ASSUME [Next]_vars, ~EffectCall
    PROVE  UNCHANGED effect
<1>1. CASE \/ AcceptRun \/ BeginRun \/ StreamOutput \/ RecordRequest \/ ParkRow \/ Respond \/ Unpark \/ Authorize
           \/ FinishRun \/ CancelDurably \/ RecoverRuns
  BY <1>1 DEF AcceptRun, BeginRun, StreamOutput, RecordRequest, ParkRow, Respond, Unpark, Authorize,
     FinishRun, CancelDurably, RecoverRuns, Create, MarkRunning, AdvanceConsequence, RecordPermissionRequest,
     MarkWaiting, DecidePermission, MarkRunningAfterDecision, ConsumePermissionApproval, MarkTerminal,
     RequestCancel, RecoverInterrupted, storeVars
<1>2. CASE \E d \in Deciders : DecideDurably(d) \/ ExpireStale(d) \/ MarkDecided(d)
  BY <1>2 DEF DecideDurably, ExpireStale, MarkDecided, DecidePermission, ExpirePermission,
     MarkRunningAfterDecision, storeVars
<1>. QED
  BY <1>1, <1>2, StoreFrame DEF StoreCall, EffectCall, storeVars

\* Giving up the open intents of a run leaves it with none, and with a consequence
\* that admits them.
LEMMA ReconcileFacts ==
    ASSUME RunStoreTypeOK, NEW rs, Reconcile(rs), NEW c \in Calls, Run \in Runs
    PROVE  /\ effect[<<Run, c>>] # "pending" => effect'[<<Run, c>>] = effect[<<Run, c>>]
           /\ Run \notin rs => effect'[<<Run, c>>] = effect[<<Run, c>>]
           /\ Run \in rs /\ effect[<<Run, c>>] = "pending" => consequence'[Run] >= EffectPossible
<1>1. <<Run, c>> \in Row
  BY DEF Row
<1>2. effect'[<<Run, c>>] = IF Run \in rs /\ effect[<<Run, c>>] = "pending" THEN "unknown" ELSE effect[<<Run, c>>]
  BY <1>1 DEF Reconcile
<1>3. Run \in rs /\ effect[<<Run, c>>] = "pending" => consequence'[Run] = Greater(consequence[Run], EffectPossible)
  BY DEF Reconcile
<1>4. Greater(consequence[Run], EffectPossible) >= EffectPossible
  BY DEF Greater, EffectPossible, RunStoreTypeOK, Consequence
<1>. QED
  BY <1>2, <1>3, <1>4

\* What an outcome leaves behind.
LEMMA OutcomeFacts ==
    ASSUME RunStoreTypeOK, NEW c \in Calls, NEW k \in Consequence, ObserveOutcome(Run, c, k), Run \in Runs
    PROVE  /\ \A e \in Calls : e # c => effect'[<<Run, e>>] = effect[<<Run, e>>]
           /\ k = EffectPossible => consequence'[Run] >= EffectPossible
<1>1. \A e \in Calls : <<Run, e>> \in Row
  BY DEF Row
<1>2. \A e \in Calls : e # c => effect'[<<Run, e>>] = effect[<<Run, e>>]
  BY <1>1 DEF ObserveOutcome, RunStoreTypeOK
<1>3. consequence'[Run] = Greater(consequence[Run], k)
  BY DEF ObserveOutcome, RunStoreTypeOK
<1>. QED
  BY <1>2, <1>3 DEF Greater, EffectPossible, RunStoreTypeOK, Consequence

\* The finalizer is reached through MarkUnknown, and the gateway comes back up
\* through RecoverEffects.
LEMMA WayToTheEnd ==
    ASSUME [Next]_vars
    PROVE  /\ pc' \in {"finish", "leave"} => pc \in {"finish", "leave"} \/ MarkUnknown
           /\ gateway' = "up" => gateway = "up" \/ RecoverEffects
<1> USE DEF Go, loopVars, procVars
<1>1. CASE \/ AcceptRun \/ StartRunner \/ BeginRun \/ InstallExecution \/ StartExecution \/ CaptureSignal
           \/ ObserveAbort \/ HitLimit \/ BeginTurn \/ StreamOutput \/ StreamComplete \/ StreamBreak
           \/ StreamFails \/ StreamRetry
  BY <1>1 DEF AcceptRun, StartRunner, BeginRun, InstallExecution, StartExecution, CaptureSignal,
     ObserveAbort, HitLimit, BeginTurn, StreamOutput, StreamComplete, StreamBreak, StreamFails, StreamRetry
<1>2. CASE \/ \E c \in ToolCalls : \/ StreamToolStart(c) \/ BlockCall(c) \/ PassHooks(c)
                                   \/ \E h \in HookPrompts : AskHook(c, h)
                                   \/ \E k \in Consequence : EndBatchCall(c, k)
           \/ \E calls, ran \in SUBSET ToolCalls : RunBatch(calls, ran)
  BY <1>2 DEF StreamToolStart, BlockCall, PassHooks, AskHook, EndBatchCall, RunBatch
<1>3. CASE \/ AllowCall \/ AskPermission \/ RecordRequest \/ ParkRow \/ Park \/ Respond \/ Unpark
           \/ Authorize \/ ExecuteTool \/ ReplayCached \/ EndCall \/ EndTurn
  BY <1>3 DEF AllowCall, AskPermission, RecordRequest, ParkRow, Park, Respond, Unpark, Authorize,
     ExecuteTool, ReplayCached, EndCall, EndTurn
<1>4. CASE \/ ReturnLoop \/ CloseExecution \/ DropRuntime \/ MarkUnknown \/ FinishRun \/ LeaveRunner
           \/ EventFails \/ HookRecordFails \/ FinalizeFails \/ Crash
  BY <1>4 DEF ReturnLoop, CloseExecution, DropRuntime, FinishRun, LeaveRunner, EventFails,
     HookRecordFails, FinalizeFails, Crash, MarkUnknown
<1>5. CASE \/ HitlTimeout \/ BulkDeny \/ TimerFires \/ DrainAll \/ Canceller \/ Boot \/ UNCHANGED vars
  BY <1>5 DEF HitlTimeout, BulkDeny, TimerFires, DrainAll, Canceller, CancelCheck, CancelDurably,
     SignalCancellation, Boot, RecoverRuns, vars, Resolve, DenyAll, RecoverEffects
<1>6. ASSUME NEW d \in Deciders, Decider(d) PROVE pc' \in {pc, "respond"} /\ UNCHANGED gateway
  BY <1>6 DEF Decider, DecideCheck, DecideDurably, Deliver, ExpireStale, FinishDecision, MarkDecided,
     Resolve
<1>. QED
  BY <1>1, <1>2, <1>3, <1>4, <1>5, <1>6 DEF Next, Consumer, Failures

\* Open intents are given up by the finalizer, or by the boot.
LEMMA AccountedBy ==
    ASSUME ExecInv, [Next]_vars, ~Accounted, Accounted'
    PROVE  MarkUnknown \/ (RecoverEffects /\ status[Run] = "indeterminate")
<1> USE DEF ExecInv
<1>1. /\ status[Run] \in Terminal => status'[Run] = status[Run]
      /\ Run \in Runs /\ status \in [Runs -> {"absent"} \cup Live \cup Terminal]
  BY ExecutionAssumption, ExecCallsStore, ForwardStep DEF StepForward, LedgerInv, RunStoreTypeOK
<1>2. ~FinishRun
  BY DEF FinishRun, Go, Accounted
<1>3. ASSUME RecoverRuns, status[Run] \notin Terminal PROVE status'[Run] \notin Terminal \ {"indeterminate"}
  BY <1>1, <1>3 DEF RecoverRuns, RecoverInterrupted
<1>4. RecoverRuns => gateway' # "up"
  BY DEF RecoverRuns
<1>5. CASE pc' \in {"finish", "leave"}
  BY <1>5, WayToTheEnd DEF Accounted
<1>6. CASE status'[Run] \in Terminal
  <2>1. status[Run] \in Terminal \/ RecoverRuns
    BY <1>2, <1>6, StatusMoves
  <2>2. CASE status[Run] \in Terminal
    <3>1. status[Run] = "indeterminate" /\ gateway # "up"
      BY <2>2 DEF Accounted
    <3>2. CASE gateway' = "up"
      BY <3>1, <3>2, WayToTheEnd
    <3>. QED
      BY <1>1, <1>5, <2>2, <3>1, <3>2 DEF Accounted
  <2>3. CASE RecoverRuns /\ status[Run] \notin Terminal
    BY <1>3, <1>4, <1>5, <2>3 DEF Accounted
  <2>. QED
    BY <2>1, <2>2, <2>3
<1>. QED
  BY <1>5, <1>6 DEF Accounted, Terminal

\* No step loses the evidence of a tool that ran.
LEMMA EvidenceStep ==
    ASSUME ExecInv, [Next]_vars
    PROVE  EvidenceKept'
<1> USE DEF ExecInv
<1>0. /\ RunStoreTypeOK /\ Run \in Runs /\ ToolCalls \subseteq Calls
      /\ todo \subseteq ToolCalls /\ executed \subseteq ToolCalls /\ batch \subseteq todo
      /\ todo \subseteq used
      /\ pc \in InHand => cur \in todo
      /\ pc \in InHand \ {"toolEnd"} => cur \notin executed
  BY ExecutionAssumption DEF ExecTypeOK, HandsFull, TurnKept, GateKept
<1>m. ASSUME consequence[Run] >= EffectPossible PROVE consequence'[Run] >= EffectPossible
  <2>1. consequence[Run] <= consequence'[Run]
    BY <1>0, ExecCallsStore, ForwardStep DEF StepForward
  <2>2. RunStoreTypeOK'
    BY ExecTypesStep DEF ExecTypeOK
  <2>. QED
    BY <1>0, <1>m, <2>1, <2>2 DEF RunStoreTypeOK, Consequence, EffectPossible
<1>w. Weight \in Consequence
  BY DEF Weight, OutputObserved, EffectPossible, Consequence
\* What happens to the effect row of a call.
<1>e. ASSUME NEW c \in ToolCalls
      PROVE  \/ effect'[<<Run, c>>] = effect[<<Run, c>>]
             \/ StreamToolStart(c)
             \/ EndCall /\ c = cur
             \/ \E k \in Consequence : EndBatchCall(c, k)
             \/ /\ MarkUnknown \/ (RecoverEffects /\ status[Run] = "indeterminate")
                /\ effect[<<Run, c>>] = "pending" /\ consequence'[Run] >= EffectPossible
  <2>1. CASE ~EffectCall
    BY <2>1, EffectFrame
  <2>2. CASE EndCall /\ c # cur
    BY <1>0, <1>w, <2>2, OutcomeFacts DEF EndCall, Go, InHand
  <2>3. ASSUME NEW x \in ToolCalls, NEW k \in Consequence, EndBatchCall(x, k), x # c
        PROVE  effect'[<<Run, c>>] = effect[<<Run, c>>]
    BY <1>0, <2>3, OutcomeFacts DEF EndBatchCall
  <2>4. ASSUME NEW x \in ToolCalls, StreamToolStart(x), x # c
        PROVE  effect'[<<Run, c>>] = effect[<<Run, c>>]
    <3>1. <<Run, c>> \in Row /\ <<Run, x>> \in Row
      BY <1>0 DEF Row
    <3>. QED
      BY <1>0, <2>4, <3>1 DEF StreamToolStart, ObserveIntent, RunStoreTypeOK
  <2>5. CASE MarkUnknown
    BY <1>0, <2>5, ReconcileFacts DEF MarkUnknown, MarkPendingUnknownForRun
  <2>6. CASE RecoverEffects
    <3>1. Run \in {r \in Runs : status[r] = "indeterminate"} <=> status[Run] = "indeterminate"
      BY <1>0
    <3>. QED
      BY <1>0, <2>6, <3>1, ReconcileFacts DEF RecoverEffects, ReconcileInterrupted
  <2>. QED
    BY <2>1, <2>2, <2>3, <2>4, <2>5, <2>6 DEF EffectCall
<1>u. used \subseteq used' /\ executed \subseteq executed'
  BY ExecMoves DEF PlainMove, Forget, Abandon, EndTurn, Authorize, AskPermission, ExecuteTool, EndCall,
     StreamToolStart, BlockCall, PassHooks, AskHook, EndBatchCall, RunBatch, turnVars, seenVars
<1>1. ASSUME NEW c \in ToolCalls \ used' PROVE effect'[<<Run, c>>] = "none"
  <2>1. c \notin used /\ c \notin todo /\ effect[<<Run, c>>] = "none"
    BY <1>0, <1>u DEF EvidenceKept
  <2>2. ~StreamToolStart(c) /\ ~(EndCall /\ c = cur)
    BY <1>0, <2>1 DEF StreamToolStart, EndCall, Go, InHand
  <2>3. ASSUME NEW k PROVE ~EndBatchCall(c, k)
    BY <1>0, <2>1 DEF EndBatchCall
  <2>. QED
    BY <1>e, <2>1, <2>2, <2>3
<1>2. ASSUME pc' \in Captured, NEW c \in todo' PROVE effect'[<<Run, c>>] = "pending"
  <2>1. (c \in todo /\ pc \in Captured) \/ StreamToolStart(c)
    <3> USE DEF Go, Captured
    <3>1. CASE PlainMove
      BY <1>2, <3>1 DEF PlainMove, TurnKept, Early
    <3>2. CASE Forget \/ Abandon \/ EndTurn
      BY <1>2, <3>2 DEF Forget, ForgetLocals, Abandon, EndTurn, Prompting
    <3>3. CASE Authorize \/ AskPermission \/ ExecuteTool \/ EndCall
      BY <1>2, <3>3 DEF Authorize, AskPermission, ExecuteTool, EndCall, turnVars, Prompting
    <3>4. ASSUME NEW x \in ToolCalls, \/ StreamToolStart(x) \/ BlockCall(x) \/ PassHooks(x)
                                      \/ \E h \in HookPrompts : AskHook(x, h)
                                      \/ \E k \in Consequence : EndBatchCall(x, k)
          PROVE  (c \in todo /\ pc \in Captured) \/ StreamToolStart(c)
      BY <1>2, <3>4 DEF StreamToolStart, BlockCall, PassHooks, AskHook, EndBatchCall, turnVars
    <3>5. CASE \E calls, ran \in SUBSET ToolCalls : RunBatch(calls, ran)
      BY <1>2, <3>5 DEF RunBatch
    <3>. QED
      BY <3>1, <3>2, <3>3, <3>4, <3>5, ExecMoves
  <2>2. CASE StreamToolStart(c)
    <3>1. c \in ToolCalls \ used
      BY <2>2 DEF StreamToolStart
    <3>2. effect[<<Run, c>>] = "none" /\ <<Run, c>> \in Row
      BY <1>0, <3>1 DEF EvidenceKept, Row
    <3>. QED
      BY <1>0, <2>2, <3>2 DEF StreamToolStart, ObserveIntent, RunStoreTypeOK
  <2>3. CASE c \in todo /\ pc \in Captured
    <3>1. effect[<<Run, c>>] = "pending" /\ c \in ToolCalls /\ c \in used
      BY <1>0, <2>3 DEF EvidenceKept
    <3>2. ~StreamToolStart(c) /\ ~(EndCall /\ c = cur) /\ ~MarkUnknown
      BY <1>2, <2>3, <3>1 DEF StreamToolStart, EndCall, MarkUnknown, Go, Captured, Prompting
    <3>3. ASSUME NEW k PROVE ~EndBatchCall(c, k)
      BY <1>2 DEF EndBatchCall
    <3>4. ~RecoverEffects
      BY <2>3 DEF RecoverEffects, PlaceKept, Captured, Prompting
    <3>. QED
      BY <1>e, <3>1, <3>2, <3>3, <3>4
  <2>. QED
    BY <2>1, <2>2, <2>3
<1>3. ASSUME pc' = "toolEnd", cur' \in executed' PROVE cached' = FALSE
  <2> USE DEF Go, Prompting, InHand
  <2>1. CASE Consumer
    <3>1. CASE AllowCall \/ Unpark \/ ExecuteTool \/ \E c \in ToolCalls : BlockCall(c)
      BY <3>1 DEF AllowCall, Unpark, ExecuteTool, BlockCall
    <3>2. CASE ReplayCached \/ Authorize
      BY <1>0, <1>3, <3>2 DEF ReplayCached, Authorize, handVars, seenVars
    <3>3. CASE \/ AcceptRun \/ StartRunner \/ BeginRun \/ InstallExecution \/ StartExecution \/ CaptureSignal
               \/ ObserveAbort \/ HitLimit \/ BeginTurn \/ StreamOutput \/ StreamComplete \/ StreamBreak
               \/ StreamFails \/ StreamRetry
      BY <1>3, <3>3 DEF AcceptRun, StartRunner, BeginRun, InstallExecution, StartExecution, CaptureSignal,
         ObserveAbort, HitLimit, BeginTurn, StreamOutput, StreamComplete, StreamBreak, StreamFails, StreamRetry
    <3>4. CASE \/ AskPermission \/ RecordRequest \/ ParkRow \/ Park \/ Respond \/ EndCall \/ EndTurn
               \/ ReturnLoop \/ CloseExecution \/ DropRuntime \/ MarkUnknown \/ FinishRun \/ LeaveRunner
      BY <1>3, <3>4 DEF AskPermission, RecordRequest, ParkRow, Park, Respond, EndCall, EndTurn,
         ReturnLoop, CloseExecution, DropRuntime, MarkUnknown, FinishRun, LeaveRunner
    <3>5. CASE \/ \E c \in ToolCalls : \/ StreamToolStart(c) \/ PassHooks(c)
                                       \/ \E h \in HookPrompts : AskHook(c, h)
                                       \/ \E k \in Consequence : EndBatchCall(c, k)
               \/ \E calls, ran \in SUBSET ToolCalls : RunBatch(calls, ran)
      BY <1>3, <3>5 DEF StreamToolStart, PassHooks, AskHook, EndBatchCall, RunBatch
    <3>. QED
      BY <2>1, <3>1, <3>2, <3>3, <3>4, <3>5 DEF Consumer
  <2>2. CASE HitlTimeout \/ BulkDeny \/ TimerFires \/ DrainAll \/ Canceller
    BY <1>3, <2>2 DEF HitlTimeout, BulkDeny, TimerFires, DrainAll, Canceller, CancelCheck, CancelDurably,
       SignalCancellation, Resolve, DenyAll, loopVars, handVars, seenVars, EvidenceKept
  <2>3. CASE Failures
    BY <1>3, <2>3 DEF Failures, EventFails, HookRecordFails, FinalizeFails, Crash
  <2>4. CASE Boot \/ UNCHANGED vars
    BY <1>3, <2>4 DEF Boot, RecoverRuns, RecoverEffects, vars, loopVars, handVars, seenVars, EvidenceKept
  <2>5. ASSUME NEW d \in Deciders, Decider(d) PROVE cached' = FALSE
    <3>1. UNCHANGED <<executed, cur, cached>> /\ pc' \in {pc, "respond"}
      BY <2>5 DEF Decider, DecideCheck, DecideDurably, Deliver, ExpireStale, FinishDecision,
         MarkDecided, Resolve, loopVars, handVars, seenVars
    <3>. QED
      BY <1>3, <3>1 DEF EvidenceKept
  <2>. QED
    BY <2>1, <2>2, <2>3, <2>4, <2>5 DEF Next
<1>4. ASSUME NEW c \in executed' PROVE effect'[<<Run, c>>] = "pending" \/ consequence'[Run] >= EffectPossible
  <2>1. CASE c \in executed
    <3>1. effect[<<Run, c>>] = "pending" \/ consequence[Run] >= EffectPossible
      BY <2>1 DEF EvidenceKept
    <3>2. c \in ToolCalls /\ c \in used
      BY <1>0, <2>1 DEF TurnKept
    <3>3. ~StreamToolStart(c)
      BY <3>2 DEF StreamToolStart
    <3>4. ASSUME EndCall, c = cur PROVE consequence'[Run] >= EffectPossible
      <4>1. Weight = EffectPossible /\ cur \in Calls
        BY <1>0, <2>1, <3>4 DEF EndCall, Go, InHand, EvidenceKept, Weight
      <4>. QED
        BY <1>0, <1>w, <3>4, <4>1, OutcomeFacts DEF EndCall
    <3>5. ASSUME NEW k \in Consequence, EndBatchCall(c, k) PROVE consequence'[Run] >= EffectPossible
      BY <1>0, <2>1, <3>2, <3>5, OutcomeFacts DEF EndBatchCall
    <3>. QED
      BY <1>e, <1>m, <3>1, <3>2, <3>3, <3>4, <3>5
  <2>2. CASE c \notin executed
    <3>1. /\ ExecuteTool \/ \E calls, ran \in SUBSET ToolCalls : RunBatch(calls, ran)
          /\ c \in todo
      BY <1>0, <1>4, <2>2, ExecMoves DEF PlainMove, Forget, Abandon, EndTurn, Authorize, AskPermission,
         ExecuteTool, EndCall, StreamToolStart, BlockCall, PassHooks, AskHook, EndBatchCall, RunBatch,
         seenVars, Go, InHand
    <3>2. UNCHANGED effect /\ pc \in Captured
      BY <3>1 DEF ExecuteTool, RunBatch, storeVars, Go, Captured
    <3>. QED
      BY <3>1, <3>2 DEF EvidenceKept
  <2>. QED
    BY <2>1, <2>2
<1>5. ASSUME executed' # {}, Accounted' PROVE consequence'[Run] >= EffectPossible
  <2>1. CASE ~Accounted
    <3>1. MarkUnknown \/ (RecoverEffects /\ status[Run] = "indeterminate")
      BY <1>5, <2>1, AccountedBy
    <3>2. UNCHANGED executed
      BY <3>1 DEF MarkUnknown, RecoverEffects, seenVars
    <3>3. PICK c \in executed : TRUE
      BY <1>5, <3>2
    <3>4. effect[<<Run, c>>] = "pending" \/ consequence[Run] >= EffectPossible
      BY DEF EvidenceKept
    <3>5. effect[<<Run, c>>] = "pending" => consequence'[Run] >= EffectPossible
      <4>1. Run \in {r \in Runs : status[r] = "indeterminate"} <=> status[Run] = "indeterminate"
        BY <1>0
      <4>. QED
        BY <1>0, <3>1, <4>1, ReconcileFacts DEF MarkUnknown, MarkPendingUnknownForRun, RecoverEffects,
           ReconcileInterrupted
    <3>. QED
      BY <1>m, <3>4, <3>5
  <2>2. CASE Accounted
    <3>1. pc \notin {"exec", "tools"}
      BY <2>2 DEF Accounted, FinishedRunIsClosed, Terminal
    <3>2. UNCHANGED executed
      BY <3>1, ExecMoves DEF PlainMove, Forget, Abandon, EndTurn, Authorize, AskPermission,
         ExecuteTool, EndCall, StreamToolStart, BlockCall, PassHooks, AskHook, EndBatchCall, RunBatch,
         seenVars, Go
    <3>. QED
      BY <1>5, <1>m, <2>2, <3>2 DEF EvidenceKept
  <2>. QED
    BY <2>1, <2>2
<1>. QED
  BY <1>1, <1>2, <1>3, <1>4, <1>5 DEF EvidenceKept

-----------------------------------------------------------------------------
(* The theorems *)

\* The conjunction holds of every execution: of any interleaving of the loop, its
\* prompts, the handlers, the timers, the failures, the crashes and the boots.
THEOREM ExecInvariant == Spec => []ExecInv
<1>1. ASSUME Init PROVE ExecInv
  <2> USE <1>1 DEF Init
  <2>1. LedgerInv
    BY DEF RunStoreInit, LedgerInv, RunStoreTypeOK, SpentApprovalIsReceipted, DecisionHasReceipt,
       Verdict, Consequence, NoneObserved
  <2>2. dec \in [Deciders -> Decision]
    BY DEF Blank, Decision, Verdict
  <2>3. ExecTypeOK
    BY <2>1, <2>2, ExecutionAssumption DEF LedgerInv, ExecTypeOK, Where, Consequence, NoneObserved
  <2>4. HandsFull
    BY DEF HandsFull, InHand, Prompting, Blank
  <2>5. TurnKept /\ GateKept /\ GatedToolSpentApproval
    BY DEF TurnKept, GateKept, GatedToolSpentApproval
  <2>6. Run \in Runs /\ status[Run] = "absent"
    BY ExecutionAssumption DEF RunStoreInit
  <2>7. \A c \in ToolCalls : effect[<<Run, c>>] = "none"
    <3>1. \A c \in ToolCalls : <<Run, c>> \in Row
      BY ExecutionAssumption DEF Row
    <3>. QED
      BY <3>1 DEF RunStoreInit
  <2>8. EvidenceKept
    BY <2>7 DEF EvidenceKept
  <2>9. FinishedRunIsClosed /\ PlaceKept
    BY <2>6 DEF FinishedRunIsClosed, PlaceKept, Terminal
  <2>. QED
    BY <2>1, <2>3, <2>4, <2>5, <2>8, <2>9 DEF ExecInv
<1>2. ASSUME ExecInv, [Next]_vars PROVE ExecInv'
  <2>1. LedgerInv'
    BY <1>2, ExecCallsStore, LedgerStep DEF ExecInv
  <2>. QED
    BY <1>2, <2>1, ExecTypesStep, HandsStep, TurnStep, GateStep, EvidenceStep, FinishedStep, StatusMoves
    DEF ExecInv
<1>. QED
  BY <1>1, <1>2, PTL DEF Spec

\* The execution of a run writes the ledger through its methods only: what
\* RunStore_proofs shows of the ledger holds of it.
THEOREM ExecUsesLedger == Spec => RunStoreSpec
<1>1. Init => RunStoreInit
  BY DEF Init
<1>2. ExecInv /\ [Next]_vars => [RunStoreNext]_storeVars
  BY ExecCallsStore DEF ExecInv
<1>. QED
  BY <1>1, <1>2, ExecInvariant, PTL DEF Spec, RunStoreSpec

\* No tool runs past a prompt raised on its behalf unless the durable approval of
\* that prompt was spent for it (authorizeToolExecution, requestHookApproval).
THEOREM GateTheorem == Spec => []GatedToolSpentApproval
BY ExecInvariant, PTL DEF ExecInv

\* Whenever the gateway serves requests, the record of a finished run admits the
\* tools that ran, through storage failures and crashes (observe before pull,
\* markPendingUnknownForRun, reconcileInterrupted).
THEOREM EvidenceTheorem == Spec => []EvidenceSurvives
<1>1. ExecInv => EvidenceSurvives
  BY DEF ExecInv, EvidenceKept, EvidenceSurvives, Accounted
<1>. QED
  BY <1>1, ExecInvariant, PTL

\* A run whose record is terminal has no loop that could still act and no request
\* that could still be decided or spent (expireUnconsumedPermissions).
THEOREM FinishedTheorem == Spec => []FinishedRunIsClosed
BY ExecInvariant, PTL DEF ExecInv

\* As long as storage works, "waiting" means that the run is paused on a prompt,
\* or that its process died there (markWaiting, markRunningAfterDecision).
THEOREM WaitingTheorem ==
    ASSUME ~StorageMayFail
    PROVE  Spec => []WaitingMeansPaused
<1>1. Init => WaitingMeansPaused
  BY ExecutionAssumption DEF Init, RunStoreInit, WaitingMeansPaused
<1>2. ASSUME ExecInv, WaitingMeansPaused, [Next]_vars PROVE WaitingMeansPaused'
  <2> DEFINE Paused == {"park", "parked", "respond", "unpark", "dead"}
  <2>1. CASE ParkRow
    BY <2>1 DEF ParkRow, Go, WaitingMeansPaused
  <2>2. CASE Unpark
    BY <1>2, <2>2, ExecutionAssumption
    DEF Unpark, MarkRunningAfterDecision, Move, WaitingMeansPaused, ExecInv, LedgerInv, RunStoreTypeOK
  <2>3. ASSUME pc \in Paused, ~Unpark PROVE pc' \in Paused
    <3> USE DEF Go, loopVars
    <3>1. CASE Consumer
      <4>1. pc' = pc \/ pc' \in Paused \/ \E x : x \notin Paused /\ pc = x
        <5>1. CASE \/ AcceptRun \/ StartRunner \/ BeginRun \/ InstallExecution \/ StartExecution
                   \/ CaptureSignal \/ ObserveAbort \/ HitLimit \/ BeginTurn \/ StreamOutput
                   \/ StreamComplete \/ StreamBreak \/ StreamFails \/ StreamRetry
          BY <5>1 DEF AcceptRun, StartRunner, BeginRun, InstallExecution, StartExecution, CaptureSignal,
             ObserveAbort, HitLimit, BeginTurn, StreamOutput, StreamComplete, StreamBreak, StreamFails,
             StreamRetry
        <5>2. CASE \/ \E c \in ToolCalls : \/ StreamToolStart(c) \/ BlockCall(c) \/ PassHooks(c)
                                           \/ \E h \in HookPrompts : AskHook(c, h)
                                           \/ \E k \in Consequence : EndBatchCall(c, k)
                   \/ \E calls, ran \in SUBSET ToolCalls : RunBatch(calls, ran)
          BY <5>2 DEF StreamToolStart, BlockCall, PassHooks, AskHook, EndBatchCall, RunBatch
        <5>3. CASE \/ AllowCall \/ AskPermission \/ RecordRequest \/ ParkRow \/ Park \/ Respond
                   \/ Authorize \/ ExecuteTool \/ ReplayCached \/ EndCall \/ EndTurn
          BY <5>3 DEF AllowCall, AskPermission, RecordRequest, ParkRow, Park, Respond, Authorize,
             ExecuteTool, ReplayCached, EndCall, EndTurn
        <5>4. CASE \/ ReturnLoop \/ CloseExecution \/ DropRuntime \/ MarkUnknown \/ FinishRun \/ LeaveRunner
          BY <5>4 DEF ReturnLoop, CloseExecution, DropRuntime, MarkUnknown, FinishRun, LeaveRunner
        <5>. QED
          BY <2>3, <3>1, <5>1, <5>2, <5>3, <5>4 DEF Consumer
      <4>. QED
        BY <2>3, <4>1
    <3>2. CASE \/ HitlTimeout \/ BulkDeny \/ TimerFires \/ DrainAll \/ Canceller \/ Boot \/ UNCHANGED vars
               \/ Failures
      BY <2>3, <3>2 DEF HitlTimeout, BulkDeny, TimerFires, DrainAll, Canceller, CancelCheck,
         CancelDurably, SignalCancellation, Boot, RecoverRuns, RecoverEffects, vars, Resolve, DenyAll,
         Failures, EventFails, HookRecordFails, FinalizeFails, Crash
    <3>3. ASSUME NEW d \in Deciders, Decider(d) PROVE pc' \in {pc, "respond"}
      BY <3>3 DEF Decider, DecideCheck, DecideDurably, Deliver, ExpireStale, FinishDecision, MarkDecided,
         Resolve
    <3>. QED
      BY <1>2, <2>3, <3>1, <3>2, <3>3 DEF Next
  <2>. QED
    BY <1>2, <2>1, <2>2, <2>3, StatusMoves DEF WaitingMeansPaused
<1>. QED
  BY <1>1, <1>2, ExecInvariant, PTL DEF Spec

-----------------------------------------------------------------------------
(* Refinement *)

\* Every step of an execution is a step of RunRecord, or none.
LEMMA ExecRecordStep ==
    ASSUME ExecInv, [Next]_vars
    PROVE  [Record!RecordNext]_<<status, consequence>>
<1> USE DEF ExecInv
<1>1. StepForward
  BY ExecCallsStore, ForwardStep
<1>0. status \in [Runs -> {"absent"} \cup Live \cup Terminal] /\ Run \in Runs
  BY ExecutionAssumption DEF LedgerInv, RunStoreTypeOK
<1> DEFINE Follows(s) == status'[s] = status[s] \/ status'[s] \in Record!Successors(status[s])
<1>2. CASE UNCHANGED status
  BY <1>1, <1>2 DEF StepForward, Record!RecordNext
<1>3. ASSUME AcceptRun \/ BeginRun \/ ParkRow \/ Unpark, NEW s \in Runs PROVE Follows(s)
  BY <1>0, <1>3 DEF AcceptRun, Create, BeginRun, MarkRunning, ParkRow, MarkWaiting, Unpark,
     MarkRunningAfterDecision, Move, Record!Successors
<1>4. ASSUME NEW d \in Deciders, MarkDecided(d), NEW s \in Runs PROVE Follows(s)
  BY <1>0, <1>4 DEF MarkDecided, MarkRunningAfterDecision, Move, Record!Successors
<1>5. ASSUME FinishRun, NEW s \in Runs PROVE Follows(s)
  <2>1. status[Run] # "accepted"
    BY <1>5 DEF FinishRun, Go, PlaceKept
  <2>2. TerminalStatus \in Record!Outcome
    BY DEF TerminalStatus, Record!Outcome
  <2>. QED
    BY <1>0, <1>5, <2>1, <2>2 DEF FinishRun, MarkTerminal, Move, Live, Record!Successors
<1>6. ASSUME CancelDurably, NEW s \in Runs PROVE Follows(s)
  BY <1>0, <1>6 DEF CancelDurably, RequestCancel, Move, Record!Successors
<1>7. ASSUME RecoverRuns, NEW s \in Runs PROVE Follows(s)
  BY <1>0, <1>7 DEF RecoverRuns, RecoverInterrupted, Live, Record!Successors, Record!Outcome
<1>8. ASSUME \/ StreamOutput \/ RecordRequest \/ Respond \/ Authorize \/ EndCall \/ MarkUnknown
             \/ \E c \in ToolCalls : StreamToolStart(c) \/ \E k \in Consequence : EndBatchCall(c, k)
             \/ \E d \in Deciders : DecideDurably(d) \/ ExpireStale(d)
             \/ RecoverEffects \/ UNCHANGED storeVars
      PROVE  UNCHANGED status
  BY <1>8 DEF StreamOutput, AdvanceConsequence, RecordRequest, RecordPermissionRequest, Respond,
     DecidePermission, Authorize, ConsumePermissionApproval, EndCall, ObserveOutcome, MarkUnknown,
     MarkPendingUnknownForRun, Reconcile, StreamToolStart, ObserveIntent, EndBatchCall, DecideDurably,
     ExpireStale, ExpirePermission, RecoverEffects, ReconcileInterrupted, storeVars
<1>9. ASSUME \A s \in Runs : Follows(s) PROVE Record!RecordNext
  BY <1>1, <1>9 DEF StepForward, Record!RecordNext
<1>. QED
  BY <1>2, <1>3, <1>4, <1>5, <1>6, <1>7, <1>8, <1>9, StoreFrame DEF StoreCall

\* The record of an executed run follows ADR-0004's state machine through every
\* prompt, cancellation, failure and restart.
THEOREM ExecRefinement == Spec => ImplementsRunRecord
<1>1. Init => Record!RecordInit
  BY DEF Init, RunStoreInit, NoneObserved, Record!RecordInit
<1>2. ExecInv /\ [Next]_vars => [Record!RecordNext]_<<status, consequence>>
  BY ExecRecordStep
<1>. QED
  BY <1>1, <1>2, ExecInvariant, PTL DEF Spec, ImplementsRunRecord, Record!RecordSpec, Record!recordVars
============================================================================
