-------------------------- MODULE RunStart_proofs --------------------------
(***************************************************************************)
(* What holds of racing and retried starts for any set of requests, keys   *)
(* and bodies and any number of boots: the ledger's promises carry over,   *)
(* a key starts one run and answers with it, one loop runs per thread, the *)
(* recorded interval covers the run, and the record follows RunRecord.     *)
(***************************************************************************)
EXTENDS RunStart, RunStore_proofs

-----------------------------------------------------------------------------
(* The inductive invariant *)

Unlaunched == {"idle", "claim", "check", "preflight", "seq", "create", "message", "launch"}
Unspoken == Unlaunched \ {"launch"}

\* The request got past the fence.
Begun(r) == req[r] \in Starting \cup {"check", "giveup"} \/ status[r] # "absent"

\* The fence: whoever got past it finds its claim there, and is alone.
FenceKept ==
    /\ \A r \in Runs : req[r] \in {"claim", "complete"} => Keyed(r)
    /\ \A r \in Runs : Keyed(r) /\ Begun(r) =>
          fence[KeyOf[r]].state # "none" /\ fence[KeyOf[r]].body = BodyOf[r]
    /\ \A r, s \in Runs :
          Keyed(r) /\ KeyOf[r] = KeyOf[s] /\ Begun(r) /\ Begun(s) => r = s

\* r is a run with a row and a loop, started under key k with this body.
StartedAs(r, k, body) ==
    /\ r \in Runs /\ KeyOf[r] = k /\ BodyOf[r] = body
    /\ loop[r] # "none" /\ status[r] # "absent"

\* What the fence answers with is such a run.
CompletedIsStarted ==
    \A k \in Keys : fence[k].state = "completed" => StartedAs(fence[k].result, k, fence[k].body)

\* How far the handler, the row and the loop of a run can be apart.
PlacesAgree ==
    \A r \in Runs :
        /\ req[r] \in Unlaunched => loop[r] = "none"
        /\ req[r] \in {"link", "complete"} => loop[r] # "none"
        /\ req[r] \in {"message", "launch"} \/ loop[r] # "none" => status[r] # "absent"
        /\ loop[r] \in Looping \ {"boot", "leave"} => status[r] # "accepted"
        /\ status[r] \in {"succeeded", "failed"} => loop[r] \in {"leave", "gone"}

\* The maps of the thread: the slot is the loop's, and a published port is
\* that of the run that drives it.
MapsAgree ==
    /\ \A r \in Runs : loop[r] \in Looping => slot = r
    /\ \A r \in Runs : drives[r] \in {r, Nobody}
    /\ port # Nobody => slot = port /\ loop[port] \in {"run", "drop"}

\* Every event of a run lies behind its first bound and, once the second was
\* read, before that; a run that has not spoken has none.
EventsBounded ==
    \A r \in Runs : \A i \in 1..Len(log) : log[i] = r =>
        /\ req[r] \notin Unspoken
        /\ startSeq[r] < i
        /\ loop[r] = "finish" \/ status[r] \in {"succeeded", "failed"} => i <= endSeq[r]

\* The cancel handler that is about to write names a run.
CancelNamed == cancel.at = "persist" => cancel.r \in Runs

StartInv ==
    /\ CancelNamed
    /\ StartTypeOK /\ LedgerInv
    /\ FenceKept /\ CompletedIsStarted /\ AnswerIsTheRun
    /\ PlacesAgree /\ MapsAgree /\ EventsBounded

-----------------------------------------------------------------------------
(* The ledger under it *)

\* Whatever a start, a loop, a cancellation or a boot does to the ledger is one
\* call of its methods, or nothing.
LEMMA StartCallsStore ==
    ASSUME CancelNamed, [StartNext]_startVars
    PROVE  [RunStoreNext]_storeVars
<1>1. CASE UNCHANGED storeVars
  BY <1>1
<1>2. CASE \E r \in Runs : CreateRun(r)
  BY <1>2 DEF CreateRun, RunStoreNext
<1>3. CASE \E r \in Runs : BeginLoop(r)
  BY <1>3 DEF BeginLoop, RunStoreNext
<1>4. CASE \E r \in Runs : FinishLoop(r)
  <2>1. PICK r \in Runs, s \in {"succeeded", "failed"} : MarkTerminal(r, s, NoneObserved)
    BY <1>4 DEF FinishLoop
  <2>2. s \in Terminal /\ NoneObserved \in Consequence
    BY DEF Terminal, NoneObserved, Consequence
  <2>. QED
    BY <2>1, <2>2 DEF RunStoreNext
<1>5. CASE CancelDurably
  BY <1>5 DEF CancelDurably, CancelNamed, RunStoreNext
<1>6. CASE RecoverRuns
  BY <1>6 DEF RecoverRuns, RunStoreNext
<1>7. CASE \E r \in Runs : CancelCheck(r)
  BY <1>7, <1>1 DEF CancelCheck
<1>8. CASE Crash
  BY <1>8, <1>1 DEF Crash
<1>9. CASE UNCHANGED startVars
  BY <1>9, <1>1 DEF startVars
<1>10. ASSUME NEW r \in Runs, Handler(r), ~CreateRun(r) PROVE UNCHANGED storeVars
  BY <1>10 DEF Handler, Receive, ClaimKey, CheckIdle, SetRuntime, ReadStartSeq, RefuseRun,
     IngestUserMessage, Launch, LinkKey, CompleteKey, StartFails, GiveUp
<1>11. ASSUME NEW r \in Runs, Loop(r), ~BeginLoop(r), ~FinishLoop(r) PROVE UNCHANGED storeVars
  BY <1>11 DEF Loop, LookupRuntime, PublishEvent, EndLoop, DeleteRuntime, ReadEndSeq,
     FinishFails, LeaveSlot
<1>. QED
  BY <1>1, <1>2, <1>3, <1>4, <1>5, <1>6, <1>7, <1>8, <1>9, <1>10, <1>11 DEF StartNext

-----------------------------------------------------------------------------
(* Types *)

\* A row the fence is left with by a claim, a link, a completion or a failure
\* is one.
LEMMA FenceTypes ==
    ASSUME fence \in [Keys -> FenceRow], NEW lease \in 1..MaxBoot,
           NEW k \in Keys, NEW b \in Bodies, NEW r \in Runs, NEW kind,
           \/ Claim(k, b, lease, kind) \/ LinkRun(k, lease, r) \/ Complete(k, lease, r)
           \/ MarkIndeterminate(k)
    PROVE  fence' \in [Keys -> FenceRow]
<1>1. fence[k] \in FenceRow
  OBVIOUS
<1>2. ASSUME NEW row \in FenceRow, fence' = [fence EXCEPT ![k] = row]
      PROVE  fence' \in [Keys -> FenceRow]
  BY <1>2
<1>3. ASSUME MarkIndeterminate(k) PROVE fence' \in [Keys -> FenceRow]
  <2>1. [fence[k] EXCEPT !.state = "indeterminate"] \in FenceRow
    BY <1>1 DEF FenceRow
  <2>. QED
    BY <1>1, <1>2, <1>3, <2>1 DEF MarkIndeterminate
<1>4. CASE Claim(k, b, lease, kind)
  <2>1. [state |-> "in_progress", body |-> b, lease |-> lease, run |-> Nobody, result |-> Nobody]
          \in FenceRow
    BY StartAssumption DEF FenceRow
  <2>. QED
    BY <1>2, <1>3, <1>4, <2>1 DEF Claim
<1>5. CASE LinkRun(k, lease, r)
  <2>1. [fence[k] EXCEPT !.run = r] \in FenceRow
    BY <1>1 DEF FenceRow
  <2>. QED
    BY <1>2, <1>5, <2>1 DEF LinkRun
<1>6. CASE Complete(k, lease, r)
  <2>1. [fence[k] EXCEPT !.state = "completed", !.result = r] \in FenceRow
    BY <1>1 DEF FenceRow
  <2>. QED
    BY <1>2, <1>6, <2>1 DEF Complete
<1>. QED
  BY <1>3, <1>4, <1>5, <1>6

\* A handler or a loop that moves is at a place of its kind.
LEMMA PlaceTyped ==
    ASSUME StartTypeOK, NEW r \in Runs
    PROVE  /\ \A to \in {"idle", "claim", "check", "giveup", "done"} \cup Starting :
                 req' = [req EXCEPT ![r] = to] =>
                     req' \in [Runs -> {"idle", "claim", "check", "giveup", "done"} \cup Starting]
           /\ \A to \in {"none", "gone"} \cup Looping :
                 loop' = [loop EXCEPT ![r] = to] => loop' \in [Runs -> {"none", "gone"} \cup Looping]
<1> DEFINE R == {"idle", "claim", "check", "giveup", "done"} \cup Starting
           L == {"none", "gone"} \cup Looping
<1>1. req \in [Runs -> R] /\ loop \in [Runs -> L]
  BY DEF StartTypeOK
<1> HIDE DEF R, L
<1>2. ASSUME NEW to \in R PROVE [req EXCEPT ![r] = to] \in [Runs -> R]
  BY <1>1
<1>3. ASSUME NEW to \in L PROVE [loop EXCEPT ![r] = to] \in [Runs -> L]
  BY <1>1
<1>. QED
  BY <1>2, <1>3 DEF R, L

\* An event more, or the number of the latest one, leaves the thread's log typed.
LEMMA LogTyped ==
    ASSUME StartTypeOK, NEW r \in Runs
    PROVE  /\ log' = Append(log, r) /\ UNCHANGED <<startSeq, endSeq>> =>
                 /\ log' \in Seq(Runs)
                 /\ startSeq' \in [Runs -> -1..Len(log')] /\ endSeq' \in [Runs -> -1..Len(log')]
           /\ startSeq' = [startSeq EXCEPT ![r] = Len(log)] => startSeq' \in [Runs -> -1..Len(log)]
           /\ endSeq' = [endSeq EXCEPT ![r] = Len(log)] => endSeq' \in [Runs -> -1..Len(log)]
<1>1. Len(log) \in Nat /\ log \in Seq(Runs)
  BY DEF StartTypeOK
<1>2. Append(log, r) \in Seq(Runs) /\ Len(Append(log, r)) = Len(log) + 1
  BY <1>1
<1>3. -1..Len(log) \subseteq -1..(Len(log) + 1) /\ Len(log) \in -1..Len(log)
  BY <1>1
<1>4. startSeq \in [Runs -> -1..Len(log)] /\ endSeq \in [Runs -> -1..Len(log)]
  BY DEF StartTypeOK
<1>5. startSeq \in [Runs -> -1..(Len(log) + 1)] /\ endSeq \in [Runs -> -1..(Len(log) + 1)]
  BY <1>3, <1>4
<1>. QED
  BY <1>2, <1>3, <1>4, <1>5

\* The type invariant is kept by every step.
LEMMA StartTypesStep ==
    ASSUME StartInv, [StartNext]_startVars
    PROVE  StartTypeOK'
<1> USE DEF StartInv
<1>s. RunStoreTypeOK'
  BY StartCallsStore, LedgerStep DEF LedgerInv
<1>1. ASSUME NEW r \in Runs, Receive(r) PROVE StartTypeOK'
  BY <1>1, <1>s DEF StartTypeOK, Receive, ReqGo, Starting,
     loopVars, mapVars, logVars, procVars, reqVars
<1>2. ASSUME NEW r \in Runs, CheckIdle(r) PROVE StartTypeOK'
  BY <1>2, <1>s DEF StartTypeOK, CheckIdle, ReqGo, Starting,
     loopVars, mapVars, logVars, procVars, reqVars
<1>3. ASSUME NEW r \in Runs, CreateRun(r) PROVE StartTypeOK'
  BY <1>3, <1>s DEF StartTypeOK, CreateRun, ReqGo, Starting,
     loopVars, mapVars, logVars, procVars, reqVars
<1>4. ASSUME NEW r \in Runs, StartFails(r) PROVE StartTypeOK'
  BY <1>4, <1>s DEF StartTypeOK, StartFails, ReqGo, Starting,
     loopVars, mapVars, logVars, procVars, reqVars
<1>5. ASSUME NEW r \in Runs, SetRuntime(r) PROVE StartTypeOK'
  BY <1>5, <1>s DEF StartTypeOK, SetRuntime, ReqGo, Starting,
     loopVars, mapVars, logVars, procVars, reqVars
<1>6. ASSUME NEW r \in Runs, RefuseRun(r) PROVE StartTypeOK'
  BY <1>6, <1>s DEF StartTypeOK, RefuseRun, ReqGo, Starting,
     loopVars, mapVars, logVars, procVars, reqVars
<1>7. ASSUME NEW r \in Runs, Launch(r) PROVE StartTypeOK'
  <2>1. UNCHANGED <<fence, told, cancel, drives, runtime, port, log, startSeq, endSeq, boot, serving>>
    BY <1>7 DEF Launch, logVars, procVars
  <2>2. PICK to \in {"link", "giveup"} : req' = [req EXCEPT ![r] = to]
    BY <1>7 DEF Launch, ReqGo
  <2>3. loop' = loop \/ loop' = [loop EXCEPT ![r] = "boot"]
    BY <1>7 DEF Launch
  <2>4. slot' = slot \/ slot' = r
    BY <1>7 DEF Launch
  <2>5. "link" \in Starting /\ "giveup" \in {"idle", "claim", "check", "giveup", "done"} /\ "boot" \in Looping
    BY DEF Starting, Looping
  <2>6. req' \in [Runs -> {"idle", "claim", "check", "giveup", "done"} \cup Starting]
    BY <2>2, <2>5, PlaceTyped
  <2>7. loop' \in [Runs -> {"none", "gone"} \cup Looping]
    <3>1. CASE loop' = loop
      BY <3>1 DEF StartTypeOK
    <3>2. CASE loop' = [loop EXCEPT ![r] = "boot"]
      BY <2>5, <3>2, PlaceTyped
    <3>. QED
      BY <2>3, <3>1, <3>2
  <2>8. {slot', runtime', port'} \subseteq Runs \cup {Nobody}
    BY <2>1, <2>4 DEF StartTypeOK
  <2>9. (startSeq \in [Runs -> -1..Len(log)])' /\ (endSeq \in [Runs -> -1..Len(log)])'
    BY <2>1 DEF StartTypeOK
  <2>. QED
    BY <1>s, <2>1, <2>6, <2>7, <2>8, <2>9 DEF StartTypeOK
<1>8. ASSUME NEW r \in Runs, ReadStartSeq(r) PROVE StartTypeOK'
  <2>1. req' = [req EXCEPT ![r] = "create"] /\ startSeq' = [startSeq EXCEPT ![r] = Len(log)]
    BY <1>8 DEF ReadStartSeq, ReqGo
  <2>2. UNCHANGED <<fence, told, cancel, loop, drives, slot, runtime, port, log, endSeq, boot, serving>>
    BY <1>8 DEF ReadStartSeq, loopVars, mapVars, procVars
  <2>3. "create" \in Starting
    BY DEF Starting
  <2>4. /\ req' \in [Runs -> {"idle", "claim", "check", "giveup", "done"} \cup Starting]
        /\ startSeq' \in [Runs -> -1..Len(log)]
    BY <2>1, <2>3, PlaceTyped, LogTyped
  <2>. QED
    BY <1>s, <2>2, <2>4 DEF StartTypeOK
<1>9. ASSUME NEW r \in Runs, IngestUserMessage(r) PROVE StartTypeOK'
  <2>1. req' = [req EXCEPT ![r] = "launch"] /\ log' = Append(log, r) /\ UNCHANGED <<startSeq, endSeq>>
    BY <1>9 DEF IngestUserMessage, ReqGo
  <2>2. UNCHANGED <<fence, told, cancel, loop, drives, slot, runtime, port, boot, serving>>
    BY <1>9 DEF IngestUserMessage, loopVars, mapVars, procVars
  <2>3. "launch" \in Starting
    BY DEF Starting
  <2>4. req' \in [Runs -> {"idle", "claim", "check", "giveup", "done"} \cup Starting]
    BY <2>1, <2>3, PlaceTyped
  <2>5. /\ log' \in Seq(Runs)
        /\ startSeq' \in [Runs -> -1..Len(log')] /\ endSeq' \in [Runs -> -1..Len(log')]
    BY <2>1, LogTyped
  <2>. QED
    BY <1>s, <2>2, <2>4, <2>5 DEF StartTypeOK
<1>10. ASSUME NEW r \in Runs, BeginLoop(r) PROVE StartTypeOK'
  BY <1>10, <1>s DEF StartTypeOK, BeginLoop, LoopGo, Looping,
     loopVars, mapVars, logVars, procVars, reqVars
<1>11. ASSUME NEW r \in Runs, EndLoop(r) PROVE StartTypeOK'
  BY <1>11, <1>s DEF StartTypeOK, EndLoop, LoopGo, Looping,
     loopVars, mapVars, logVars, procVars, reqVars
<1>12. ASSUME NEW r \in Runs, FinishLoop(r) PROVE StartTypeOK'
  BY <1>12, <1>s DEF StartTypeOK, FinishLoop, LoopGo, Looping,
     loopVars, mapVars, logVars, procVars, reqVars
<1>13. ASSUME NEW r \in Runs, FinishFails(r) PROVE StartTypeOK'
  BY <1>13, <1>s DEF StartTypeOK, FinishFails, LoopGo, Looping,
     loopVars, mapVars, logVars, procVars, reqVars
<1>14. ASSUME NEW r \in Runs, LookupRuntime(r) PROVE StartTypeOK'
  <2>1. port' \in Runs \cup {Nobody}
    BY <1>14 DEF StartTypeOK, LookupRuntime
  <2>2. drives' \in [Runs -> Runs \cup {Nobody}]
    BY <1>14, <2>1 DEF StartTypeOK, LookupRuntime
  <2>3. loop' \in [Runs -> {"none", "gone"} \cup Looping]
    <3>1. PICK to \in Looping : loop' = [loop EXCEPT ![r] = to]
      BY <1>14 DEF LookupRuntime, LoopGo, Looping
    <3>. QED
      BY <3>1 DEF StartTypeOK
  <2>4. UNCHANGED <<fence, req, told, cancel, slot, runtime, log, startSeq, endSeq, boot, serving>>
    BY <1>14 DEF LookupRuntime, reqVars, logVars, procVars
  <2>. QED
    BY <1>s, <2>1, <2>2, <2>3, <2>4 DEF StartTypeOK
<1>15. ASSUME NEW r \in Runs, DeleteRuntime(r) PROVE StartTypeOK'
  BY <1>15, <1>s DEF StartTypeOK, DeleteRuntime, LoopGo, Looping,
     loopVars, mapVars, logVars, procVars, reqVars
<1>16. ASSUME NEW r \in Runs, LeaveSlot(r) PROVE StartTypeOK'
  BY <1>16, <1>s DEF StartTypeOK, LeaveSlot, LoopGo, Looping,
     loopVars, mapVars, logVars, procVars, reqVars
<1>17. ASSUME NEW r \in Runs, PublishEvent(r) PROVE StartTypeOK'
  <2>1. loop' = [loop EXCEPT ![r] = "run"] /\ log' = Append(log, r) /\ UNCHANGED <<startSeq, endSeq>>
    BY <1>17 DEF PublishEvent, LoopGo
  <2>2. UNCHANGED <<fence, req, told, cancel, drives, slot, runtime, port, boot, serving>>
    BY <1>17 DEF PublishEvent, reqVars, mapVars, procVars
  <2>3. "run" \in Looping
    BY DEF Looping
  <2>4. loop' \in [Runs -> {"none", "gone"} \cup Looping]
    BY <2>1, <2>3, PlaceTyped
  <2>5. /\ log' \in Seq(Runs)
        /\ startSeq' \in [Runs -> -1..Len(log')] /\ endSeq' \in [Runs -> -1..Len(log')]
    BY <2>1, LogTyped
  <2>. QED
    BY <1>s, <2>2, <2>4, <2>5 DEF StartTypeOK
<1>18. ASSUME NEW r \in Runs, ReadEndSeq(r) PROVE StartTypeOK'
  <2>1. loop' = [loop EXCEPT ![r] = "finish"] /\ endSeq' = [endSeq EXCEPT ![r] = Len(log)]
    BY <1>18 DEF ReadEndSeq, LoopGo
  <2>2. UNCHANGED <<fence, req, told, cancel, drives, slot, runtime, port, log, startSeq, boot, serving>>
    BY <1>18 DEF ReadEndSeq, reqVars, mapVars, procVars
  <2>3. "finish" \in Looping
    BY DEF Looping
  <2>4. loop' \in [Runs -> {"none", "gone"} \cup Looping] /\ endSeq' \in [Runs -> -1..Len(log)]
    BY <2>1, <2>3, PlaceTyped, LogTyped
  <2>. QED
    BY <1>s, <2>2, <2>4 DEF StartTypeOK
<1>19. ASSUME NEW r \in Runs, ClaimKey(r) PROVE StartTypeOK'
  <2>1. KeyOf[r] \in Keys /\ BodyOf[r] \in Bodies
    BY <1>19, StartAssumption DEF ClaimKey, FenceKept, Keyed
  <2>2. PICK kind : Claim(KeyOf[r], BodyOf[r], boot, kind) /\ ReqGo(r, "claim", IF kind = "claimed" THEN "check" ELSE "done")
                    /\ told' = [told EXCEPT ![r] = IF kind = "replay" THEN fence[KeyOf[r]].result ELSE @]
    BY <1>19 DEF ClaimKey
  <2>3. fence' \in [Keys -> FenceRow]
    BY <2>1, <2>2, FenceTypes DEF StartTypeOK
  <2>4. fence[KeyOf[r]].result \in Runs \cup {Nobody}
    BY <2>1 DEF StartTypeOK, FenceRow
  <2>. QED
    BY <1>19, <1>s, <2>2, <2>3, <2>4 DEF StartTypeOK, ClaimKey, ReqGo, loopVars, mapVars, logVars, procVars
<1>20. ASSUME NEW r \in Runs, LinkKey(r) \/ CompleteKey(r) \/ GiveUp(r) PROVE StartTypeOK'
  <2>1. BodyOf[r] \in Bodies /\ (Keyed(r) => KeyOf[r] \in Keys) /\ (req[r] = "complete" => Keyed(r))
    BY StartAssumption DEF FenceKept, Keyed
  <2>2. fence' \in [Keys -> FenceRow]
    BY <1>20, <2>1, FenceTypes DEF StartTypeOK, LinkKey, CompleteKey, GiveUp, ReqGo
  <2>3. CASE LinkKey(r)
    <3>1. /\ told' \in [Runs -> Runs \cup {Nobody}]
          /\ req' \in [Runs -> {"idle", "claim", "check", "giveup", "done"} \cup Starting]
      <4>1. told' = told \/ told' = [told EXCEPT ![r] = r]
        BY <2>3 DEF LinkKey
      <4>2. PICK to \in {"complete", "done"} : req' = [req EXCEPT ![r] = to]
        BY <2>3 DEF LinkKey, ReqGo
      <4>3. told' \in [Runs -> Runs \cup {Nobody}]
        BY <4>1 DEF StartTypeOK
      <4>4. req' \in [Runs -> {"idle", "claim", "check", "giveup", "done"} \cup Starting]
        BY <4>2 DEF StartTypeOK, Starting
      <4>. QED
        BY <4>3, <4>4
    <3>2. UNCHANGED <<cancel, loop, drives, slot, runtime, port, log, startSeq, endSeq, boot, serving>>
      BY <2>3 DEF LinkKey, loopVars, mapVars, logVars, procVars
    <3>. QED
      BY <1>s, <2>2, <3>1, <3>2 DEF StartTypeOK
  <2>4. CASE CompleteKey(r)
    BY <2>2, <2>4, <1>s DEF StartTypeOK, CompleteKey, ReqGo, Starting, loopVars, mapVars, logVars, procVars
  <2>5. CASE GiveUp(r)
    BY <2>2, <2>5, <1>s DEF StartTypeOK, GiveUp, ReqGo, Starting, loopVars, mapVars, logVars, procVars
  <2>. QED
    BY <1>20, <2>3, <2>4, <2>5
<1>21. ASSUME NEW r \in Runs, CancelCheck(r) PROVE StartTypeOK'
  BY <1>21, <1>s DEF StartTypeOK, CancelCheck, loopVars, mapVars, logVars, procVars
<1>22. CASE CancelDurably
  BY <1>22, <1>s DEF StartTypeOK, CancelDurably, loopVars, mapVars, logVars, procVars
<1>23. CASE Crash
  <2>1. cancel' \in [at : {"idle", "persist", "done"}, r : Runs \cup {Nobody}]
    BY <1>23 DEF StartTypeOK, Crash, NoCancel
  <2>2. /\ req' \in [Runs -> {"idle", "claim", "check", "giveup", "done"} \cup Starting]
        /\ loop' \in [Runs -> {"none", "gone"} \cup Looping]
    BY <1>23 DEF StartTypeOK, Crash
  <2>3. boot' \in 1..MaxBoot
    BY <1>23, StartAssumption DEF StartTypeOK, Crash
  <2>4. /\ UNCHANGED <<fence, told, drives, log, startSeq, endSeq>>
        /\ slot' = Nobody /\ runtime' = Nobody /\ port' = Nobody /\ serving' = FALSE
    BY <1>23 DEF Crash, logVars
  <2>. QED
    BY <1>s, <2>1, <2>2, <2>3, <2>4 DEF StartTypeOK
<1>24. CASE RecoverRuns
  BY <1>24, <1>s DEF StartTypeOK, RecoverRuns, reqVars, loopVars, mapVars, logVars
<1>25. CASE UNCHANGED startVars
  BY <1>25, <1>s DEF StartTypeOK, startVars, reqVars, loopVars, mapVars, logVars, procVars
<1>. QED
  BY <1>1, <1>2, <1>3, <1>4, <1>5, <1>6, <1>7, <1>8, <1>9, <1>10, <1>11, <1>12, <1>13, <1>14,
     <1>15, <1>16, <1>17, <1>18, <1>19, <1>20, <1>21, <1>22, <1>23, <1>24, <1>25
  DEF StartNext, Handler, Loop

-----------------------------------------------------------------------------
(* What a step does to the places of a run *)

\* A row appears only in createRun, and a loop settles its own row only.
LEMMA RowMoves ==
    ASSUME StartInv, [StartNext]_startVars, NEW s \in Runs
    PROVE  /\ status[s] # "absent" => status'[s] # "absent"
           /\ status[s] = "absent" /\ status'[s] # "absent" => CreateRun(s)
           /\ status[s] # "accepted" /\ status'[s] = "accepted" => CreateRun(s)
           /\ status[s] \notin {"succeeded", "failed"} /\ status'[s] \in {"succeeded", "failed"}
                => FinishLoop(s)
<1> USE DEF StartInv
<1>0. status \in [Runs -> {"absent"} \cup Live \cup Terminal]
  BY DEF StartTypeOK, RunStoreTypeOK
<1>1. CASE UNCHANGED status
  BY <1>1
<1>2. ASSUME NEW r \in Runs, CreateRun(r) PROVE ~UNCHANGED status => r = s \/ status'[s] = status[s]
  BY <1>0, <1>2 DEF CreateRun, Create
<1>3. CASE \E r \in Runs : CreateRun(r)
  BY <1>0, <1>2, <1>3 DEF CreateRun, Create
<1>4. CASE \E r \in Runs : BeginLoop(r)
  BY <1>0, <1>4 DEF BeginLoop, MarkRunning, Move
<1>5. ASSUME NEW r \in Runs, FinishLoop(r)
      PROVE  /\ r # s => status'[s] = status[s]
             /\ status'[s] \in {status[s], "succeeded", "failed"} /\ status[r] # "absent"
  BY <1>0, <1>5 DEF FinishLoop, MarkTerminal, Move
<1>6. CASE \E r \in Runs : FinishLoop(r)
  BY <1>5, <1>6
<1>7. CASE CancelDurably
  BY <1>0, <1>7 DEF CancelDurably, CancelNamed, RequestCancel, Move
<1>8. CASE RecoverRuns
  BY <1>0, <1>8 DEF RecoverRuns, RecoverInterrupted, Live
<1>9. ASSUME NEW r \in Runs, Handler(r), ~CreateRun(r) PROVE UNCHANGED status
  BY <1>9 DEF Handler, Receive, ClaimKey, CheckIdle, SetRuntime, ReadStartSeq, RefuseRun,
     IngestUserMessage, Launch, LinkKey, CompleteKey, StartFails, GiveUp, storeVars
<1>10. ASSUME NEW r \in Runs, Loop(r), ~BeginLoop(r), ~FinishLoop(r) PROVE UNCHANGED status
  BY <1>10 DEF Loop, LookupRuntime, PublishEvent, EndLoop, DeleteRuntime, ReadEndSeq,
     FinishFails, LeaveSlot, storeVars
<1>11. CASE (\E r \in Runs : CancelCheck(r)) \/ Crash \/ UNCHANGED startVars
  BY <1>1, <1>11 DEF CancelCheck, Crash, startVars, storeVars
<1>. QED
  BY <1>1, <1>3, <1>4, <1>6, <1>7, <1>8, <1>9, <1>10, <1>11 DEF StartNext

\* A loop that was begun is never forgotten, and only Launch begins one.
LEMMA LoopMoves ==
    ASSUME StartInv, [StartNext]_startVars, NEW s \in Runs
    PROVE  /\ loop[s] # "none" => loop'[s] # "none"
           /\ loop[s] = "none" /\ loop'[s] # "none" => Launch(s) /\ slot = Nobody
<1> USE DEF StartInv
<1>0. loop \in [Runs -> {"none", "gone"} \cup Looping]
  BY DEF StartTypeOK
<1>1. CASE UNCHANGED loop
  BY <1>1
<1>2. ASSUME NEW r \in Runs, Launch(r), ~UNCHANGED loop
      PROVE  slot = Nobody /\ loop' = [loop EXCEPT ![r] = "boot"]
  BY <1>2 DEF Launch
<1>3. CASE \E r \in Runs : Launch(r)
  BY <1>0, <1>1, <1>2, <1>3
<1>4. ASSUME NEW r \in Runs, NEW f \in Looping, NEW t \in Looping \cup {"gone"}, LoopGo(r, f, t)
      PROVE  (loop[s] = "none") <=> (loop'[s] = "none")
  BY <1>0, <1>4 DEF LoopGo, Looping
<1>5. ASSUME NEW r \in Runs, Loop(r)
      PROVE  \E f \in Looping, t \in Looping \cup {"gone"} : LoopGo(r, f, t)
  BY <1>5 DEF Loop, BeginLoop, LookupRuntime, PublishEvent, EndLoop, DeleteRuntime, ReadEndSeq,
     FinishLoop, FinishFails, LeaveSlot, Looping
<1>6. ASSUME NEW r \in Runs, Handler(r), ~Launch(r) PROVE UNCHANGED loop
  BY <1>6 DEF Handler, Receive, ClaimKey, CheckIdle, SetRuntime, ReadStartSeq, RefuseRun,
     IngestUserMessage, CreateRun, LinkKey, CompleteKey, StartFails, GiveUp, loopVars
<1>7. CASE Crash
  BY <1>0, <1>7 DEF Crash
<1>8. CASE (\E r \in Runs : CancelCheck(r)) \/ CancelDurably \/ RecoverRuns \/ UNCHANGED startVars
  BY <1>1, <1>8 DEF CancelCheck, CancelDurably, RecoverRuns, startVars, loopVars
<1>. QED
  BY <1>1, <1>3, <1>4, <1>5, <1>6, <1>7, <1>8 DEF StartNext

\* The handler, the row and the loop of a run stay in step.
LEMMA PlacesStep ==
    ASSUME StartInv, [StartNext]_startVars
    PROVE  PlacesAgree'
<1> USE DEF StartInv
<1>0. /\ loop \in [Runs -> {"none", "gone"} \cup Looping]
      /\ req \in [Runs -> {"idle", "claim", "check", "giveup", "done"} \cup Starting]
      /\ status \in [Runs -> {"absent"} \cup Live \cup Terminal]
  BY DEF StartTypeOK, RunStoreTypeOK
\* Steps that move the handler only.
<1>1. ASSUME NEW r \in Runs, NEW f, NEW t, req[r] = f, req' = [req EXCEPT ![r] = t],
             UNCHANGED <<loop, status>>,
             t \in Unlaunched => f \in Unlaunched,
             t \in {"link", "complete"} => f \in {"link", "complete"},
             t \in {"message", "launch"} => f \in {"message", "launch"}
      PROVE  PlacesAgree'
  BY <1>0, <1>1 DEF PlacesAgree
<1>2. ASSUME NEW r \in Runs, Handler(r), ~CreateRun(r), ~Launch(r) PROVE PlacesAgree'
  <2>1. UNCHANGED <<loop, status>>
    BY <1>2 DEF Handler, Receive, ClaimKey, CheckIdle, SetRuntime, ReadStartSeq, RefuseRun,
       IngestUserMessage, LinkKey, CompleteKey, StartFails, GiveUp, loopVars, storeVars
  <2>2. \E f, t : ReqGo(r, f, t) /\ (t \in {"giveup", "done"} \/ <<f, t>> \in
          {<<"idle", "claim">>, <<"idle", "check">>, <<"claim", "check">>, <<"check", "preflight">>,
           <<"preflight", "seq">>, <<"seq", "create">>, <<"message", "launch">>, <<"link", "complete">>})
    BY <1>2 DEF Handler, Receive, ClaimKey, CheckIdle, SetRuntime, ReadStartSeq, RefuseRun,
       IngestUserMessage, LinkKey, CompleteKey, StartFails, GiveUp
  <2>. QED
    BY <1>1, <2>1, <2>2 DEF ReqGo, Unlaunched
<1>3. ASSUME NEW r \in Runs, CreateRun(r) PROVE PlacesAgree'
  BY <1>0, <1>3 DEF PlacesAgree, CreateRun, Create, ReqGo, loopVars, Unlaunched, Looping
<1>4. ASSUME NEW r \in Runs, Launch(r), slot = Nobody PROVE PlacesAgree'
  BY <1>0, <1>4 DEF PlacesAgree, Launch, ReqGo, storeVars, Unlaunched, Looping
<1>5. ASSUME NEW r \in Runs, Launch(r), slot # Nobody PROVE PlacesAgree'
  BY <1>1, <1>5 DEF Launch, ReqGo, storeVars, Unlaunched
\* Steps that move the loop only.
<1>6. ASSUME NEW r \in Runs, NEW f \in Looping, NEW t \in Looping \cup {"gone"}, LoopGo(r, f, t),
             UNCHANGED req,
             t \in Looping \ {"boot", "leave"} => f \in Looping \ {"boot", "leave"},
             f = "leave" => t = "gone",
             UNCHANGED status
      PROVE  PlacesAgree'
  BY <1>0, <1>6 DEF PlacesAgree, LoopGo, Looping, Unlaunched
<1>7. ASSUME NEW r \in Runs, BeginLoop(r) PROVE PlacesAgree'
  BY <1>0, <1>7 DEF PlacesAgree, BeginLoop, LoopGo, MarkRunning, Move, reqVars, Looping, Unlaunched
<1>8. ASSUME NEW r \in Runs, FinishLoop(r) PROVE PlacesAgree'
  BY <1>0, <1>8 DEF PlacesAgree, FinishLoop, LoopGo, MarkTerminal, Move, reqVars, Looping, Unlaunched
<1>9. ASSUME NEW r \in Runs, Loop(r), ~BeginLoop(r), ~FinishLoop(r) PROVE PlacesAgree'
  <2>1. UNCHANGED <<req, status>>
    BY <1>9 DEF Loop, LookupRuntime, PublishEvent, EndLoop, DeleteRuntime, ReadEndSeq,
       FinishFails, LeaveSlot, storeVars, reqVars
  <2>2. \E f, t : LoopGo(r, f, t) /\ f \in Looping /\ ((t = "leave" /\ f # "leave") \/ <<f, t>> \in
          {<<"lookup", "run">>, <<"run", "run">>, <<"run", "drop">>, <<"drop", "seq">>,
           <<"seq", "finish">>, <<"leave", "gone">>})
    BY <1>9 DEF Loop, LookupRuntime, PublishEvent, EndLoop, DeleteRuntime, ReadEndSeq,
       FinishFails, LeaveSlot, Looping
  <2>. QED
    BY <1>6, <2>1, <2>2 DEF Looping
<1>10. CASE Crash
  BY <1>0, <1>10 DEF PlacesAgree, Crash, storeVars, Looping, Unlaunched
<1>11. CASE CancelDurably \/ RecoverRuns
  <2>1. UNCHANGED <<req, loop>>
    BY <1>11 DEF CancelDurably, RecoverRuns, reqVars, loopVars
  <2>2. \A s \in Runs : /\ status[s] # "absent" => status'[s] # "absent"
                        /\ status[s] # "accepted" => status'[s] # "accepted"
                        /\ status'[s] \in {"succeeded", "failed"} => status'[s] = status[s]
    BY <1>0, <1>11 DEF CancelDurably, CancelNamed, RecoverRuns, RequestCancel, RecoverInterrupted, Move, Live
  <2>. QED
    BY <2>1, <2>2 DEF PlacesAgree
<1>12. CASE (\E r \in Runs : CancelCheck(r)) \/ UNCHANGED startVars
  BY <1>12 DEF PlacesAgree, CancelCheck, startVars, reqVars, loopVars, storeVars
<1>. QED
  BY <1>2, <1>3, <1>4, <1>5, <1>7, <1>8, <1>9, <1>10, <1>11, <1>12 DEF StartNext

\* The slot, the loop and the published port stay in step.
LEMMA MapsStep ==
    ASSUME StartInv, [StartNext]_startVars
    PROVE  MapsAgree'
<1> USE DEF StartInv
<1>0. /\ loop \in [Runs -> {"none", "gone"} \cup Looping]
      /\ drives \in [Runs -> Runs \cup {Nobody}]
      /\ slot \in Runs \cup {Nobody} /\ port \in Runs \cup {Nobody} /\ Nobody \notin Runs
  BY StartAssumption, FenceAssumption DEF StartTypeOK
<1>1. CASE UNCHANGED <<loop, drives, slot, port>>
  BY <1>1 DEF MapsAgree
<1>2. ASSUME NEW r \in Runs, SetRuntime(r) \/ RefuseRun(r) PROVE MapsAgree'
  BY <1>2 DEF MapsAgree, SetRuntime, RefuseRun, loopVars
<1>3. ASSUME NEW r \in Runs, Launch(r) PROVE MapsAgree'
  <2>1. CASE slot # Nobody
    BY <1>1, <1>3, <2>1 DEF Launch
  <2>2. CASE slot = Nobody
    BY <1>0, <1>3, <2>2 DEF MapsAgree, Launch, Looping
  <2>. QED
    BY <2>1, <2>2
<1>4. ASSUME NEW r \in Runs, NEW f \in Looping, NEW t \in Looping, LoopGo(r, f, t),
             UNCHANGED <<drives, slot>>, port' = port \/ port' = Nobody,
             f \in {"run", "drop"} => t \in {"run", "drop"} \/ port' = Nobody
      PROVE  MapsAgree'
  BY <1>0, <1>4 DEF MapsAgree, LoopGo, Looping
<1>5. ASSUME NEW r \in Runs, LookupRuntime(r) PROVE MapsAgree'
  <2>1. slot = r /\ port = Nobody /\ loop[r] = "lookup"
    BY <1>0, <1>5 DEF MapsAgree, LookupRuntime, LoopGo, Looping
  <2>2. CASE runtime = Nobody
    BY <1>4, <1>5, <2>2 DEF LookupRuntime, Looping
  <2>3. CASE runtime # Nobody
    <3>1. /\ loop' = [loop EXCEPT ![r] = "run"] /\ port' = r
          /\ drives' = [drives EXCEPT ![r] = r] /\ slot' = slot
      BY <1>5, <2>1, <2>3 DEF LookupRuntime, LoopGo
    <3>. QED
      BY <1>0, <2>1, <3>1 DEF MapsAgree, Looping
  <2>. QED
    BY <2>2, <2>3
<1>6. ASSUME NEW r \in Runs, LeaveSlot(r) PROVE MapsAgree'
  BY <1>0, <1>6 DEF MapsAgree, LeaveSlot, LoopGo, Looping
<1>7. ASSUME NEW r \in Runs, Loop(r), ~LookupRuntime(r), ~LeaveSlot(r) PROVE MapsAgree'
  <2>1. \E f \in Looping, t \in Looping :
          /\ LoopGo(r, f, t) /\ (port' = port \/ port' = Nobody)
          /\ f \in {"run", "drop"} => t \in {"run", "drop"} \/ port' = Nobody
    BY <1>7 DEF Loop, BeginLoop, PublishEvent, EndLoop, DeleteRuntime, ReadEndSeq, FinishLoop,
       FinishFails, Looping, mapVars
  <2>2. UNCHANGED <<drives, slot>>
    BY <1>7 DEF Loop, BeginLoop, PublishEvent, EndLoop, DeleteRuntime, ReadEndSeq, FinishLoop,
       FinishFails, mapVars
  <2>. QED
    BY <1>4, <2>1, <2>2
<1>8. ASSUME NEW r \in Runs, Handler(r), ~SetRuntime(r), ~RefuseRun(r), ~Launch(r)
      PROVE  UNCHANGED <<loop, drives, slot, port>>
  BY <1>8 DEF Handler, Receive, ClaimKey, CheckIdle, ReadStartSeq, IngestUserMessage, CreateRun,
     LinkKey, CompleteKey, StartFails, GiveUp, loopVars, mapVars
<1>9. CASE Crash
  BY <1>0, <1>9 DEF MapsAgree, Crash, Looping
<1>10. CASE (\E r \in Runs : CancelCheck(r)) \/ CancelDurably \/ RecoverRuns \/ UNCHANGED startVars
  BY <1>1, <1>10 DEF CancelCheck, CancelDurably, RecoverRuns, startVars, loopVars, mapVars
<1>. QED
  BY <1>1, <1>2, <1>3, <1>5, <1>6, <1>7, <1>8, <1>9, <1>10 DEF StartNext

-----------------------------------------------------------------------------
(* The fence *)

\* A row that is taken stays taken by the same request body, a completed row
\* stays as it is, and only complete makes one.
LEMMA FenceMoves ==
    ASSUME StartInv, [StartNext]_startVars, NEW k \in Keys
    PROVE  /\ fence[k].state # "none" => fence'[k].state # "none" /\ fence'[k].body = fence[k].body
           /\ fence[k].state = "completed" => fence'[k] = fence[k]
           /\ fence[k].state # "completed" /\ fence'[k].state = "completed" =>
                \E r \in Runs : CompleteKey(r) /\ KeyOf[r] = k /\ fence'[k].result = r
<1> USE DEF StartInv
<1>0. fence \in [Keys -> FenceRow]
  BY DEF StartTypeOK
<1>1. CASE UNCHANGED fence
  BY <1>1
<1>2. ASSUME NEW r \in Runs, NEW c \in Keys, NEW lease, NEW body, NEW kind,
             Claim(c, body, lease, kind) \/ LinkRun(c, lease, r) \/ MarkIndeterminate(c)
      PROVE  /\ fence[k].state # "none" => fence'[k].state # "none" /\ fence'[k].body = fence[k].body
             /\ fence[k].state = "completed" => fence'[k] = fence[k]
             /\ fence[k].state # "completed" => fence'[k].state # "completed"
  <2>0. fence[c] \in FenceRow
    BY <1>0
  <2>1. ASSUME MarkIndeterminate(c)
        PROVE  /\ fence[k].state # "none" => fence'[k].state # "none" /\ fence'[k].body = fence[k].body
               /\ fence[k].state = "completed" => fence'[k] = fence[k]
               /\ fence[k].state # "completed" => fence'[k].state # "completed"
    BY <1>0, <2>0, <2>1 DEF MarkIndeterminate, FenceRow
  <2>2. CASE Claim(c, body, lease, kind)
    <3>1. CASE kind = "claimed"
      <4>1. fence[c].state = "none"
        BY <2>2, <3>1 DEF Claim, Claims
      <4>2. fence' = [fence EXCEPT ![c] = [state |-> "in_progress", body |-> body,
                                           lease |-> lease, run |-> Nobody, result |-> Nobody]]
        BY <2>2, <3>1 DEF Claim
      <4>. QED
        BY <1>0, <4>1, <4>2
    <3>2. CASE kind = "indeterminate"
      BY <2>1, <2>2, <3>2 DEF Claim
    <3>3. CASE kind \notin {"claimed", "indeterminate"}
      BY <2>2, <3>3 DEF Claim
    <3>. QED
      BY <3>1, <3>2, <3>3
  <2>3. CASE LinkRun(c, lease, r)
    BY <1>0, <2>0, <2>3 DEF LinkRun, Held, FenceRow
  <2>. QED
    BY <1>2, <2>1, <2>2, <2>3
<1>3. ASSUME NEW r \in Runs, CompleteKey(r)
      PROVE  /\ fence[k].state # "none" => fence'[k].state # "none" /\ fence'[k].body = fence[k].body
             /\ fence[k].state = "completed" => fence'[k] = fence[k]
             /\ fence[k].state # "completed" /\ fence'[k].state = "completed" =>
                  KeyOf[r] = k /\ fence'[k].result = r
  <2>1. KeyOf[r] \in Keys
    BY <1>3, StartAssumption DEF CompleteKey, ReqGo, FenceKept, Keyed
  <2>2. /\ fence[KeyOf[r]].state = "in_progress" /\ fence[KeyOf[r]] \in FenceRow
        /\ fence' = [fence EXCEPT ![KeyOf[r]].state = "completed", ![KeyOf[r]].result = r]
    BY <1>0, <1>3, <2>1 DEF CompleteKey, Complete, Held
  <2>. QED
    BY <1>0, <2>1, <2>2 DEF FenceRow
<1>4. ASSUME NEW r \in Runs, ClaimKey(r) \/ LinkKey(r) \/ GiveUp(r)
      PROVE  \/ UNCHANGED fence
             \/ /\ KeyOf[r] \in Keys
                /\ \/ \E kind : Claim(KeyOf[r], BodyOf[r], boot, kind)
                   \/ LinkRun(KeyOf[r], boot, r)
                   \/ MarkIndeterminate(KeyOf[r])
  BY <1>4, StartAssumption DEF ClaimKey, LinkKey, GiveUp, FenceKept, Keyed
<1>5. ASSUME NEW r \in Runs, Handler(r), ~ClaimKey(r), ~LinkKey(r), ~GiveUp(r), ~CompleteKey(r)
      PROVE  UNCHANGED fence
  BY <1>5 DEF Handler, Receive, CheckIdle, SetRuntime, ReadStartSeq, RefuseRun,
     IngestUserMessage, CreateRun, Launch, StartFails
<1>6. ASSUME NEW r \in Runs, Loop(r) \/ CancelCheck(r) PROVE UNCHANGED fence
  BY <1>6 DEF Loop, BeginLoop, LookupRuntime, PublishEvent, EndLoop, DeleteRuntime, ReadEndSeq,
     FinishLoop, FinishFails, LeaveSlot, CancelCheck
<1>7. CASE CancelDurably \/ Crash \/ RecoverRuns \/ UNCHANGED startVars
  BY <1>1, <1>7 DEF CancelDurably, Crash, RecoverRuns, startVars
<1>. QED
  <2>1. CASE \E r \in Runs : ClaimKey(r) \/ LinkKey(r) \/ GiveUp(r)
    BY <1>1, <1>2, <1>4, <2>1
  <2>2. CASE \E r \in Runs : CompleteKey(r)
    BY <1>3, <2>2
  <2>. QED
    BY <1>1, <1>5, <1>6, <1>7, <2>1, <2>2 DEF StartNext

\* Where a handler can go in a step: only the claim passes the fence, and it
\* finds the row free.
LEMMA ReqMoves ==
    ASSUME StartInv, [StartNext]_startVars, NEW s \in Runs
    PROVE  /\ req'[s] \in {"claim", "complete"} => Keyed(s)
           /\ Keyed(s) /\ Begun(s)' /\ ~Begun(s) =>
                /\ KeyOf[s] \in Keys /\ fence[KeyOf[s]].state = "none"
                /\ fence'[KeyOf[s]].state # "none" /\ fence'[KeyOf[s]].body = BodyOf[s]
                /\ \A x \in Runs : Begun(x)' => Begun(x) \/ x = s
           /\ req'[s] \in Unspoken => req[s] \in Unspoken
<1> USE DEF StartInv
<1>0. /\ req \in [Runs -> {"idle", "claim", "check", "giveup", "done"} \cup Starting]
      /\ status \in [Runs -> {"absent"} \cup Live \cup Terminal]
      /\ req[s] \in {"claim", "complete"} => Keyed(s)
  BY DEF StartTypeOK, RunStoreTypeOK, FenceKept
<1>r. ASSUME NEW x \in Runs, status'[x] # "absent"
      PROVE  status[x] # "absent" \/ req[x] = "create"
  BY <1>r, RowMoves DEF CreateRun, ReqGo
<1>1. CASE UNCHANGED req
  <2>1. \A x \in Runs : Begun(x)' => Begun(x)
    BY <1>1, <1>r DEF Begun, Starting
  <2>. QED
    BY <1>0, <1>1, <2>1
\* A handler that was past the fence, or gives up, moves on.
<1>2. ASSUME NEW r \in Runs, NEW f \in Starting \cup {"check", "giveup"}, NEW t, ReqGo(r, f, t),
             t \in Starting \cup {"giveup", "done"},
             t \in Unspoken => f \in Unspoken,
             t = "complete" => Keyed(r)
      PROVE  /\ req'[s] \in {"claim", "complete"} => Keyed(s)
             /\ Begun(s)' => Begun(s)
             /\ req'[s] \in Unspoken => req[s] \in Unspoken
  BY <1>0, <1>2, <1>r DEF ReqGo, Begun, Starting
<1>3. ASSUME NEW r \in Runs, Handler(r), ~Receive(r), ~ClaimKey(r)
      PROVE  /\ req'[s] \in {"claim", "complete"} => Keyed(s)
             /\ Begun(s)' => Begun(s)
             /\ req'[s] \in Unspoken => req[s] \in Unspoken
  <2>1. \E f \in Starting \cup {"check", "giveup"}, t \in Starting \cup {"giveup", "done"} :
          /\ ReqGo(r, f, t)
          /\ t = "complete" => Keyed(r)
          /\ t \in Unspoken => f \in Unspoken
    BY <1>3 DEF Handler, CheckIdle, SetRuntime, ReadStartSeq, CreateRun, RefuseRun,
       IngestUserMessage, Launch, LinkKey, CompleteKey, StartFails, GiveUp, Starting, Unspoken, Unlaunched
  <2>. QED
    BY <1>2, <2>1
<1>4. ASSUME NEW r \in Runs, Receive(r)
      PROVE  /\ req'[s] \in {"claim", "complete"} => Keyed(s)
             /\ Keyed(s) /\ Begun(s)' => Begun(s)
             /\ req'[s] \in Unspoken => req[s] \in Unspoken
  BY <1>0, <1>4 DEF Receive, ReqGo, Begun, Starting, Unspoken, Unlaunched, storeVars
<1>5. ASSUME NEW r \in Runs, ClaimKey(r)
      PROVE  /\ req'[s] \in {"claim", "complete"} => Keyed(s)
             /\ Begun(s)' /\ ~Begun(s) =>
                  /\ KeyOf[s] \in Keys /\ fence[KeyOf[s]].state = "none"
                  /\ fence'[KeyOf[s]].state # "none" /\ fence'[KeyOf[s]].body = BodyOf[s]
                  /\ \A x \in Runs : Begun(x)' => Begun(x) \/ x = s
             /\ req'[s] \in Unspoken => req[s] \in Unspoken
  <2>1. KeyOf[r] \in Keys
    BY <1>5, StartAssumption DEF ClaimKey, FenceKept, Keyed
  <2>2. PICK kind \in Claims(KeyOf[r], BodyOf[r], boot) :
            Claim(KeyOf[r], BodyOf[r], boot, kind) /\ ReqGo(r, "claim", IF kind = "claimed" THEN "check" ELSE "done")
    BY <1>5 DEF ClaimKey
  <2>3. UNCHANGED status
    BY <1>5 DEF ClaimKey, storeVars
  <2>4. CASE kind # "claimed"
    BY <1>0, <2>2, <2>3, <2>4 DEF ReqGo, Begun, Starting, Unspoken, Unlaunched
  <2>5. CASE kind = "claimed"
    <3>1. fence[KeyOf[r]].state = "none"
      BY <2>2, <2>5 DEF Claims
    <3>2. fence' = [fence EXCEPT ![KeyOf[r]] = [state |-> "in_progress", body |-> BodyOf[r],
                                         lease |-> boot, run |-> Nobody, result |-> Nobody]]
      BY <2>2, <2>5 DEF Claim
    <3>3. fence'[KeyOf[r]].state # "none" /\ fence'[KeyOf[r]].body = BodyOf[r]
      BY <2>1, <3>2 DEF StartTypeOK
    <3>4. req' = [req EXCEPT ![r] = "check"] /\ req[r] = "claim"
      BY <2>2, <2>5 DEF ReqGo
    <3>5. \A x \in Runs : Begun(x)' => Begun(x) \/ x = r
      BY <1>0, <2>3, <3>4 DEF Begun, Starting
    <3>. QED
      BY <1>0, <2>1, <3>1, <3>3, <3>4, <3>5 DEF Unspoken, Unlaunched
  <2>. QED
    BY <2>4, <2>5
<1>6. CASE Crash
  BY <1>0, <1>6 DEF Crash, Begun, Starting, Unspoken, Unlaunched, storeVars
<1>7. ASSUME NEW r \in Runs, Loop(r) \/ CancelCheck(r) PROVE UNCHANGED req
  BY <1>7 DEF Loop, BeginLoop, LookupRuntime, PublishEvent, EndLoop, DeleteRuntime, ReadEndSeq,
     FinishLoop, FinishFails, LeaveSlot, CancelCheck, reqVars
<1>8. CASE CancelDurably \/ RecoverRuns \/ UNCHANGED startVars
  BY <1>1, <1>8 DEF CancelDurably, RecoverRuns, startVars, reqVars
<1>. QED
  BY <1>1, <1>3, <1>4, <1>5, <1>6, <1>7, <1>8 DEF StartNext

\* Whoever is past the fence finds its claim there, and is alone.
LEMMA FenceStep ==
    ASSUME StartInv, [StartNext]_startVars
    PROVE  FenceKept'
<1> USE DEF StartInv
<1>1. \A r \in Runs : req'[r] \in {"claim", "complete"} => Keyed(r)
  BY ReqMoves
<1>2. ASSUME NEW r \in Runs, Keyed(r), Begun(r)'
      PROVE  fence'[KeyOf[r]].state # "none" /\ fence'[KeyOf[r]].body = BodyOf[r]
  <2>1. KeyOf[r] \in Keys
    BY <1>2, StartAssumption DEF Keyed
  <2>2. CASE Begun(r)
    BY <1>2, <2>1, <2>2, FenceMoves DEF FenceKept
  <2>3. CASE ~Begun(r)
    BY <1>2, <2>3, ReqMoves
  <2>. QED
    BY <2>2, <2>3
<1>3. ASSUME NEW r \in Runs, NEW s \in Runs, Keyed(r), KeyOf[r] = KeyOf[s], Begun(r)', Begun(s)'
      PROVE  r = s
  <2>1. Keyed(s)
    BY <1>3 DEF Keyed
  <2>2. CASE Begun(r) /\ Begun(s)
    BY <1>3, <2>2 DEF FenceKept
  <2>3. CASE ~Begun(r)
    <3>1. fence[KeyOf[r]].state = "none" /\ (Begun(s) \/ s = r)
      BY <1>3, <2>3, ReqMoves
    <3>. QED
      BY <1>3, <2>1, <3>1 DEF FenceKept
  <2>4. CASE ~Begun(s)
    <3>1. fence[KeyOf[s]].state = "none" /\ (Begun(r) \/ s = r)
      BY <1>3, <2>1, <2>4, ReqMoves
    <3>. QED
      BY <1>3, <3>1 DEF FenceKept
  <2>. QED
    BY <2>2, <2>3, <2>4
<1>. QED
  BY <1>1, <1>2, <1>3 DEF FenceKept, Keyed, Begun

\* Complete records the run of the request that holds the claim.
LEMMA CompleteFacts ==
    ASSUME StartInv, NEW r \in Runs, CompleteKey(r)
    PROVE  /\ KeyOf[r] \in Keys /\ Keyed(r)
           /\ StartedAs(r, KeyOf[r], BodyOf[r])
           /\ fence[KeyOf[r]].body = BodyOf[r] /\ fence[KeyOf[r]].state # "none"
<1> USE DEF StartInv
<1>1. req[r] = "complete"
  BY DEF CompleteKey, ReqGo
<1>2. Keyed(r) /\ KeyOf[r] \in Keys
  BY <1>1, StartAssumption DEF FenceKept, Keyed
<1>3. loop[r] # "none" /\ status[r] # "absent"
  BY <1>1 DEF PlacesAgree
<1>4. Begun(r)
  BY <1>1 DEF Begun, Starting
<1>. QED
  BY <1>2, <1>3, <1>4 DEF FenceKept, StartedAs

\* A started run stays one.
LEMMA StartedStays ==
    ASSUME StartInv, [StartNext]_startVars, NEW r, NEW k, NEW body, StartedAs(r, k, body)
    PROVE  StartedAs(r, k, body)'
BY RowMoves, LoopMoves DEF StartedAs

\* The fence answers with a run that its key started with its body.
LEMMA CompletedStep ==
    ASSUME StartInv, [StartNext]_startVars
    PROVE  CompletedIsStarted'
<1>1. SUFFICES ASSUME NEW k \in Keys, fence'[k].state = "completed"
               PROVE  \E x, b : fence'[k].result = x /\ fence'[k].body = b /\ StartedAs(x, k, b)'
  BY DEF CompletedIsStarted, StartedAs
<1>2. CASE fence[k].state = "completed"
  <2>1. PICK x, b : fence[k].result = x /\ fence[k].body = b /\ StartedAs(x, k, b)
    BY <1>2 DEF StartInv, CompletedIsStarted
  <2>2. fence'[k] = fence[k]
    BY <1>2, FenceMoves
  <2>. QED
    BY <2>1, <2>2, StartedStays
<1>3. CASE fence[k].state # "completed"
  <2>1. PICK r \in Runs : CompleteKey(r) /\ KeyOf[r] = k /\ fence'[k].result = r
    BY <1>1, <1>3, FenceMoves
  <2>2. StartedAs(r, k, BodyOf[r]) /\ fence'[k].body = BodyOf[r]
    BY <2>1, CompleteFacts, FenceMoves
  <2>. QED
    BY <2>1, <2>2, StartedStays
<1>. QED
  BY <1>2, <1>3

\* A handler answers with a run that its key started with its body.
LEMMA AnswerStep ==
    ASSUME StartInv, [StartNext]_startVars
    PROVE  AnswerIsTheRun'
<1> USE DEF StartInv
<1>0. told \in [Runs -> Runs \cup {Nobody}] /\ Nobody \notin Runs
  BY StartAssumption, FenceAssumption DEF StartTypeOK
<1> DEFINE Right(r, x) == /\ x \in Runs /\ loop[x] # "none" /\ status[x] # "absent"
                          /\ KeyOf[x] = KeyOf[r]
                          /\ Keyed(r) => BodyOf[x] = BodyOf[r]
                          /\ ~Keyed(r) => x = r
\* An answer already given stays right.
<1>1. \A r \in Runs : told[r] # Nobody => Right(r, told[r])
  BY <1>0 DEF AnswerIsTheRun
<1>2. \A r, x \in Runs : Right(r, x) => loop'[x] # "none" /\ status'[x] # "absent"
  BY RowMoves, LoopMoves
<1>3. ASSUME NEW r \in Runs, NEW x, Right(r, x), told' = [told EXCEPT ![r] = x] \/ UNCHANGED told
      PROVE  AnswerIsTheRun'
  BY <1>0, <1>1, <1>2, <1>3 DEF AnswerIsTheRun, Keyed
<1>4. CASE UNCHANGED told
  BY <1>0, <1>1, <1>2, <1>4 DEF AnswerIsTheRun, Keyed
<1>5. ASSUME NEW r \in Runs, ClaimKey(r) PROVE AnswerIsTheRun'
  <2>1. Keyed(r) /\ KeyOf[r] \in Keys
    BY <1>5, StartAssumption DEF ClaimKey, FenceKept, Keyed
  <2>2. PICK kind \in Claims(KeyOf[r], BodyOf[r], boot) :
            told' = [told EXCEPT ![r] = IF kind = "replay" THEN fence[KeyOf[r]].result ELSE @]
    BY <1>5 DEF ClaimKey
  <2>3. CASE kind = "replay"
    <3>1. fence[KeyOf[r]].state = "completed" /\ fence[KeyOf[r]].body = BodyOf[r]
      BY <2>2, <2>3 DEF Claims
    <3>2. Right(r, fence[KeyOf[r]].result)
      BY <2>1, <3>1 DEF CompletedIsStarted, StartedAs
    <3>. QED
      BY <1>3, <2>2, <2>3, <3>2
  <2>4. CASE kind # "replay"
    BY <1>0, <1>4, <2>2, <2>4
  <2>. QED
    BY <2>3, <2>4
<1>6. ASSUME NEW r \in Runs, LinkKey(r) PROVE AnswerIsTheRun'
  <2>1. CASE Keyed(r)
    BY <1>4, <1>6, <2>1 DEF LinkKey
  <2>2. CASE ~Keyed(r)
    <3>1. req[r] = "link" /\ told' = [told EXCEPT ![r] = r]
      BY <1>6, <2>2 DEF LinkKey, ReqGo
    <3>2. Right(r, r)
      BY <3>1, <2>2 DEF PlacesAgree
    <3>. QED
      BY <1>3, <3>1, <3>2
  <2>. QED
    BY <2>1, <2>2
<1>7. ASSUME NEW r \in Runs, CompleteKey(r) PROVE AnswerIsTheRun'
  <2>1. Right(r, r)
    BY <1>7, CompleteFacts DEF StartedAs
  <2>. QED
    BY <1>3, <1>7, <2>1 DEF CompleteKey
<1>8. ASSUME NEW r \in Runs, Handler(r), ~ClaimKey(r), ~LinkKey(r), ~CompleteKey(r)
      PROVE  UNCHANGED told
  BY <1>8 DEF Handler, Receive, CheckIdle, SetRuntime, ReadStartSeq, CreateRun, RefuseRun,
     IngestUserMessage, Launch, StartFails, GiveUp
<1>9. ASSUME NEW r \in Runs, Loop(r) \/ CancelCheck(r) PROVE UNCHANGED told
  BY <1>9 DEF Loop, BeginLoop, LookupRuntime, PublishEvent, EndLoop, DeleteRuntime, ReadEndSeq,
     FinishLoop, FinishFails, LeaveSlot, CancelCheck, reqVars
<1>10. CASE CancelDurably \/ Crash \/ RecoverRuns \/ UNCHANGED startVars
  BY <1>4, <1>10 DEF CancelDurably, Crash, RecoverRuns, startVars, reqVars
<1>. QED
  BY <1>4, <1>5, <1>6, <1>7, <1>8, <1>9, <1>10 DEF StartNext

-----------------------------------------------------------------------------
(* The interval of a run *)

\* Only readEndSeq brings a loop to its final write.
LEMMA FinishMoves ==
    ASSUME StartInv, [StartNext]_startVars, NEW s \in Runs,
           loop'[s] = "finish", loop[s] # "finish"
    PROVE  ReadEndSeq(s)
<1> USE DEF StartInv
<1>0. loop \in [Runs -> {"none", "gone"} \cup Looping]
  BY DEF StartTypeOK
<1>1. ASSUME NEW r \in Runs, Handler(r) PROVE UNCHANGED loop \/ loop' = [loop EXCEPT ![r] = "boot"]
  BY <1>1 DEF Handler, Receive, ClaimKey, CheckIdle, SetRuntime, ReadStartSeq, RefuseRun, Launch,
     IngestUserMessage, CreateRun, LinkKey, CompleteKey, StartFails, GiveUp, loopVars
<1>2. ASSUME NEW r \in Runs, Loop(r), ~ReadEndSeq(r)
      PROVE  \E t : t # "finish" /\ loop' = [loop EXCEPT ![r] = t]
  BY <1>2 DEF Loop, BeginLoop, LookupRuntime, PublishEvent, EndLoop, DeleteRuntime,
     FinishLoop, FinishFails, LeaveSlot, LoopGo
<1>3. ASSUME NEW r \in Runs, ReadEndSeq(r) PROVE loop' = [loop EXCEPT ![r] = "finish"]
  BY <1>3 DEF ReadEndSeq, LoopGo
<1>4. CASE Crash
  BY <1>0, <1>4 DEF Crash
<1>5. CASE (\E r \in Runs : CancelCheck(r)) \/ CancelDurably \/ RecoverRuns \/ UNCHANGED startVars
  BY <1>5 DEF CancelCheck, CancelDurably, RecoverRuns, startVars, loopVars
<1>. QED
  BY <1>0, <1>1, <1>2, <1>3, <1>4, <1>5 DEF StartNext

\* Every event lies behind the first bound of its run and, once the second was
\* read, before that.
LEMMA EventsStep ==
    ASSUME StartInv, [StartNext]_startVars
    PROVE  EventsBounded'
<1> USE DEF StartInv
<1>0. /\ log \in Seq(Runs) /\ Len(log) \in Nat
      /\ startSeq \in [Runs -> -1..Len(log)] /\ endSeq \in [Runs -> -1..Len(log)]
  BY DEF StartTypeOK
\* What moved in s without an event or a bound being written.
<1>1. ASSUME NEW s \in Runs
      PROVE  /\ req'[s] \in Unspoken => req[s] \in Unspoken
             /\ loop'[s] = "finish" \/ status'[s] \in {"succeeded", "failed"} =>
                  \/ loop[s] = "finish" \/ status[s] \in {"succeeded", "failed"}
                  \/ ReadEndSeq(s)
  BY ReqMoves, FinishMoves, RowMoves DEF FinishLoop, LoopGo
<1>2. CASE UNCHANGED logVars
  <2>1. UNCHANGED <<log, startSeq, endSeq>>
    BY <1>2 DEF logVars
  <2>2. ASSUME NEW s \in Runs, ReadEndSeq(s), NEW i \in 1..Len(log) PROVE i <= endSeq[s]
    BY <1>0, <2>1, <2>2 DEF ReadEndSeq
  <2>. QED
    BY <1>1, <2>1, <2>2 DEF EventsBounded
<1>3. ASSUME NEW r \in Runs, ReadStartSeq(r) PROVE EventsBounded'
  <2>1. /\ UNCHANGED <<log, endSeq>> /\ req[r] = "seq"
        /\ startSeq' = [startSeq EXCEPT ![r] = Len(log)]
    BY <1>3 DEF ReadStartSeq, ReqGo
  <2>2. \A s \in Runs : ~ReadEndSeq(s)
    <3>1. req' # req
      BY <1>3 DEF ReadStartSeq, ReqGo, StartTypeOK
    <3>. QED
      BY <3>1 DEF ReadEndSeq, reqVars
  <2>3. \A i \in 1..Len(log) : log[i] # r
    BY <2>1 DEF EventsBounded, Unspoken, Unlaunched
  <2>. QED
    BY <1>0, <1>1, <2>1, <2>2, <2>3 DEF EventsBounded
<1>4. ASSUME NEW r \in Runs, ReadEndSeq(r) PROVE EventsBounded'
  <2>1. /\ UNCHANGED <<log, startSeq, req, status>>
        /\ endSeq' = [endSeq EXCEPT ![r] = Len(log)]
        /\ \A s \in Runs : s # r => loop'[s] = loop[s]
    BY <1>4 DEF ReadEndSeq, LoopGo, reqVars, storeVars, StartTypeOK
  <2>2. SUFFICES ASSUME NEW s \in Runs, NEW i \in 1..Len(log), log[i] = s
                 PROVE  /\ req[s] \notin Unspoken
                        /\ startSeq[s] < i
                        /\ loop'[s] = "finish" \/ status[s] \in {"succeeded", "failed"} => i <= endSeq'[s]
    BY <2>1 DEF EventsBounded
  <2>3. CASE s = r
    BY <1>0, <2>1, <2>2, <2>3 DEF EventsBounded
  <2>4. CASE s # r
    <3>1. loop'[s] = loop[s] /\ endSeq'[s] = endSeq[s]
      BY <1>0, <2>1, <2>4
    <3>. QED
      BY <2>2, <3>1 DEF EventsBounded
  <2>. QED
    BY <2>3, <2>4
<1>5. ASSUME NEW r \in Runs, IngestUserMessage(r) \/ PublishEvent(r) PROVE EventsBounded'
  <2>1. log' = Append(log, r) /\ UNCHANGED <<startSeq, endSeq, status>>
    BY <1>5 DEF IngestUserMessage, PublishEvent, storeVars
  <2>2. /\ req'[r] \notin Unspoken
        /\ loop'[r] # "finish" /\ status'[r] \notin {"succeeded", "failed"}
    <3>1. CASE IngestUserMessage(r)
      BY <2>1, <3>1 DEF IngestUserMessage, ReqGo, loopVars, PlacesAgree, StartTypeOK, Unspoken, Unlaunched
    <3>2. CASE PublishEvent(r)
      BY <2>1, <3>2 DEF PublishEvent, LoopGo, reqVars, PlacesAgree, StartTypeOK, Unspoken, Unlaunched
    <3>. QED
      BY <1>5, <3>1, <3>2
  <2>3. \A s \in Runs : ~ReadEndSeq(s)
    <3>1. log' # log
      BY <1>0, <2>1
    <3>. QED
      BY <3>1 DEF ReadEndSeq
  <2>4. startSeq[r] < Len(log) + 1
    BY <1>0
  <2>5. /\ Len(log') = Len(log) + 1
        /\ \A i \in 1..Len(log) : log'[i] = log[i]
        /\ log'[Len(log) + 1] = r
    BY <1>0, <2>1
  <2>6. SUFFICES ASSUME NEW s \in Runs, NEW i \in 1..(Len(log) + 1), log'[i] = s
                 PROVE  /\ req'[s] \notin Unspoken
                        /\ startSeq[s] < i
                        /\ loop'[s] = "finish" \/ status'[s] \in {"succeeded", "failed"} => i <= endSeq[s]
    BY <2>1, <2>5 DEF EventsBounded
  <2>7. CASE i \in 1..Len(log)
    BY <1>1, <2>3, <2>5, <2>6, <2>7 DEF EventsBounded
  <2>8. CASE i = Len(log) + 1
    BY <2>2, <2>4, <2>5, <2>6, <2>8
  <2>9. i \in 1..Len(log) \/ i = Len(log) + 1
    <3>1. Len(log) \in Nat
      BY <1>0
    <3>. QED
      BY <2>6, <3>1
  <2>. QED
    BY <2>7, <2>8, <2>9
<1>6. ASSUME NEW r \in Runs, Handler(r), ~ReadStartSeq(r), ~IngestUserMessage(r)
      PROVE  UNCHANGED logVars
  BY <1>6 DEF Handler, Receive, ClaimKey, CheckIdle, SetRuntime, CreateRun, RefuseRun, Launch,
     LinkKey, CompleteKey, StartFails, GiveUp
<1>7. ASSUME NEW r \in Runs, Loop(r), ~PublishEvent(r), ~ReadEndSeq(r) PROVE UNCHANGED logVars
  BY <1>7 DEF Loop, BeginLoop, LookupRuntime, EndLoop, DeleteRuntime, FinishLoop, FinishFails, LeaveSlot
<1>8. CASE (\E r \in Runs : CancelCheck(r)) \/ CancelDurably \/ Crash \/ RecoverRuns \/ UNCHANGED startVars
  BY <1>2, <1>8 DEF CancelCheck, CancelDurably, Crash, RecoverRuns, startVars
<1>. QED
  BY <1>2, <1>3, <1>4, <1>5, <1>6, <1>7, <1>8 DEF StartNext

-----------------------------------------------------------------------------
(* The theorems *)

\* The cancel handler that is about to write names a run.
LEMMA CancelStep ==
    ASSUME StartInv, [StartNext]_startVars
    PROVE  CancelNamed'
<1> USE DEF StartInv
<1>0. cancel \in [at : {"idle", "persist", "done"}, r : Runs \cup {Nobody}]
  BY DEF StartTypeOK
<1>1. CASE UNCHANGED cancel
  BY <1>1 DEF CancelNamed
<1>2. CASE \E r \in Runs : CancelCheck(r)
  BY <1>2 DEF CancelNamed, CancelCheck
<1>3. CASE CancelDurably \/ Crash
  BY <1>0, <1>3 DEF CancelNamed, CancelDurably, Crash, NoCancel
<1>4. ASSUME NEW r \in Runs, Handler(r) \/ Loop(r) PROVE UNCHANGED cancel
  BY <1>4 DEF Handler, Receive, ClaimKey, CheckIdle, SetRuntime, ReadStartSeq, CreateRun, RefuseRun,
     IngestUserMessage, Launch, LinkKey, CompleteKey, StartFails, GiveUp, Loop, BeginLoop,
     LookupRuntime, PublishEvent, EndLoop, DeleteRuntime, ReadEndSeq, FinishLoop, FinishFails,
     LeaveSlot, reqVars
<1>5. CASE RecoverRuns \/ UNCHANGED startVars
  BY <1>1, <1>5 DEF RecoverRuns, startVars, reqVars
<1>. QED
  BY <1>1, <1>2, <1>3, <1>4, <1>5 DEF StartNext

\* The inductive invariant of racing starts: it holds at first and every step
\* of a handler, a loop, a cancellation, a crash or a boot keeps it.
THEOREM StartInvariant == StartSpec => []StartInv
<1>1. StartInit => StartInv
  <2>1. SUFFICES ASSUME StartInit PROVE StartInv
    OBVIOUS
  <2> USE <2>1
  <2>2. LedgerInv
    BY DEF StartInit, RunStoreInit, LedgerInv, RunStoreTypeOK, SpentApprovalIsReceipted,
       DecisionHasReceipt, Verdict, Consequence, NoneObserved
  <2>3. fence \in [Keys -> FenceRow]
    BY StartAssumption DEF StartInit, FenceInit, FreeRow, FenceRow
  <2>4. StartTypeOK
    BY <2>2, <2>3, StartAssumption DEF StartTypeOK, StartInit, LedgerInv, NoCancel
  <2>5. FenceKept /\ CompletedIsStarted
    BY DEF StartInit, RunStoreInit, FenceInit, FreeRow, FenceKept, CompletedIsStarted, Begun, Starting
  <2>6. AnswerIsTheRun /\ PlacesAgree /\ MapsAgree
    BY DEF StartInit, RunStoreInit, AnswerIsTheRun, PlacesAgree, MapsAgree, Looping, Unlaunched
  <2>7. EventsBounded /\ CancelNamed
    BY DEF StartInit, EventsBounded, CancelNamed, NoCancel
  <2>. QED
    BY <2>2, <2>4, <2>5, <2>6, <2>7 DEF StartInv
<1>2. StartInv /\ [StartNext]_startVars => StartInv'
  <2>1. SUFFICES ASSUME StartInv, [StartNext]_startVars PROVE StartInv'
    OBVIOUS
  <2>2. LedgerInv'
    BY <2>1, StartCallsStore, LedgerStep DEF StartInv
  <2>. QED
    BY <2>1, <2>2, StartTypesStep, FenceStep, CompletedStep, AnswerStep, PlacesStep, MapsStep,
       EventsStep, CancelStep DEF StartInv
<1>. QED
  BY <1>1, <1>2, PTL DEF StartSpec

\* Racing starts use the ledger only through its methods: whatever the ledger
\* promises on its own, it promises here.
THEOREM StartUsesLedger == StartSpec => RunStoreSpec
<1>1. StartInit => RunStoreInit
  BY DEF StartInit
<1>2. StartInv /\ [StartNext]_startVars => [RunStoreNext]_storeVars
  BY StartCallsStore DEF StartInv
<1>. QED
  BY <1>1, <1>2, StartInvariant, PTL DEF StartSpec, RunStoreSpec

\* ADR-0003 for any number of retries, keys and boots: a key starts at most one
\* run (RunIdempotencyStore.claim and the handler that never releases a claim).
THEOREM OneRunPerKeyTheorem == StartSpec => []OneRunPerKey
<1>1. StartInv => OneRunPerKey
  BY DEF StartInv, FenceKept, Begun, OneRunPerKey
<1>. QED
  BY <1>1, StartInvariant, PTL

\* A 200 response, original or replayed, names the run its key really started.
THEOREM AnswerTheorem == StartSpec => []AnswerIsTheRun
BY StartInvariant, PTL DEF StartInv

\* However many starts race past the idle check, runner.start lets one loop run
\* on the thread, and it drives its own port.
THEOREM OneLoopTheorem == StartSpec => []OneLoopPerThread
<1>1. StartInv => OneLoopPerThread
  BY DEF StartInv, MapsAgree, OneLoopPerThread
<1>. QED
  BY <1>1, StartInvariant, PTL

\* The bounds written for a finished run contain every event it published,
\* however many that are.
THEOREM IntervalTheorem == StartSpec => []IntervalCovers
<1>1. StartInv => IntervalCovers
  BY DEF StartInv, EventsBounded, IntervalCovers
<1>. QED
  BY <1>1, StartInvariant, PTL

\* A step of racing starts is a step of the abstract record, or leaves it alone:
\* the one call of markTerminal finds a row that markRunning has already moved.
LEMMA StartRecordStep ==
    ASSUME StartInv, [StartNext]_startVars
    PROVE  [StartRecord!RecordNext]_<<status, consequence>>
<1> USE DEF StartInv
<1>1. StepForward
  BY StartCallsStore, ForwardStep
<1>0. status \in [Runs -> {"absent"} \cup Live \cup Terminal]
  BY DEF LedgerInv, RunStoreTypeOK
<1> DEFINE Follows(s) == status'[s] = status[s] \/ status'[s] \in StartRecord!Successors(status[s])
<1>2. CASE UNCHANGED status
  BY <1>1, <1>2 DEF StepForward, StartRecord!RecordNext
<1>3. ASSUME NEW r \in Runs, CreateRun(r), NEW s \in Runs PROVE Follows(s)
  BY <1>0, <1>3 DEF CreateRun, Create, StartRecord!Successors
<1>4. ASSUME NEW r \in Runs, BeginLoop(r), NEW s \in Runs PROVE Follows(s)
  BY <1>0, <1>4 DEF BeginLoop, MarkRunning, Move, StartRecord!Successors
<1>5. ASSUME NEW r \in Runs, FinishLoop(r), NEW s \in Runs PROVE Follows(s)
  <2>1. status[r] # "accepted"
    BY <1>5 DEF FinishLoop, LoopGo, PlacesAgree, Looping
  <2>. QED
    BY <1>0, <1>5, <2>1 DEF FinishLoop, MarkTerminal, Move, Live, StartRecord!Successors, StartRecord!Outcome
<1>6. ASSUME CancelDurably, NEW s \in Runs PROVE Follows(s)
  BY <1>0, <1>6 DEF CancelDurably, CancelNamed, RequestCancel, Move, StartRecord!Successors
<1>7. ASSUME RecoverRuns, NEW s \in Runs PROVE Follows(s)
  BY <1>0, <1>7 DEF RecoverRuns, RecoverInterrupted, Live, StartRecord!Successors, StartRecord!Outcome
<1>8. ASSUME NEW r \in Runs, Handler(r), ~CreateRun(r) PROVE UNCHANGED status
  BY <1>8 DEF Handler, Receive, ClaimKey, CheckIdle, SetRuntime, ReadStartSeq, RefuseRun,
     IngestUserMessage, Launch, LinkKey, CompleteKey, StartFails, GiveUp, storeVars
<1>9. ASSUME NEW r \in Runs, Loop(r), ~BeginLoop(r), ~FinishLoop(r) PROVE UNCHANGED status
  BY <1>9 DEF Loop, LookupRuntime, PublishEvent, EndLoop, DeleteRuntime, ReadEndSeq,
     FinishFails, LeaveSlot, storeVars
<1>10. CASE (\E r \in Runs : CancelCheck(r)) \/ Crash \/ UNCHANGED startVars
  BY <1>2, <1>10 DEF CancelCheck, Crash, startVars, storeVars
<1>11. ASSUME \A s \in Runs : Follows(s) PROVE StartRecord!RecordNext
  BY <1>1, <1>11 DEF StepForward, StartRecord!RecordNext
<1>. QED
  BY <1>2, <1>3, <1>4, <1>5, <1>6, <1>7, <1>8, <1>9, <1>10, <1>11 DEF StartNext

\* Every run record follows ADR-0004's state machine through every race, retry,
\* cancellation and restart: racing starts implement RunRecord.
THEOREM StartRefinement == StartSpec => StartImplementsRunRecord
<1>1. StartInit => StartRecord!RecordInit
  BY DEF StartInit, RunStoreInit, NoneObserved, StartRecord!RecordInit
<1>2. StartInv /\ [StartNext]_startVars => [StartRecord!RecordNext]_<<status, consequence>>
  BY StartRecordStep
<1>. QED
  BY <1>1, <1>2, StartInvariant, PTL DEF StartSpec, StartImplementsRunRecord, StartRecord!RecordSpec,
     StartRecord!recordVars

============================================================================
