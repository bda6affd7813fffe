-------------------------- MODULE RunStore_proofs --------------------------
(***************************************************************************)
(* The ledger's promises hold for any set of runs and calls and for any    *)
(* order in which the methods of the two stores are called.                *)
(***************************************************************************)
EXTENDS RunStore, TLAPS

\* The three invariants are inductive together: that a spent approval keeps its
\* receipt needs the receipt of every approved row.
LedgerInv ==
    /\ RunStoreTypeOK
    /\ SpentApprovalIsReceipted
    /\ DecisionHasReceipt

\* The rank of the greater of two consequences is a consequence no smaller than
\* the first.
LEMMA GreaterConsequence ==
    ASSUME NEW k \in Consequence, NEW l \in Consequence
    PROVE  Greater(k, l) \in Consequence /\ k <= Greater(k, l)
BY DEF Greater, Consequence

\* An update of one run's status keeps the statuses typed.
LEMMA MoveType ==
    ASSUME RunStoreTypeOK, NEW r \in Runs, NEW from,
           NEW to \in Live \cup Terminal, Move(r, from, to)
    PROVE  status' \in [Runs -> {"absent"} \cup Live \cup Terminal]
BY DEF RunStoreTypeOK, Move

\* What an expiry does to the permission rows: it is typed, it leaves every
\* decided-and-spent row alone, and a row it changes becomes "expired".
LEMMA ExpireFacts ==
    ASSUME RunStoreTypeOK, NEW rs, ExpireUnconsumed(rs)
    PROVE  /\ perm' \in [Row -> {"none", "pending", "approved", "denied", "expired"}]
           /\ \A p \in Row : perm'[p] = perm[p]
                             \/ (perm'[p] = "expired" /\ p \notin consumed
                                 /\ perm[p] \in {"pending", "approved"})
BY DEF RunStoreTypeOK, ExpireUnconsumed

\* Every step of the ledger keeps the conjunction: one case per method.
LEMMA LedgerStep ==
    ASSUME LedgerInv, [RunStoreNext]_storeVars
    PROVE  LedgerInv'
<1> USE DEF LedgerInv
<1> DEFINE Inv == SpentApprovalIsReceipted /\ DecisionHasReceipt
<1>s. ASSUME UNCHANGED <<perm, receipt, consumed>> PROVE Inv'
  BY <1>s DEF SpentApprovalIsReceipted, DecisionHasReceipt
<1>x. ASSUME NEW rs, ExpireUnconsumed(rs), UNCHANGED <<receipt, consumed>> PROVE Inv'
  <2>1. \A p \in consumed : p \in Row
    BY DEF RunStoreTypeOK
  <2>. QED
    BY <1>x, <2>1, ExpireFacts DEF SpentApprovalIsReceipted, DecisionHasReceipt, Verdict
<1>1. CASE \E r \in Runs : Create(r) \/ MarkRunning(r) \/ MarkWaiting(r) \/ MarkRunningAfterDecision(r)
  <2>1. RunStoreTypeOK'
    BY <1>1, MoveType DEF RunStoreTypeOK, Create, MarkRunning, MarkWaiting,
       MarkRunningAfterDecision, Live, Terminal
  <2>. QED
    BY <1>1, <1>s, <2>1 DEF Create, MarkRunning, MarkWaiting, MarkRunningAfterDecision
<1>2. ASSUME NEW r \in Runs, RequestCancel(r) PROVE LedgerInv'
  <2>1. RunStoreTypeOK'
    BY <1>2, MoveType, ExpireFacts DEF RunStoreTypeOK, RequestCancel, Live
  <2>. QED
    BY <1>2, <1>x, <2>1 DEF RequestCancel
<1>3. ASSUME NEW r \in Runs, MarkPendingUnknownForRun(r) PROVE LedgerInv'
  <2>1. RunStoreTypeOK'
    BY <1>3, GreaterConsequence DEF RunStoreTypeOK, MarkPendingUnknownForRun, Reconcile,
       EffectPossible, Consequence
  <2>. QED
    BY <1>3, <1>s, <2>1 DEF MarkPendingUnknownForRun, Reconcile
<1>4. ASSUME NEW r \in Runs, NEW k \in Consequence, AdvanceConsequence(r, k) PROVE LedgerInv'
  <2>1. RunStoreTypeOK'
    BY <1>4, GreaterConsequence DEF RunStoreTypeOK, AdvanceConsequence
  <2>. QED
    BY <1>4, <1>s, <2>1 DEF AdvanceConsequence
<1>5. ASSUME NEW r \in Runs, NEW s \in Terminal, NEW k \in Consequence, MarkTerminal(r, s, k)
      PROVE  LedgerInv'
  <2>1. RunStoreTypeOK'
    BY <1>5, MoveType, ExpireFacts, GreaterConsequence DEF RunStoreTypeOK, MarkTerminal
  <2>. QED
    BY <1>5, <1>x, <2>1 DEF MarkTerminal
<1>6. ASSUME NEW r \in Runs, NEW c \in Calls, RecordPermissionRequest(r, c) PROVE LedgerInv'
  BY <1>6 DEF RecordPermissionRequest, RunStoreTypeOK, SpentApprovalIsReceipted,
     DecisionHasReceipt, Verdict, Row
<1>7. ASSUME NEW r \in Runs, NEW c \in Calls, NEW v \in Verdict, DecidePermission(r, c, v)
      PROVE  LedgerInv'
  BY <1>7 DEF DecidePermission, RunStoreTypeOK, SpentApprovalIsReceipted,
     DecisionHasReceipt, Verdict, Row
<1>8. ASSUME NEW r \in Runs, NEW c \in Calls, ExpirePermission(r, c) PROVE LedgerInv'
  <2>1. <<r, c>> \in Row
    BY DEF Row
  <2>2. RunStoreTypeOK'
    BY <1>8, <2>1 DEF ExpirePermission, RunStoreTypeOK
  <2>3. \A p \in Row : perm'[p] = perm[p]
                       \/ (perm'[p] = "expired" /\ p \notin consumed)
    BY <1>8, <2>1 DEF ExpirePermission, RunStoreTypeOK
  <2>4. UNCHANGED <<receipt, consumed>> /\ consumed \subseteq Row
    BY <1>8 DEF ExpirePermission, RunStoreTypeOK
  <2>. QED
    BY <2>2, <2>3, <2>4 DEF SpentApprovalIsReceipted, DecisionHasReceipt, Verdict
<1>9. ASSUME NEW r \in Runs, NEW c \in Calls, ConsumePermissionApproval(r, c) PROVE LedgerInv'
  BY <1>9 DEF ConsumePermissionApproval, Consumable, RunStoreTypeOK,
     SpentApprovalIsReceipted, DecisionHasReceipt, Verdict, Row
<1>10. ASSUME NEW r \in Runs, NEW c \in Calls, ObserveIntent(r, c) PROVE LedgerInv'
  <2>1. RunStoreTypeOK'
    BY <1>10 DEF RunStoreTypeOK, ObserveIntent, Row
  <2>. QED
    BY <1>10, <1>s, <2>1 DEF ObserveIntent
<1>11. ASSUME NEW r \in Runs, NEW c \in Calls, NEW k \in Consequence, ObserveOutcome(r, c, k)
       PROVE  LedgerInv'
  <2>1. RunStoreTypeOK'
    BY <1>11, GreaterConsequence DEF RunStoreTypeOK, ObserveOutcome, Row
  <2>. QED
    BY <1>11, <1>s, <2>1 DEF ObserveOutcome
<1>12. CASE RecoverInterrupted
  <2>1. RunStoreTypeOK'
    BY <1>12, ExpireFacts DEF RunStoreTypeOK, RecoverInterrupted, Terminal
  <2>. QED
    BY <1>12, <1>x, <2>1 DEF RecoverInterrupted
<1>13. CASE ReconcileInterrupted
  <2>1. RunStoreTypeOK'
    BY <1>13, GreaterConsequence DEF RunStoreTypeOK, ReconcileInterrupted, Reconcile,
       EffectPossible, Consequence
  <2>. QED
    BY <1>13, <1>s, <2>1 DEF ReconcileInterrupted, Reconcile
<1>14. CASE UNCHANGED storeVars
  BY <1>14 DEF storeVars, RunStoreTypeOK, SpentApprovalIsReceipted, DecisionHasReceipt
<1>. QED
  BY <1>1, <1>2, <1>3, <1>4, <1>5, <1>6, <1>7, <1>8, <1>9, <1>10, <1>11, <1>12, <1>13, <1>14
  DEF RunStoreNext

\* The ledger keeps its types, its receipts and its spent approvals in every
\* state any sequence of store calls can reach.
THEOREM LedgerInvariant == RunStoreSpec => []LedgerInv
<1>1. RunStoreInit => LedgerInv
  BY DEF RunStoreInit, LedgerInv, RunStoreTypeOK, SpentApprovalIsReceipted,
     DecisionHasReceipt, Verdict, Consequence, NoneObserved
<1>2. LedgerInv /\ [RunStoreNext]_storeVars => LedgerInv'
  BY LedgerStep
<1>. QED
  BY <1>1, <1>2, PTL DEF RunStoreSpec

\* No sequence of store calls writes a status, a rank, a permission or a receipt
\* that is not one: Greater never leaves the four ranks, and every row named by a
\* consumption exists.
THEOREM LedgerTypes == RunStoreSpec => []RunStoreTypeOK
BY LedgerInvariant, PTL DEF LedgerInv

\* An approval is spent only against the receipt of an approving decision
\* (consumePermissionApproval), whatever expiries, cancellations and restarts
\* come in between.
THEOREM SpentApprovalTheorem == RunStoreSpec => []SpentApprovalIsReceipted
BY LedgerInvariant, PTL DEF LedgerInv

\* Every decided request has the receipt of that very decision
\* (decidePermission's single transaction).
THEOREM DecisionReceiptTheorem == RunStoreSpec => []DecisionHasReceipt
BY LedgerInvariant, PTL DEF LedgerInv

\* A status update whose target is a live status, and whose source statuses
\* exclude the terminal ones and "cancel_requested", only moves forward.
LEMMA MoveForward ==
    ASSUME RunStoreTypeOK, NEW r \in Runs, NEW from, NEW to, Move(r, from, to),
           to # "absent",
           from \cap Terminal = {},
           "cancel_requested" \in from => to \in Terminal
    PROVE  \A x \in Runs :
             /\ status[x] \in Terminal => status'[x] = status[x]
             /\ status[x] # "absent" => status'[x] # "absent"
             /\ status[x] = "cancel_requested" => status'[x] \in {"cancel_requested"} \cup Terminal
BY DEF RunStoreTypeOK, Move

\* Every method moves the ledger forward.
LEMMA ForwardStep ==
    ASSUME LedgerInv, [RunStoreNext]_storeVars
    PROVE  StepForward
<1> USE DEF LedgerInv
<1> DEFINE
      RunsForward ==
        \A r \in Runs :
          /\ status[r] \in Terminal => status'[r] = status[r]
          /\ status[r] # "absent" => status'[r] # "absent"
          /\ status[r] = "cancel_requested" => status'[r] \in {"cancel_requested"} \cup Terminal
      EvidenceForward == \A r \in Runs : consequence[r] <= consequence'[r]
      RowsForward ==
        /\ consumed \subseteq consumed'
        /\ \A p \in Row :
             /\ perm[p] \in {"denied", "expired"} => perm'[p] = perm[p]
             /\ receipt[p] # "none" => receipt'[p] = receipt[p]
<1>q. SUFFICES RunsForward /\ EvidenceForward /\ RowsForward
  BY DEF StepForward
<1>a. UNCHANGED status => RunsForward
  OBVIOUS
<1>b. UNCHANGED consequence => EvidenceForward
  BY DEF RunStoreTypeOK, Consequence
<1>c. UNCHANGED <<perm, receipt, consumed>> => RowsForward
  OBVIOUS
<1>x. ASSUME NEW rs, ExpireUnconsumed(rs), UNCHANGED <<receipt, consumed>> PROVE RowsForward
  BY <1>x, ExpireFacts
<1>1. CASE \E r \in Runs : Create(r)
  BY <1>1, <1>b, <1>c DEF Create, RunStoreTypeOK, Live, Terminal
<1>2. CASE \E r \in Runs : MarkRunning(r) \/ MarkWaiting(r) \/ MarkRunningAfterDecision(r)
  <2>1. RunsForward
    BY <1>2, MoveForward DEF MarkRunning, MarkWaiting, MarkRunningAfterDecision, Terminal
  <2>. QED
    BY <1>2, <2>1, <1>b, <1>c DEF MarkRunning, MarkWaiting, MarkRunningAfterDecision
<1>3. ASSUME NEW r \in Runs, RequestCancel(r) PROVE RunsForward /\ EvidenceForward /\ RowsForward
  <2>1. RunsForward
    BY <1>3, MoveForward DEF RequestCancel, Terminal
  <2>. QED
    BY <1>3, <2>1, <1>b, <1>x DEF RequestCancel
<1>4. ASSUME NEW rs, Reconcile(rs) PROVE RunsForward /\ EvidenceForward /\ RowsForward
  <2>1. EvidenceForward
    BY <1>4, GreaterConsequence DEF Reconcile, RunStoreTypeOK, EffectPossible, Consequence
  <2>. QED
    BY <1>4, <2>1, <1>a, <1>c DEF Reconcile
<1>5. ASSUME NEW r \in Runs, NEW k \in Consequence, AdvanceConsequence(r, k)
      PROVE  RunsForward /\ EvidenceForward /\ RowsForward
  <2>1. EvidenceForward
    BY <1>5, GreaterConsequence DEF AdvanceConsequence, RunStoreTypeOK, Consequence
  <2>. QED
    BY <1>5, <2>1, <1>a, <1>c DEF AdvanceConsequence
<1>6. ASSUME NEW r \in Runs, NEW s \in Terminal, NEW k \in Consequence, MarkTerminal(r, s, k)
      PROVE  RunsForward /\ EvidenceForward /\ RowsForward
  <2>1. RunsForward
    BY <1>6, MoveForward DEF MarkTerminal, Live, Terminal
  <2>2. EvidenceForward
    BY <1>6, GreaterConsequence DEF MarkTerminal, RunStoreTypeOK, Consequence
  <2>. QED
    BY <1>6, <2>1, <2>2, <1>x DEF MarkTerminal
<1>7. ASSUME NEW r \in Runs, NEW c \in Calls,
             RecordPermissionRequest(r, c) \/ ExpirePermission(r, c)
      PROVE  RunsForward /\ EvidenceForward /\ RowsForward
  <2>1. RowsForward
    BY <1>7 DEF RecordPermissionRequest, ExpirePermission, RunStoreTypeOK, Row
  <2>. QED
    BY <1>7, <2>1, <1>a, <1>b DEF RecordPermissionRequest, ExpirePermission
<1>8. ASSUME NEW r \in Runs, NEW c \in Calls, NEW v \in Verdict, DecidePermission(r, c, v)
      PROVE  RunsForward /\ EvidenceForward /\ RowsForward
  <2>1. RowsForward
    BY <1>8 DEF DecidePermission, DecisionHasReceipt, RunStoreTypeOK, Row
  <2>. QED
    BY <1>8, <2>1, <1>a, <1>b DEF DecidePermission
<1>9. ASSUME NEW r \in Runs, NEW c \in Calls, ConsumePermissionApproval(r, c)
      PROVE  RunsForward /\ EvidenceForward /\ RowsForward
  BY <1>9, <1>a, <1>b DEF ConsumePermissionApproval
<1>10. ASSUME NEW r \in Runs, NEW c \in Calls, ObserveIntent(r, c)
       PROVE  RunsForward /\ EvidenceForward /\ RowsForward
  BY <1>10, <1>a, <1>b, <1>c DEF ObserveIntent
<1>11. ASSUME NEW r \in Runs, NEW c \in Calls, NEW k \in Consequence, ObserveOutcome(r, c, k)
       PROVE  RunsForward /\ EvidenceForward /\ RowsForward
  <2>1. EvidenceForward
    BY <1>11, GreaterConsequence DEF ObserveOutcome, RunStoreTypeOK, Consequence
  <2>. QED
    BY <1>11, <2>1, <1>a, <1>c DEF ObserveOutcome
<1>12. CASE RecoverInterrupted
  <2>1. RunsForward
    BY <1>12 DEF RecoverInterrupted, RunStoreTypeOK, Live, Terminal
  <2>. QED
    BY <1>12, <2>1, <1>b, <1>x DEF RecoverInterrupted
<1>13. CASE UNCHANGED storeVars
  BY <1>13, <1>a, <1>b, <1>c DEF storeVars
<1>. QED
  BY <1>1, <1>2, <1>3, <1>4, <1>5, <1>6, <1>7, <1>8, <1>9, <1>10, <1>11, <1>12, <1>13
  DEF RunStoreNext, MarkPendingUnknownForRun, ReconcileInterrupted

\* The ledger is forward-only: no sequence of store calls reopens a terminal
\* run, weakens its evidence, returns a spent approval or rewrites a decision.
THEOREM ForwardTheorem == RunStoreSpec => LedgerMovesForward
<1>1. LedgerInv /\ [RunStoreNext]_storeVars => [StepForward]_storeVars
  BY ForwardStep
<1>. QED
  BY <1>1, LedgerInvariant, PTL DEF RunStoreSpec, LedgerMovesForward
=============================================================================
