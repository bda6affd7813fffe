------------------------------ MODULE RunStore ------------------------------
(***************************************************************************)
(* The durable run ledger of the gateway: the rows that GatewayRunStore    *)
(* (gateway/run-store.ts) and EffectReceiptStore                           *)
(* (gateway/effect-receipt-store.ts) keep in the gateway database.  Every  *)
(* method of the two classes is one database transaction, hence one        *)
(* action.  An SQL UPDATE whose WHERE clause selects no row changes        *)
(* nothing, so most methods are total: they move a row from the statuses   *)
(* the WHERE clause names and leave any other row alone.                   *)
(*                                                                         *)
(* Timestamps, hashes, tool names and the activity ledger are left out.    *)
(* A permission row and an effect row are both identified by the run and   *)
(* the tool call that asks for it; the operation hash is a function of     *)
(* that call, so hash mismatches do not arise.                             *)
(***************************************************************************)
EXTENDS Integers

CONSTANTS
    Runs,   \* run ids that the gateway may mint
    Calls   \* tool call ids (permission request ids) a run may use

VARIABLES
    status,      \* gateway_runs.status, "absent" before the row exists
    consequence, \* gateway_runs.consequence, as its rank
    perm,        \* run_permission_requests.status
    receipt,     \* run_permission_decision_receipts.decision
    consumed,    \* run_permission_consumptions: the approvals already spent
    effect       \* effect_receipts, summarised per tool call

storeVars == <<status, consequence, perm, receipt, consumed, effect>>

-----------------------------------------------------------------------------
(* Vocabulary *)

Live == {"accepted", "running", "waiting", "cancel_requested"}
Terminal == {"succeeded", "failed", "cancelled", "timed_out", "indeterminate"}

\* none_observed < output_observed < effect_possible < effect_confirmed
Consequence == 0..3
NoneObserved == 0
OutputObserved == 1
EffectPossible == 2

Verdict == {"approved", "denied"}

\* Mutant of Greater: evidence is added up instead of compared.
SumRank(k, l) == k + l

Greater(k, l) == IF k < l THEN l ELSE k

Row == Runs \X Calls

RunStoreTypeOK ==
    /\ status \in [Runs -> {"absent"} \cup Live \cup Terminal]
    /\ consequence \in [Runs -> Consequence]
    /\ perm \in [Row -> {"none", "pending", "approved", "denied", "expired"}]
    /\ receipt \in [Row -> {"none"} \cup Verdict]
    /\ consumed \in SUBSET Row
    /\ effect \in [Row -> {"none", "pending", "known", "unknown"}]

RunStoreInit ==
    /\ status = [r \in Runs |-> "absent"]
    /\ consequence = [r \in Runs |-> NoneObserved]
    /\ perm = [p \in Row |-> "none"]
    /\ receipt = [p \in Row |-> "none"]
    /\ consumed = {}
    /\ effect = [p \in Row |-> "none"]

-----------------------------------------------------------------------------
(* Runs *)

\* The status the row has after "UPDATE ... SET status = to WHERE status IN from".
Move(r, from, to) ==
    status' = [status EXCEPT ![r] = IF @ \in from THEN to ELSE @]

\* Mutant of ExpireUnconsumed: the NOT EXISTS clause is missing.
ExpireAll(rs) ==
    perm' = [p \in Row |->
               IF p[1] \in rs /\ perm[p] \in {"pending", "approved"} THEN "expired" ELSE perm[p]]

\* The permission rows after every pending or approved row of the runs in rs
\* that has no consumption has been expired.
ExpireUnconsumed(rs) ==
    perm' = [p \in Row |->
               IF p[1] \in rs /\ perm[p] \in {"pending", "approved"} /\ p \notin consumed
               THEN "expired" ELSE perm[p]]

Create(r) ==
    /\ status[r] = "absent"
    /\ status' = [status EXCEPT ![r] = "accepted"]
    /\ UNCHANGED <<consequence, perm, receipt, consumed, effect>>

\* Mutant of MarkRunning: no check of the status.
MarkRunningAnyway(r) ==
    /\ Move(r, Live, "running")
    /\ UNCHANGED <<consequence, perm, receipt, consumed, effect>>

MarkRunning(r) ==
    /\ Move(r, {"accepted"}, "running")
    /\ UNCHANGED <<consequence, perm, receipt, consumed, effect>>

MarkWaiting(r) ==
    /\ Move(r, {"running"}, "waiting")
    /\ UNCHANGED <<consequence, perm, receipt, consumed, effect>>

MarkRunningAfterDecision(r) ==
    /\ Move(r, {"waiting"}, "running")
    /\ UNCHANGED <<consequence, perm, receipt, consumed, effect>>

AdvanceConsequence(r, k) ==
    /\ status[r] # "absent"
    /\ consequence' = [consequence EXCEPT ![r] = Greater(@, k)]
    /\ UNCHANGED <<status, perm, receipt, consumed, effect>>

\* "requested" when the row was accepted, running or waiting: only then are the
\* unconsumed permissions of the run expired.  "already_requested" and
\* "terminal" change nothing.
RequestCancel(r) ==
    /\ status[r] # "absent"
    /\ Move(r, {"accepted", "running", "waiting"}, "cancel_requested")
    /\ ExpireUnconsumed({r} \cap {x \in Runs : status[x] \in {"accepted", "running", "waiting"}})
    /\ UNCHANGED <<consequence, receipt, consumed, effect>>

\* Mutant of MarkTerminal: the WHERE clause does not name the live statuses.
RewriteTerminal(r, s, k) ==
    /\ status[r] # "absent"
    /\ Move(r, Live \cup Terminal, s)
    /\ consequence' = [consequence EXCEPT ![r] = Greater(@, k)]
    /\ ExpireUnconsumed({r})
    /\ UNCHANGED <<receipt, consumed, effect>>

\* A terminal row keeps its status and its consequence; the permissions of the
\* run are expired either way.
MarkTerminal(r, s, k) ==
    /\ status[r] # "absent"
    /\ Move(r, Live, s)
    /\ consequence' = [consequence EXCEPT ![r] = IF status[r] \in Live THEN Greater(@, k) ELSE @]
    /\ ExpireUnconsumed({r})
    /\ UNCHANGED <<receipt, consumed, effect>>

\* Mutant of RecoverInterrupted: a run that was only accepted is forgotten.
RecoverStarted ==
    /\ ExpireUnconsumed({r \in Runs : status[r] \in Live})
    /\ status' = [r \in Runs |->
                    IF status[r] \in Live \ {"accepted"} THEN "indeterminate" ELSE status[r]]
    /\ UNCHANGED <<consequence, receipt, consumed, effect>>

\* Mutant of RecoverInterrupted: the permissions stay open.
RecoverStatusOnly ==
    /\ status' = [r \in Runs |-> IF status[r] \in Live THEN "indeterminate" ELSE status[r]]
    /\ UNCHANGED <<consequence, perm, receipt, consumed, effect>>

RecoverInterrupted ==
    /\ ExpireUnconsumed({r \in Runs : status[r] \in Live})
    /\ status' = [r \in Runs |-> IF status[r] \in Live THEN "indeterminate" ELSE status[r]]
    /\ UNCHANGED <<consequence, receipt, consumed, effect>>

-----------------------------------------------------------------------------
(* Permissions.  None of these methods looks at the status of the run. *)

\* Mutant of RecordPermissionRequest: INSERT OR REPLACE.
ReplacePermissionRequest(r, c) ==
    /\ status[r] # "absent"
    /\ perm' = [perm EXCEPT ![<<r, c>>] = "pending"]
    /\ UNCHANGED <<status, consequence, receipt, consumed, effect>>

RecordPermissionRequest(r, c) ==
    /\ status[r] # "absent"
    /\ perm' = [perm EXCEPT ![<<r, c>>] = IF @ = "none" THEN "pending" ELSE @]
    /\ UNCHANGED <<status, consequence, receipt, consumed, effect>>

\* "decided": the new status and its receipt are one transaction.
DecidePermission(r, c, v) ==
    /\ perm[<<r, c>>] = "pending"
    /\ perm' = [perm EXCEPT ![<<r, c>>] = v]
    /\ receipt' = [receipt EXCEPT ![<<r, c>>] = v]
    /\ UNCHANGED <<status, consequence, consumed, effect>>

ExpirePermission(r, c) ==
    /\ perm' = [perm EXCEPT ![<<r, c>>] =
                  IF @ \in {"pending", "approved"} /\ <<r, c>> \notin consumed
                  THEN "expired" ELSE @]
    /\ UNCHANGED <<status, consequence, receipt, consumed, effect>>

\* The outcome "consumed" of consumePermissionApproval, the only one that
\* authorises an execution.
Consumable(r, c) == perm[<<r, c>>] = "approved" /\ <<r, c>> \notin consumed

ConsumePermissionApproval(r, c) ==
    /\ Consumable(r, c)
    /\ consumed' = consumed \cup {<<r, c>>}
    /\ UNCHANGED <<status, consequence, perm, receipt, effect>>

-----------------------------------------------------------------------------
(* Effect evidence *)

ObserveIntent(r, c) ==
    /\ status[r] # "absent"
    /\ effect' = [effect EXCEPT ![<<r, c>>] = IF @ = "none" THEN "pending" ELSE @]
    /\ UNCHANGED <<status, consequence, perm, receipt, consumed>>

ObserveOutcome(r, c, k) ==
    /\ status[r] # "absent"
    /\ effect' = [effect EXCEPT ![<<r, c>>] = "known"]
    /\ consequence' = [consequence EXCEPT ![r] = Greater(@, k)]
    /\ UNCHANGED <<status, perm, receipt, consumed>>

\* reconcilePending: an intent without an outcome becomes "unknown", and the
\* run that owns it is raised to effect_possible.
Reconcile(rs) ==
    /\ effect' = [p \in Row |->
                    IF p[1] \in rs /\ effect[p] = "pending" THEN "unknown" ELSE effect[p]]
    /\ consequence' = [r \in Runs |->
                         IF r \in rs /\ \E c \in Calls : effect[<<r, c>>] = "pending"
                         THEN Greater(consequence[r], EffectPossible)
                         ELSE consequence[r]]
    /\ UNCHANGED <<status, perm, receipt, consumed>>

MarkPendingUnknownForRun(r) ==
    /\ status[r] # "absent"
    /\ Reconcile({r})

ReconcileInterrupted == Reconcile({r \in Runs : status[r] = "indeterminate"})

-----------------------------------------------------------------------------
(* The store alone: its methods called in any order, by anybody. *)

RunStoreNext ==
    \/ \E r \in Runs :
         \/ Create(r)
         \/ MarkRunning(r)
         \/ MarkWaiting(r)
         \/ MarkRunningAfterDecision(r)
         \/ RequestCancel(r)
         \/ MarkPendingUnknownForRun(r)
         \/ \E k \in Consequence : AdvanceConsequence(r, k)
         \/ \E s \in Terminal, k \in Consequence : MarkTerminal(r, s, k)
         \/ \E c \in Calls :
              \/ RecordPermissionRequest(r, c)
              \/ \E v \in Verdict : DecidePermission(r, c, v)
              \/ ExpirePermission(r, c)
              \/ ConsumePermissionApproval(r, c)
              \/ ObserveIntent(r, c)
              \/ \E k \in Consequence : ObserveOutcome(r, c, k)
    \/ RecoverInterrupted
    \/ ReconcileInterrupted

RunStoreSpec == RunStoreInit /\ [][RunStoreNext]_storeVars

-----------------------------------------------------------------------------
(* What the ledger promises whatever the order of the calls. *)

\* An approval is spent only if the receipt of the operator's decision says
\* "approved", and no later expiry, cancellation, terminal transition or
\* restart rewrites a spent approval (consumePermissionApproval and the
\* NOT EXISTS clauses of every expiry).
SpentApprovalIsReceipted ==
    \A p \in consumed : perm[p] = "approved" /\ receipt[p] = "approved"

\* The decision receipt is the only durable record of what was decided: a row
\* that was decided has the receipt of that decision, and a row that never was
\* decided has none (the single transaction of decidePermission).
DecisionHasReceipt ==
    \A p \in Row :
        /\ perm[p] \in Verdict => receipt[p] = perm[p]
        /\ perm[p] \in {"none", "pending"} => receipt[p] = "none"

\* What a step may do to the rows.
StepForward ==
    /\ \A r \in Runs :
         /\ status[r] \in Terminal => status'[r] = status[r]
         /\ status[r] # "absent" => status'[r] # "absent"
         /\ status[r] = "cancel_requested" => status'[r] \in {"cancel_requested"} \cup Terminal
         /\ consequence[r] <= consequence'[r]
    /\ consumed \subseteq consumed'
    /\ \A p \in Row :
         /\ perm[p] \in {"denied", "expired"} => perm'[p] = perm[p]
         /\ receipt[p] # "none" => receipt'[p] = receipt[p]

\* Forward only: a terminal run is never reopened or rewritten, a row never
\* disappears, evidence of consequence never weakens, a spent approval is never
\* returned, a denied or expired request is never revived and a decision receipt
\* never changes (ADR-0004 "compare-and-set and forward-only").
LedgerMovesForward == [][StepForward]_storeVars
=============================================================================
