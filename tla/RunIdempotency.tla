--------------------------- MODULE RunIdempotency ---------------------------
(***************************************************************************)
(* The durable fence for run starts: RunIdempotencyStore                   *)
(* (gateway/idempotency.ts).  Every method is one transaction.  A row is   *)
(* keyed by principal, operation and key; one principal and the operation  *)
(* runs.start are modelled, so a key identifies a row.  The salted digest  *)
(* of the request stands for the request body.  Each process of the        *)
(* gateway has a lease of its own, here the number of its boot.            *)
(***************************************************************************)
EXTENDS Integers

CONSTANTS
    Keys,   \* idempotency keys
    Bodies, \* request bodies
    Holder, \* run ids that a row may be linked to
    Nobody  \* no run, no body

ASSUME FenceAssumption == Nobody \notin Bodies \cup Holder

VARIABLE fence   \* run_idempotency

FreeRow == [state |-> "none", body |-> Nobody, lease |-> 0, run |-> Nobody, result |-> Nobody]

FenceInit == fence = [k \in Keys |-> FreeRow]

\* Mutant of Claims: a claim that an earlier process left behind is taken over.
ClaimsTakenOver(k, body, lease) ==
    LET row == fence[k] IN
    CASE row.state = "none" -> {"claimed"}
      [] row.state # "none" /\ row.body # body -> {"conflict"}
      [] row.state = "completed" /\ row.body = body -> {"replay", "expired"}
      [] row.state = "in_progress" /\ row.body = body ->
           {IF row.lease = lease THEN "in_progress" ELSE "claimed"}
      [] OTHER -> {"indeterminate"}

\* Mutant of Claims: the digest of the request is not compared.
ClaimsAnyBody(k, body, lease) ==
    LET row == fence[k] IN
    CASE row.state = "none" -> {"claimed"}
      [] row.state = "completed" -> {"replay", "expired"}
      [] row.state = "in_progress" /\ row.lease = lease -> {"in_progress"}
      [] OTHER -> {"indeterminate"}

\* The answers claim may give.  A completed row can be past its retention.
Claims(k, body, lease) ==
    LET row == fence[k] IN
    CASE row.state = "none" -> {"claimed"}
      [] row.state # "none" /\ row.body # body -> {"conflict"}
      [] row.state = "completed" /\ row.body = body -> {"replay", "expired"}
      [] row.state = "in_progress" /\ row.body = body /\ row.lease = lease -> {"in_progress"}
      [] OTHER -> {"indeterminate"}

MarkIndeterminate(k) ==
    fence' = [fence EXCEPT ![k] =
                IF @.state = "in_progress" THEN [@ EXCEPT !.state = "indeterminate"] ELSE @]

\* Claiming a new key and detecting an old one are one transaction; a claim that
\* an earlier process left behind is given up for good.
Claim(k, body, lease, kind) ==
    /\ kind \in Claims(k, body, lease)
    /\ CASE kind = "claimed" ->
              fence' = [fence EXCEPT ![k] = [state |-> "in_progress", body |-> body,
                                             lease |-> lease, run |-> Nobody, result |-> Nobody]]
         [] kind = "indeterminate" -> MarkIndeterminate(k)
         [] OTHER -> UNCHANGED fence

\* linkRun and complete throw if the claim is no longer in progress under the
\* caller's lease.
Held(k, lease) == fence[k].state = "in_progress" /\ fence[k].lease = lease

LinkRun(k, lease, r) ==
    /\ Held(k, lease)
    /\ fence[k].run = Nobody
    /\ fence' = [fence EXCEPT ![k].run = r]

Complete(k, lease, r) ==
    /\ Held(k, lease)
    /\ fence' = [fence EXCEPT ![k].state = "completed", ![k].result = r]
=============================================================================
