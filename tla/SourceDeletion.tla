--------------------------- MODULE SourceDeletion ---------------------------
(***************************************************************************)
(* Deletion of a source: SourceDeletionStore, SourceDeletionWorker and the *)
(* routes that plan, cancel and retry it (handlers/source-deletions.ts).   *)
(* plan freezes the source and inventories all there is of it in one       *)
(* transaction; the worker then removes and verifies each artifact under a *)
(* lease it renews, in the inventory's order of kinds.                     *)
(*                                                                         *)
(* Artifacts are <<kind, version>>, a job row's kind being the job's.      *)
(* Grants are revoked by plan itself; the artifacts that only recheck them *)
(* and those of replays and caches are left out.                           *)
(***************************************************************************)
EXTENDS SourceRecord

SameUploads == UNCHANGED <<handler, worker, reader>>

-----------------------------------------------------------------------------
(* collectInventory *)

\* Mutant of Inventory: only what was published is listed.
PublishedInventory ==
    {<<"immutable_original", v>> : v \in {w \in Versions : version[w].there}}
    \cup {<<"upload_staging", v>> : v \in {w \in Versions : upload[w].state # "absent"}}
    \cup {<<"derived_resource", v>> :
             v \in {w \in Versions : "extract" \in Preparations /\ product[<<w, "extract">>] # "none"}}
    \cup {<<"data_view", v>> :
             v \in {w \in Versions : "view" \in Preparations /\ job[<<w, "view">>].state # "absent"}}
    \cup {<<j[2], j[1]>> : j \in {i \in DOMAIN job : job[i].state # "absent"}}

Inventory ==
    {<<"immutable_original", v>> : v \in {w \in Versions : version[w].there}}
    \cup {<<"upload_staging", v>> : v \in {w \in Versions : upload[w].state # "absent"}}
    \cup {<<"placed_candidate", v>> : v \in {w \in Versions : upload[w].pending}}
    \cup {<<"derived_resource", v>> :
             v \in {w \in Versions : "extract" \in Preparations /\ product[<<w, "extract">>] # "none"}}
    \cup {<<"data_view", v>> :
             v \in {w \in Versions : "view" \in Preparations /\ job[<<w, "view">>].state # "absent"}}
    \cup {<<j[2], j[1]>> : j \in {i \in DOMAIN job : job[i].state # "absent"}}

\* ORDER BY artifact_kind
Rank(kind) == CASE kind = "data_view" -> 1
                [] kind = "derived_resource" -> 2
                [] kind = "immutable_original" -> 3
                [] kind = "placed_candidate" -> 4
                [] kind \in {"inspect", "extract", "view"} -> 5
                [] kind = "upload_staging" -> 6

First(todo) == {a \in todo : \A b \in todo : Rank(a[1]) <= Rank(b[1])}

Unverified == {a \in DOMAIN inv : inv[a] # "verified_absent"}

-----------------------------------------------------------------------------
(* Requests *)

\* plan, at the revision the caller saw.  Freezing closes uploads, asks every
\* job to stop and revokes the grants over what was prepared.
Plan ==
    /\ source.deletion = "active" /\ source.revision < MaxRevision
    /\ source' = [source EXCEPT !.deletion = "frozen", !.revision = @ + 1]
    /\ grants' = {}
    /\ upload' = [v \in Versions |-> IF upload[v].state \in {"open", "completing"}
                                     THEN [upload[v] EXCEPT !.state = "failed"] ELSE upload[v]]
    /\ job' = [j \in DOMAIN job |-> IF job[j].state \in JobPending
                                    THEN [job[j] EXCEPT !.state = "cancel_requested"] ELSE job[j]]
    /\ del' = [NoDeletion EXCEPT !.state = "queued"]
    /\ inv' = [a \in Inventory |-> "pending"]
    /\ UNCHANGED <<version, product, byteVars, eraser, faults>> /\ SameUploads

\* requestCancellation: only before destruction.
CancelDeletion ==
    /\ del.state \in {"queued", "running"} /\ del.checkpoint = 0
    /\ del' = [del EXCEPT !.state = "cancel_requested"]
    /\ UNCHANGED <<source, jobVars, upload, inv, grants, byteVars, eraser, faults>> /\ SameUploads

\* retryPartial: failed artifacts become pending, verified ones stay verified.
RetryPartial ==
    /\ del.state = "partial" /\ source.deletion = "partially_deleted"
    /\ inv' = [a \in DOMAIN inv |-> IF inv[a] = "failed" THEN "pending" ELSE inv[a]]
    /\ del' = [state |-> "queued", attempt |-> 0, claim |-> "none",
               checkpoint |-> IF del.checkpoint = 0 THEN 0 ELSE 1]
    /\ source' = [source EXCEPT !.deletion = "deleting"]
    /\ UNCHANGED <<jobVars, upload, grants, byteVars, eraser, faults>> /\ SameUploads

-----------------------------------------------------------------------------
(* SourceDeletionWorker.runOne *)

\* confirmNextCancellation and confirmCancellation: the source thaws under a
\* new revision.
CanConfirm == /\ del.state = "cancel_requested" /\ del.checkpoint = 0 /\ del.claim # "live"
              /\ source.deletion = "frozen"

ConfirmCancellation ==
    /\ CanConfirm
    /\ source' = [source EXCEPT !.deletion = "active", !.revision = @ + 1]
    /\ del' = NoDeletion
    /\ inv' = <<>>
    /\ UNCHANGED eraser

\* recoverExpiredClaims: attempts spent before destruction started are given
\* back; later the deletion is left partial.
Expired(d) == d.state = "running" /\ d.claim = "lapsed"

RecoveredDeletion(d) ==
    IF ~Expired(d) THEN d
    ELSE IF d.attempt < MaxAttempts THEN Released(d, "queued")
    ELSE IF d.checkpoint = 0 THEN [Released(d, "queued") EXCEPT !.attempt = 0]
    ELSE Released(d, "partial")

RecoveredSource(d) ==
    IF RecoveredDeletion(d).state = "partial" /\ source.deletion = "deleting"
    THEN [source EXCEPT !.deletion = "partially_deleted"] ELSE source

RecoverDeletion ==
    /\ Expired(del)
    /\ del' = RecoveredDeletion(del)
    /\ source' = RecoveredSource(del)
    /\ UNCHANGED <<inv, eraser>>

\* Mutant of ClaimDeletion: cancelled data views are not waited for.
ClaimUnwaiting ==
    /\ del.state = "queued" /\ del.attempt < MaxAttempts
    /\ del' = [del EXCEPT !.state = "running", !.claim = "live", !.attempt = @ + 1]
    /\ eraser' = [at |-> IF del.checkpoint = 0 THEN "start" ELSE "remove",
                  todo |-> Unverified, checkpoint |-> del.checkpoint]
    /\ UNCHANGED <<source, inv>>

\* Mutant of ClaimDeletion: removal begins without startDestruction.
ClaimAndRemove ==
    /\ del.state = "queued" /\ del.attempt < MaxAttempts
    /\ \A j \in DOMAIN job : j[2] = "view" => job[j].state # "cancel_requested"
    /\ del' = [del EXCEPT !.state = "running", !.claim = "live", !.attempt = @ + 1]
    /\ eraser' = [at |-> "remove", todo |-> Unverified, checkpoint |-> del.checkpoint]
    /\ UNCHANGED <<source, inv>>

\* claimNext waits for every data view job to have stopped.
ClaimDeletion ==
    /\ del.state = "queued" /\ del.attempt < MaxAttempts
    /\ \A j \in DOMAIN job : j[2] = "view" => job[j].state # "cancel_requested"
    /\ del' = [del EXCEPT !.state = "running", !.claim = "live", !.attempt = @ + 1]
    /\ eraser' = [at |-> IF del.checkpoint = 0 THEN "start" ELSE "remove",
                  todo |-> Unverified, checkpoint |-> del.checkpoint]
    /\ UNCHANGED <<source, inv>>

RunOneDeletion ==
    /\ eraser.at = "idle"
    /\ \/ ConfirmCancellation
       \/ ~CanConfirm /\ RecoverDeletion
       \/ ~CanConfirm /\ ~Expired(del) /\ ClaimDeletion
    /\ UNCHANGED <<jobVars, upload, grants, byteVars, faults>> /\ SameUploads

-----------------------------------------------------------------------------
(* SourceDeletionWorker.executeClaim *)

EraserStops == eraser' = Idle
EraserGoes(at, checkpoint, todo) == eraser' = [at |-> at, todo |-> todo, checkpoint |-> checkpoint]

\* startDestruction: the point of no return.
StartDestruction ==
    /\ eraser.at = "start"
    /\ IF Held(del) /\ source.deletion = "frozen" /\ del.checkpoint = 0
       THEN /\ source' = [source EXCEPT !.deletion = "deleting"]
            /\ del' = [del EXCEPT !.checkpoint = 1]
            /\ EraserGoes("remove", 1, Unverified)
       ELSE EraserStops /\ UNCHANGED <<source, del>>
    /\ UNCHANGED <<jobVars, upload, inv, grants, byteVars, faults>> /\ SameUploads

\* What the removal of an artifact leaves of the bytes ...
EraseBytes(a) ==
    LET v == a[2] IN
    /\ object' = IF a[1] \in {"immutable_original", "placed_candidate"}
                 THEN [object EXCEPT ![v] = "none"] ELSE object
    /\ art' = IF a[1] \in {"immutable_original", "placed_candidate", "data_view"}
              THEN art \ {v} ELSE art
    /\ quar' = IF a[1] = "upload_staging" THEN quar \ {v} ELSE quar
    /\ staged' = IF a[1] = "upload_staging" THEN [staged EXCEPT ![v] = <<>>] ELSE staged

\* ... and removeControlArtifact of the rows.  The row of a data view's job
\* waits until the view itself is verified absent.
Deletable(a) ==
    \/ a[1] # "view"
    \/ /\ job[<<a[2], "view">>].state \in JobEnded
       /\ inv[<<"data_view", a[2]>>] = "verified_absent"

EraseRows(a) ==
    LET v == a[2] IN
    /\ upload' = IF a[1] = "upload_staging" THEN [upload EXCEPT ![v] = NoUpload] ELSE upload
    /\ product' = IF a[1] = "derived_resource" THEN [product EXCEPT ![<<v, "extract">>] = "none"]
                  ELSE IF a[1] = "data_view" THEN [product EXCEPT ![<<v, "view">>] = "none"]
                  ELSE product
    /\ job' = IF a[1] \in JobKinds /\ Deletable(a) THEN [job EXCEPT ![<<v, a[1]>>] = NoJob] ELSE job

Marked(a, state) == inv' = [inv EXCEPT ![a] = state]

\* storage.remove throws, and the worker goes on with the next artifact.
RemovalFails(a) ==
    /\ faults.count < MaxFaults
    /\ faults' = [count |-> faults.count + 1,
                  stuck |-> IF a[1] = "upload_staging" THEN faults.stuck \cup {a[2]}
                            ELSE faults.stuck]

\* removeArtifact under a renewed lease.  A removal that fails leaves the
\* artifact unmarked; verification decides.
RemoveArtifact ==
    /\ eraser.at = "remove"
    /\ \E a \in First(eraser.todo) :
          IF ~Held(del)
          THEN EraserStops /\ UNCHANGED <<upload, product, job, inv, byteVars, faults>>
          ELSE /\ EraserGoes("remove", eraser.checkpoint, eraser.todo \ {a})
               /\ \/ EraseBytes(a) /\ EraseRows(a) /\ Marked(a, "removed") /\ UNCHANGED faults
                  \/ /\ a[1] \in Stubborn /\ RemovalFails(a)
                     /\ UNCHANGED <<upload, product, job, inv, byteVars>>
    /\ UNCHANGED <<source, version, del, grants>> /\ SameUploads

\* advanceCheckpoint between the passes and before the end
AdvancePass(at, checkpoint, next) ==
    /\ eraser.at = at /\ eraser.todo = {}
    /\ IF eraser.checkpoint >= checkpoint
       THEN EraserGoes(next, eraser.checkpoint, Unverified) /\ UNCHANGED del
       ELSE IF Held(del)
       THEN /\ del' = [del EXCEPT !.checkpoint = checkpoint]
            /\ EraserGoes(next, checkpoint, Unverified)
       ELSE EraserStops /\ UNCHANGED del
    /\ UNCHANGED <<source, jobVars, upload, inv, grants, byteVars, faults>> /\ SameUploads

\* verifyArtifact: the bytes must be gone; rows that are still there are
\* removed once more.
BytesAbsent(a) ==
    CASE a[1] \in {"immutable_original", "placed_candidate"} -> object[a[2]] = "none"
      [] a[1] = "data_view" -> a[2] \notin art
      [] a[1] = "upload_staging" -> a[2] \notin quar /\ staged[a[2]] = <<>>
      [] OTHER -> TRUE

RowsRemovable(a) ==
    CASE a[1] = "derived_resource" -> product[<<a[2], "extract">>] = "none"
      [] a[1] = "view" -> Deletable(a) \/ job[<<a[2], "view">>].state = "absent"
      [] OTHER -> TRUE

VerifyArtifact ==
    /\ eraser.at = "verify"
    /\ \E a \in First(eraser.todo) :
          IF ~Held(del)
          THEN EraserStops /\ UNCHANGED <<upload, product, job, inv>>
          ELSE /\ EraserGoes("verify", eraser.checkpoint, eraser.todo \ {a})
               /\ IF BytesAbsent(a) /\ RowsRemovable(a)
                  THEN EraseRows(a) /\ Marked(a, "verified_absent")
                  ELSE Marked(a, "failed") /\ UNCHANGED <<upload, product, job>>
    /\ UNCHANGED <<source, version, del, grants, byteVars, faults>> /\ SameUploads

\* finish: a partial end, a refusal (thrown) because rows remain that no
\* artifact stood for, or the tombstone.
Residual ==
    \/ \E v \in Versions : upload[v].state # "absent"
    \/ \E p \in DOMAIN product : product[p] # "none"
    \/ \E j \in DOMAIN job : job[j].state # "absent"
    \/ grants # {}

FinishDeletion ==
    /\ eraser.at = "finish"
    /\ LET held == Held(del) /\ del.checkpoint = 3 IN
       \/ /\ held /\ Unverified # {}
          /\ del' = Released(del, "partial")
          /\ source' = [source EXCEPT !.deletion = "partially_deleted"]
          /\ UNCHANGED <<version, inv>>
       \/ /\ held /\ Unverified = {} /\ ~Residual
          /\ del' = NoDeletion
          /\ inv' = <<>>
          /\ source' = [source EXCEPT !.deletion = "deleted", !.current = NoVersion,
                                      !.inspection = "none", !.preparation = "none"]
          /\ version' = [v \in Versions |->
                            [there |-> FALSE, inspection |-> "none", preparation |-> "none"]]
       \/ /\ ~held \/ (Unverified = {} /\ Residual)
          /\ UNCHANGED <<del, inv, source, version>>
    /\ EraserStops
    /\ UNCHANGED <<job, product, upload, grants, byteVars, faults>> /\ SameUploads

\* A store call throws.
EraserThrows ==
    /\ eraser.at # "idle"
    /\ Fault
    /\ EraserStops
    /\ UNCHANGED <<source, jobVars, upload, del, inv, grants, byteVars>> /\ SameUploads

DeletionLease(stalled) ==
    /\ del.claim = "live"
    /\ stalled <=> eraser.at # "idle"
    /\ IF stalled THEN Fault ELSE UNCHANGED faults
    /\ del' = [del EXCEPT !.claim = "lapsed"]
    /\ UNCHANGED <<source, jobVars, upload, inv, grants, byteVars, eraser>> /\ SameUploads

EraserStep ==
    \/ RunOneDeletion \/ StartDestruction
    \/ RemoveArtifact \/ AdvancePass("remove", 2, "verify")
    \/ VerifyArtifact \/ AdvancePass("verify", 3, "finish") \/ FinishDeletion

DeletionNext ==
    \/ Plan \/ CancelDeletion \/ RetryPartial
    \/ EraserStep \/ EraserThrows
    \/ DeletionLease(TRUE) \/ DeletionLease(FALSE)

============================================================================
