---------------------------- MODULE SourceRecord ----------------------------
(***************************************************************************)
(* The rows and the bytes of one runtime source, which its uploads, its    *)
(* jobs, its deletion and its readers share: runtime_sources,              *)
(* source_versions, source_upload_sessions, source_jobs,                   *)
(* source_data_view_jobs, source_derived_resources, source_data_views, the *)
(* deletion plan with its inventory, access grants, and the files of       *)
(* SourceByteStore.                                                        *)
(*                                                                         *)
(* An upload is named by the version it will become.  Time is reduced to   *)
(* whether a lease has lapsed.  The gateway runs one job worker and one    *)
(* deletion worker, each serial, so the token of a claim is its worker's   *)
(* while that worker executes it.  Quotas, checksums, policy references    *)
(* and the idempotency of requests are left out.                           *)
(***************************************************************************)
EXTENDS Integers, Sequences, FiniteSets

CONSTANTS
    Versions,     \* source version ids
    NoVersion,    \* current_version_id is NULL
    Preparations, \* the preparations in use, of "extract" and "view"
    Chunks,       \* chunks an upload declares
    MaxAttempts,  \* SOURCE_JOB_MAX_ATTEMPTS
    MaxRevision,  \* bound on the revision a deletion may be planned at
    MaxFaults,    \* bound on crashes, stalls and failures of storage
    Stubborn,     \* kinds of artifact whose removal may fail
    Readers       \* concurrent protected reads

ASSUME SourceAssumption ==
    /\ NoVersion \notin Versions
    /\ Preparations \subseteq {"extract", "view"}
    /\ Chunks \in Nat \ {0}
    /\ MaxAttempts \in Nat \ {0}
    /\ MaxRevision \in Nat /\ MaxFaults \in Nat

VARIABLES
    source,  \* the runtime_sources row
    version, \* source_versions
    job,     \* source_jobs and source_data_view_jobs, by version and kind
    product, \* source_derived_resources and source_data_views
    upload,  \* source_upload_sessions
    handler, \* the request each upload is serving
    quar,    \* uploads with a received chunk in quarantine
    staged,  \* each upload's staging file, as the chunks in it
    object,  \* each version's directory and original
    art,     \* versions whose data view artifact is on disk
    worker,  \* the SourceJobWorker
    del,     \* the delete_source job
    inv,     \* its inventory
    eraser,  \* the SourceDeletionWorker
    grants,  \* prepared things with a live access grant
    reader,  \* each protected read in progress
    faults   \* how many faults so far, and the uploads of which a removal has
             \* failed to remove the staging file

rowVars == <<source, version, job, product, upload, del, inv, grants>>
byteVars == <<quar, staged, object, art>>
jobVars == <<version, job, product>>
deletionVars == <<del, inv, eraser>>
uploadVars == <<upload, handler, quar, staged>>
sourceVars == <<rowVars, byteVars, handler, worker, eraser, reader, faults>>

-----------------------------------------------------------------------------
(* Vocabulary *)

JobKinds == {"inspect"} \cup Preparations
Things == Versions \X Preparations

\* not_started and not_requested are "none" here, inspecting and preparing
\* "working", complete and ready "done".
Health == {"none", "queued", "working", "done", "failed"}

\* A row, of the source or of a version, with the health that a kind of job sets.
WithHealth(row, k, state) == IF k = "inspect" THEN [row EXCEPT !.inspection = state]
                             ELSE [row EXCEPT !.preparation = state]

JobPending == {"queued", "running", "waiting_for_resource"}
JobEnded == {"succeeded", "failed", "cancelled"}

Claims == {"none", "live", "lapsed"}

NoJob == [state |-> "absent", attempt |-> 0, checkpoint |-> 0, claim |-> "none", revision |-> 0]
NoUpload == [state |-> "absent", offset |-> 0, revision |-> 0, base |-> NoVersion, pending |-> FALSE]
NoDeletion == [state |-> "absent", attempt |-> 0, checkpoint |-> 0, claim |-> "none"]

Idle == [at |-> "idle"]

Whole == [i \in 1..Chunks |-> i]

Released(r, state) == [r EXCEPT !.state = state, !.claim = "none"]

\* Every method of a claim's holder first checks that the row is running under
\* its token with a lease that has not run out.
Held(r) == r.state = "running" /\ r.claim = "live"

-----------------------------------------------------------------------------
(* What a reader may be given: the lookups behind a protected read and     *)
(* behind the creation of a grant.                                         *)

\* Mutant of Selectable: the revision is not compared.
SelectableAnyRevision(v, k) ==
    /\ source.deletion = "active"
    /\ source.current = v
    /\ product[<<v, k>>] = "current"
    /\ job[<<v, k>>].state = "succeeded"
    /\ source.inspection = "done" /\ source.preparation = "done"
    /\ version[v].inspection = "done" /\ version[v].preparation = "done"

Selectable(v, k) ==
    /\ source.deletion = "active"
    /\ source.current = v
    /\ product[<<v, k>>] = "current"
    /\ job[<<v, k>>].state = "succeeded"
    /\ job[<<v, k>>].revision = source.revision
    /\ source.inspection = "done" /\ source.preparation = "done"
    /\ version[v].inspection = "done" /\ version[v].preparation = "done"

\* setInspectionState, setPreparationState: the version always, the source
\* only while it is active and the version is its current one.
SetHealth(v, k, state) ==
    /\ version' = [version EXCEPT ![v] = WithHealth(@, k, state)]
    /\ source' = IF source.current = v /\ source.deletion = "active"
                 THEN WithHealth(source, k, state) ELSE source

Fault ==
    /\ faults.count < MaxFaults
    /\ faults' = [faults EXCEPT !.count = @ + 1]

-----------------------------------------------------------------------------

SourceInit ==
    /\ source = [deletion |-> "active",
                 revision |-> 1,
                 current |-> NoVersion,
                 inspection |-> "none", preparation |-> "none"]
    /\ version = [v \in Versions |->
                     [there |-> FALSE, inspection |-> "none", preparation |-> "none"]]
    /\ job = [j \in Versions \X JobKinds |-> NoJob]
    /\ product = [p \in Things |-> "none"]
    /\ upload = [v \in Versions |-> NoUpload]
    /\ handler = [v \in Versions |-> Idle]
    /\ quar = {} /\ art = {}
    /\ staged = [v \in Versions |-> <<>>]
    /\ object = [v \in Versions |-> "none"]
    /\ worker = Idle /\ eraser = Idle
    /\ del = NoDeletion
    /\ inv = <<>>
    /\ grants = {}
    /\ reader = [r \in Readers |-> Idle]
    /\ faults = [count |-> 0, stuck |-> {}]

============================================================================
