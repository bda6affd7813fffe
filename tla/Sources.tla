------------------------------ MODULE Sources ------------------------------
(***************************************************************************)
(* A runtime source with everything that works on it at once: its uploads, *)
(* the job worker, its deletion, grants over what was prepared and the     *)
(* protected reads of it (protected-source-read.ts,                        *)
(* protected-data-view-selection.ts), crashes of the gateway and the       *)
(* recovery at boot (server.ts).                                           *)
(***************************************************************************)
EXTENDS SourceJobs, SourceUploads, SourceDeletion

SameStores == UNCHANGED <<source, version, job, product, upload, del, inv, byteVars,
                          handler, worker, eraser, faults>>

-----------------------------------------------------------------------------
(* Grants: createPreparedTextAccessGrant, createDataViewQueryGrant, revoke *)

Grant(v, k) ==
    /\ Selectable(v, k)
    /\ grants' = grants \cup {<<v, k>>}
    /\ UNCHANGED reader /\ SameStores

Revoke(v, k) ==
    /\ grants' = grants \ {<<v, k>>}
    /\ UNCHANGED reader /\ SameStores

-----------------------------------------------------------------------------
(* A protected read: lookup, authorize, read the bytes, lookup again,      *)
(* authorize again.  An answer keeps what was true of the source when the  *)
(* bytes were read.                                                        *)

Reading(r, at, v, k, seen) ==
    reader' = [reader EXCEPT ![r] = [at |-> at, version |-> v, kind |-> k, seen |-> seen]]

ReaderAt(r, at) == reader[r].at = at
Refuse(r) == reader' = [reader EXCEPT ![r] = Idle]

StartRead(r) ==
    /\ ReaderAt(r, "idle")
    /\ \E p \in Things : Selectable(p[1], p[2]) /\ Reading(r, "authorize", p[1], p[2], FALSE)
    /\ UNCHANGED grants /\ SameStores

Authorize(r, at, next) ==
    /\ ReaderAt(r, at)
    /\ IF <<reader[r].version, reader[r].kind>> \in grants
       THEN reader' = [reader EXCEPT ![r].at = next]
       ELSE Refuse(r)
    /\ UNCHANGED grants /\ SameStores

BytesThere(v, k) == IF k = "view" THEN v \in art ELSE object[v] = "whole"

ReadBytes(r) ==
    /\ ReaderAt(r, "read")
    /\ LET v == reader[r].version
           k == reader[r].kind
       IN IF BytesThere(v, k)
          THEN Reading(r, "relook", v, k,
                       /\ source.deletion = "active" /\ source.current = v
                       /\ source.revision = job[<<v, k>>].revision)
          ELSE Refuse(r)
    /\ UNCHANGED grants /\ SameStores

\* Mutant of LookAgain: the target is not looked up a second time.
LookOnce(r) ==
    /\ ReaderAt(r, "relook")
    /\ reader' = [reader EXCEPT ![r].at = "reauthorize"]
    /\ UNCHANGED grants /\ SameStores

LookAgain(r) ==
    /\ ReaderAt(r, "relook")
    /\ IF Selectable(reader[r].version, reader[r].kind)
       THEN reader' = [reader EXCEPT ![r].at = "reauthorize"]
       ELSE Refuse(r)
    /\ UNCHANGED grants /\ SameStores

EndRead(r) ==
    /\ ReaderAt(r, "answered")
    /\ Refuse(r)
    /\ UNCHANGED grants /\ SameStores

ReadStep(r) ==
    \/ StartRead(r) \/ Authorize(r, "authorize", "read") \/ ReadBytes(r)
    \/ LookAgain(r) \/ Authorize(r, "reauthorize", "answered") \/ EndRead(r)

-----------------------------------------------------------------------------
(* The gateway dies and boots.  Leases run out if it was away for long;    *)
(* boot cuts open uploads back to their checkpoint and recovers the claims *)
(* whose leases ran out.  Quarantine is not looked at.                     *)

Aged(long, r) == IF long /\ r.claim = "live" THEN [r EXCEPT !.claim = "lapsed"] ELSE r

Restart ==
    /\ Fault
    /\ \E long \in BOOLEAN :
          LET rows == [j \in DOMAIN job |-> Aged(long, job[j])]
              d == Aged(long, del)
              s == RecoveredSource(d)
              shown(aspect, old) == IF source.deletion = "active" /\ source.current \in Versions
                                    THEN RecoveredHealth(rows, source.current, aspect, old)
                                    ELSE old
          IN /\ RecoverJobs(rows)
             /\ del' = RecoveredDeletion(d)
             /\ source' = [s EXCEPT !.inspection = shown("inspection", @),
                                    !.preparation = shown("preparation", @)]
    /\ staged' = [v \in Versions |-> IF upload[v].state = "open"
                                     THEN Reconciled(v, upload[v].offset) ELSE staged[v]]
    /\ handler' = [v \in Versions |-> Idle]
    /\ reader' = [r \in Readers |-> Idle]
    /\ worker' = Idle /\ eraser' = Idle
    /\ UNCHANGED <<product, upload, inv, grants, quar, object, art>>

-----------------------------------------------------------------------------

SourcesNext ==
    \/ JobNext \/ UploadNext \/ DeletionNext
    \/ \E v \in Versions, k \in Preparations : Grant(v, k) \/ Revoke(v, k)
    \/ \E r \in Readers : ReadStep(r)
    \/ Restart

SourcesSpec == SourceInit /\ [][SourcesNext]_sourceVars

\* Both workers poll every 250 ms and drain what they find; time passes.
SourcesFairness ==
    /\ WF_sourceVars(WorkerStep)
    /\ WF_sourceVars(EraserStep)
    /\ WF_sourceVars(\E v \in Versions, k \in JobKinds : LeaseRunsOut(v, k))
    /\ WF_sourceVars(DeletionLease(FALSE))

FairSourcesSpec == SourcesSpec /\ SourcesFairness

-----------------------------------------------------------------------------
(* Types *)

Phases == {"active", "frozen", "deleting", "partially_deleted", "deleted"}

SourceRow == [deletion : Phases, revision : Nat, current : Versions \cup {NoVersion},
              inspection : Health, preparation : Health]

VersionRow == [there : BOOLEAN, inspection : Health, preparation : Health]

JobType == [state : {"absent", "cancel_requested"} \cup JobPending \cup JobEnded,
            attempt : 0..MaxAttempts, checkpoint : 0..4, claim : Claims, revision : Nat]

UploadType == [state : {"absent", "open", "completing", "completed", "expired", "failed"},
               offset : 0..Chunks, revision : Nat, base : Versions \cup {NoVersion},
               pending : BOOLEAN]

DeletionRow == [state : {"absent", "queued", "running", "cancel_requested", "partial"},
                attempt : 0..MaxAttempts, checkpoint : 0..3, claim : Claims]

FaultType == [count : 0..MaxFaults, stuck : SUBSET Versions]

\* Type correctness of all of it; the chunks in a staging file are the
\* upload's own.
SourcesTypeOK ==
    /\ source \in SourceRow
    /\ version \in [Versions -> VersionRow]
    /\ job \in [Versions \X JobKinds -> JobType]
    /\ product \in [Things -> {"none", "current", "stale"}]
    /\ upload \in [Versions -> UploadType]
    /\ quar \subseteq Versions /\ art \subseteq Versions
    /\ staged \in [Versions -> Seq(1..Chunks)]
    /\ object \in [Versions -> {"none", "empty", "whole", "torn"}]
    /\ del \in DeletionRow
    /\ \A a \in DOMAIN inv : inv[a] \in {"pending", "removed", "verified_absent", "failed"}
    /\ grants \subseteq Things
    /\ faults \in FaultType

-----------------------------------------------------------------------------
(* Properties *)

\* Until destruction starts nothing is lost: every version still has its whole
\* original and every published data view its artifact, whatever uploads,
\* cleanups of cancelled view jobs, crashes and a deletion that is still
\* cancellable did meanwhile.
WholeUntilDestroyed ==
    source.deletion \in {"active", "frozen"} =>
        \A v \in Versions :
            /\ version[v].there => object[v] = "whole"
            /\ "view" \in Preparations /\ product[<<v, "view">>] # "none" => v \in art

Covered(artifacts) ==
    \A v \in Versions :
        /\ object[v] \in Original =>
              {<<"immutable_original", v>>, <<"placed_candidate", v>>} \cap artifacts # {}
        /\ v \in quar \/ staged[v] # <<>> => <<"upload_staging", v>> \in artifacts
        /\ v \in art => <<"data_view", v>> \in artifacts
        /\ version[v].there => <<"immutable_original", v>> \in artifacts
        /\ upload[v].state # "absent" => <<"upload_staging", v>> \in artifacts
        /\ \A k \in JobKinds : job[<<v, k>>].state # "absent" => <<k, v>> \in artifacts
        /\ \A k \in Preparations :
              product[<<v, k>>] # "none" =>
                  <<IF k = "view" THEN "data_view" ELSE "derived_resource", v>> \in artifacts

\* No byte and no row of a source escapes the inventory of its deletion: while
\* it is active collectInventory would find all of them, and once it is frozen
\* the inventory taken then still lists all there is, although uploads and
\* jobs that were under way go on for a while.
NothingEscapesInventory ==
    /\ source.deletion = "active" => Covered(Inventory)
    /\ source.deletion \in {"frozen", "deleting", "partially_deleted"} => Covered(DOMAIN inv)

\* What was verified absent does not come back through an upload or a job that
\* was under way, and of a source reported deleted nothing is left: no row, no
\* grant, no staged, placed or derived byte.  Of an original the code keeps this
\* only where no removal of the upload's staging file has failed: an upload
\* under way could otherwise place it again once its absence was verified, see
\* DeletedMeansErased.  (A chunk checked before the freeze may still be
\* received into quarantine.)
ErasedStaysErased ==
    /\ \A a \in DOMAIN inv : inv[a] = "verified_absent" =>
          CASE a[1] \in {"immutable_original", "placed_candidate"} ->
                  a[2] \in faults.stuck \/ object[a[2]] \notin Original
            [] a[1] = "data_view" -> a[2] \notin art /\ product[<<a[2], "view">>] = "none"
            [] a[1] = "derived_resource" -> product[<<a[2], "extract">>] = "none"
            [] a[1] = "upload_staging" -> staged[a[2]] = <<>> /\ upload[a[2]].state = "absent"
            [] OTHER -> job[<<a[2], a[1]>>].state = "absent"
    /\ source.deletion = "deleted" =>
          /\ ~Residual /\ art = {}
          /\ \A v \in Versions :
                /\ ~version[v].there /\ staged[v] = <<>>
                /\ v \in faults.stuck \/ object[v] \notin Original

\* What ADR-0006 promises of every deletion: deleted is reported only when no
\* original is left.  The code breaks it: it verifies the original before the
\* staging file, so an upload whose staging file could not be removed at first
\* may place its original between the two.
DeletedMeansErased ==
    source.deletion = "deleted" => \A v \in Versions : object[v] \notin Original

\* The bytes an upload acknowledged are there: the staging file of an open
\* session starts with exactly the chunks up to its durable offset, across
\* refused checkpoints, repeated chunks and crashes between the append and
\* the checkpoint.
AcceptedBytesIntact ==
    \A v \in Versions :
        upload[v].state = "open" =>
            /\ Len(staged[v]) >= upload[v].offset
            /\ SubSeq(staged[v], 1, upload[v].offset) = SubSeq(Whole, 1, upload[v].offset)

\* A read that answers took its bytes while the source was active, its version
\* current and its revision the one the thing was prepared from: a refresh or
\* a freeze that was over before the bytes were read is never answered past.
AnswerWasOffered ==
    \A r \in Readers : ReaderAt(r, "answered") => reader[r].seen

\* The abstract life of the source.  What is retired: everything of replaced
\* versions, and what was begun at an earlier revision; all of it once
\* destruction has started.
Retired ==
    IF source.deletion \in {"deleting", "partially_deleted", "deleted"} THEN Things
    ELSE {p \in Things : \/ version[p[1]].there /\ p[1] # source.current
                         \/ /\ job[p].state # "absent"
                            /\ job[p].revision # source.revision}

Lifecycle == INSTANCE SourceLifecycle
    WITH phase <- source.deletion, current <- source.current, Kinds <- Preparations,
         offered <- {p \in Things : Selectable(p[1], p[2])}, retired <- Retired

\* Uploads, jobs, deletion, leases and crashes together implement the abstract
\* source: what was replaced or frozen is never offered again, not even when
\* the deletion is cancelled, and destruction is never undone.
ImplementsLifecycle == Lifecycle!LifecycleSpec

\* A planned deletion ends: the source becomes active again (cancelled),
\* partially deleted (to be retried) or deleted, although jobs of it were
\* leased, uploads were under way and workers failed or stalled.
DeletionEnds ==
    source.deletion \in {"frozen", "deleting"} ~> source.deletion \notin {"frozen", "deleting"}

============================================================================
