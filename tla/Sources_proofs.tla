--------------------------- MODULE Sources_proofs ---------------------------
(***************************************************************************)
(* What holds of a runtime source for any versions, chunks, preparations,  *)
(* attempts, faults and readers: its tables and places keep their types,   *)
(* the bytes an upload acknowledged are there, a read answers only with    *)
(* what was offered, and the whole implements SourceLifecycle.             *)
(***************************************************************************)
EXTENDS Sources, SequenceTheorems, TLAPS

-----------------------------------------------------------------------------
(* The inductive invariant *)

ChunkAt == {"receive", "locked", "append", "advance", "discard"}
Chunking == [at : ChunkAt, offset : 0..(Chunks - 1)]

Placing == {"directory", "rename", "inspect", "finish", "withdraw", "fail"}
CompleteAt == {"begin"} \cup Placing
Completing == [at : CompleteAt, fresh : BOOLEAN]

WorkerAt == {"target", "begin", "read", "check", "record", "finish", "cleanup", "confirm",
             "fail", "defer"}
Verdicts == {"stop", "fail", "defer"}
AtWork == [at : WorkerAt, version : Versions, kind : JobKinds, then : Verdicts,
           checkpoint : 0..4, attempt : 0..MaxAttempts]

Artifacts == ({"immutable_original", "upload_staging", "placed_candidate", "derived_resource",
               "data_view"} \cup JobKinds) \X Versions

Erasing == [at : {"start", "remove", "verify", "finish"}, todo : SUBSET Artifacts, checkpoint : 0..3]

ReadAt == {"authorize", "read", "relook", "reauthorize", "answered"}
Protected == [at : ReadAt, version : Versions, kind : Preparations, seen : BOOLEAN]

\* What is in the hands of handlers, workers and readers, beside the types of
\* the tables and the files.
PlacesOK ==
    /\ handler \in [Versions -> {Idle} \cup Chunking \cup Completing]
    /\ worker \in {Idle} \cup AtWork /\ (worker.at = "cleanup" => worker.kind = "view")
    /\ eraser \in {Idle} \cup Erasing
    /\ reader \in [Readers -> {Idle} \cup Protected]
    /\ inv \in [DOMAIN inv -> {"pending", "removed", "verified_absent", "failed"}]
    /\ DOMAIN inv \subseteq Artifacts

\* No upload is under way and no job is pending.
Quieted ==
    /\ \A v \in Versions : upload[v].state \notin {"open", "completing"}
    /\ \A j \in Versions \X JobKinds : job[j].state \notin JobPending

\* The phase of the source, the deletion's row and its worker agree; once it is
\* frozen no upload is open and no job is pending.
PhaseKept ==
    /\ source.deletion \in {"active", "deleted"} => del = NoDeletion /\ inv = <<>>
    /\ source.deletion = "frozen" =>
         del.state \in {"queued", "running", "cancel_requested"} /\ del.checkpoint = 0
    /\ source.deletion = "deleting" => del.state \in {"queued", "running"} /\ del.checkpoint > 0
    /\ source.deletion = "partially_deleted" => del.state = "partial" /\ del.checkpoint > 0
    /\ eraser.at = "start" =>
         source.deletion = "frozen" /\ del.state \in {"running", "cancel_requested"}
    /\ eraser.at \in {"remove", "verify", "finish"} =>
         source.deletion = "deleting" /\ del.state = "running" /\ eraser.checkpoint = del.checkpoint
    /\ source.deletion # "active" => Quieted

Kept == source.deletion \in {"active", "frozen"}

\* Revisions only grow, past those of all jobs once the source is frozen; a
\* version appears once.
RevisionsKept ==
    /\ source.current \in Versions => version[source.current].there
    /\ \A v \in Versions :
         upload[v].state \in {"open", "completing"} \/ handler[v].at \in CompleteAt =>
             ~version[v].there
    /\ Kept => \A v \in Versions : upload[v].state = "absent" => handler[v].at = "idle"
    /\ \A j \in Versions \X JobKinds : job[j].state # "absent" =>
         /\ version[j[1]].there
         /\ job[j].revision <= source.revision
         /\ source.deletion # "active" => job[j].revision < source.revision

\* A read is of something that was offered; what it missed is retired for good.
Reads(r) ==
    reader[r].at # "idle" =>
        /\ \/ <<reader[r].version, reader[r].kind>> \in Retired
           \/ /\ version[reader[r].version].there
              /\ job[<<reader[r].version, reader[r].kind>>].state # "absent"
        /\ reader[r].at = "relook" /\ ~reader[r].seen =>
              <<reader[r].version, reader[r].kind>> \in Retired
        /\ reader[r].at \in {"reauthorize", "answered"} => reader[r].seen

ReadsKept == \A r \in Readers : Reads(r)

Prefix(v, n) == Len(staged[v]) >= n /\ \A i \in 1..n : staged[v][i] = i

\* The staging file of an open upload, and of the chunk being added to it.
Bytes(v) ==
    upload[v].state = "open" =>
        /\ Prefix(v, upload[v].offset)
        /\ handler[v].at \notin Placing
        /\ handler[v].at \in {"append", "advance"} => handler[v].offset = upload[v].offset
        /\ handler[v].at = "append" => Len(staged[v]) = upload[v].offset
        /\ handler[v].at = "advance" =>
             Prefix(v, upload[v].offset + 1) /\ Len(staged[v]) = upload[v].offset + 1

BytesKept == \A v \in Versions : Bytes(v)

SourcesInv ==
    /\ SourcesTypeOK /\ PlacesOK
    /\ PhaseKept /\ RevisionsKept /\ ReadsKept /\ BytesKept


-----------------------------------------------------------------------------
(* Rows *)

JobStates == {"absent", "cancel_requested"} \cup JobPending \cup JobEnded
UploadStates == {"absent", "open", "completing", "completed", "expired", "failed"}

LEMMA HealthSet ==
    ASSUME NEW k \in JobKinds, NEW state \in Health
    PROVE  /\ \A row \in SourceRow :
                 /\ WithHealth(row, k, state) \in SourceRow
                 /\ WithHealth(row, k, state).deletion = row.deletion
                 /\ WithHealth(row, k, state).revision = row.revision
                 /\ WithHealth(row, k, state).current = row.current
           /\ \A row \in VersionRow :
                 /\ WithHealth(row, k, state) \in VersionRow
                 /\ WithHealth(row, k, state).there = row.there
BY DEF WithHealth, SourceRow, VersionRow

\* A job's row under another state or claim keeps its revision.
LEMMA StateSet ==
    ASSUME NEW r \in JobType, NEW state \in JobStates
    PROVE  /\ [r EXCEPT !.state = state] \in JobType
           /\ [r EXCEPT !.state = state].state = state
           /\ [r EXCEPT !.state = state].revision = r.revision
           /\ [r EXCEPT !.state = state].claim = r.claim
BY DEF JobType, JobStates

LEMMA ClaimSet ==
    ASSUME NEW r \in JobType, NEW claim \in Claims
    PROVE  /\ [r EXCEPT !.claim = claim] \in JobType
           /\ [r EXCEPT !.claim = claim].state = r.state
           /\ [r EXCEPT !.claim = claim].revision = r.revision
           /\ [r EXCEPT !.claim = claim].claim = claim
BY DEF JobType

LEMMA ReleasedSet ==
    ASSUME NEW r \in JobType, NEW state \in JobStates
    PROVE  /\ Released(r, state) \in JobType
           /\ Released(r, state).state = state
           /\ Released(r, state).revision = r.revision
           /\ Released(r, state).claim = "none"
<1>1. "none" \in Claims
  BY DEF Claims
<1> DEFINE new == [r EXCEPT !.state = state]
<1>2. new \in JobType /\ new.state = state /\ new.revision = r.revision
  BY StateSet
<1>3. Released(r, state) = [new EXCEPT !.claim = "none"]
  BY DEF Released, JobType
<1> HIDE DEF new
<1>4. /\ [new EXCEPT !.claim = "none"] \in JobType
      /\ [new EXCEPT !.claim = "none"].state = new.state
      /\ [new EXCEPT !.claim = "none"].revision = new.revision
      /\ [new EXCEPT !.claim = "none"].claim = "none"
  BY <1>1, <1>2, ClaimSet
<1>. QED
  BY <1>2, <1>3, <1>4

\* A claim spends an attempt.
LEMMA JobClaimed ==
    ASSUME NEW r \in JobType, r.attempt < MaxAttempts
    PROVE  /\ [r EXCEPT !.state = "running", !.claim = "live", !.attempt = @ + 1] \in JobType
           /\ [r EXCEPT !.state = "running", !.claim = "live", !.attempt = @ + 1].state = "running"
           /\ [r EXCEPT !.state = "running", !.claim = "live", !.attempt = @ + 1].revision = r.revision
           /\ r.attempt + 1 \in 0..MaxAttempts
<1>1. r.attempt + 1 \in 0..MaxAttempts
  BY SourceAssumption DEF JobType
<1>2. "running" \in JobStates /\ "live" \in Claims
  BY DEF JobStates, JobPending, Claims
<1> DEFINE one == [r EXCEPT !.state = "running"]
           two == [one EXCEPT !.claim = "live"]
<1>3. one \in JobType /\ one.state = "running" /\ one.revision = r.revision
  BY <1>2, StateSet
<1>4. two \in JobType /\ two.state = "running" /\ two.revision = r.revision
  <2> HIDE DEF one
  <2>. QED
    BY <1>2, <1>3, ClaimSet
<1>6. [r EXCEPT !.state = "running", !.claim = "live", !.attempt = @ + 1]
          = [two EXCEPT !.attempt = r.attempt + 1]
  BY DEF JobType
<1> HIDE DEF one, two
<1>5. /\ [two EXCEPT !.attempt = r.attempt + 1] \in JobType
      /\ [two EXCEPT !.attempt = r.attempt + 1].state = "running"
      /\ [two EXCEPT !.attempt = r.attempt + 1].revision = r.revision
  BY <1>1, <1>4 DEF JobType
<1>. QED
  BY <1>1, <1>5, <1>6

-----------------------------------------------------------------------------
(* What a step of the jobs does to the rows *)

\* Neither the phase of the source nor its version or revision changes, and no
\* version appears.
SameLife ==
    /\ source' \in SourceRow /\ version' \in [Versions -> VersionRow]
    /\ source'.deletion = source.deletion
    /\ source'.revision = source.revision
    /\ source'.current = source.current
    /\ \A v \in Versions : version'[v].there = version[v].there

\* One row gets another state, which is a pending one only if it was before.
Rewrites(j, new) ==
    /\ job' = [job EXCEPT ![j] = new]
    /\ new \in JobType /\ new.revision = job[j].revision
    /\ new.state = "absent" <=> job[j].state = "absent"
    /\ new.state \in JobPending => job[j].state \in JobPending

\* A row is added at the revision of an active source.
Requests(j, new) ==
    /\ job' = [job EXCEPT ![j] = new]
    /\ new \in JobType /\ new.revision = source.revision
    /\ job[j].state = "absent" /\ new.state = "queued"
    /\ source.deletion = "active" /\ version[j[1]].there

JobKept ==
    \/ UNCHANGED job
    \/ \E j \in Versions \X JobKinds, new \in JobType : Rewrites(j, new) \/ Requests(j, new)

LEMMA LifeStays ==
    ASSUME SourcesTypeOK, UNCHANGED <<source, version>>
    PROVE  SameLife
BY DEF SourcesTypeOK, SameLife

LEMMA HealthChanges ==
    ASSUME SourcesTypeOK, NEW v \in Versions, NEW k \in JobKinds, NEW state \in Health,
           SetHealth(v, k, state)
    PROVE  SameLife
<1>1. /\ source \in SourceRow /\ version \in [Versions -> VersionRow] /\ version[v] \in VersionRow
  BY DEF SourcesTypeOK
<1>2. /\ WithHealth(source, k, state) \in SourceRow
      /\ WithHealth(source, k, state).deletion = source.deletion
      /\ WithHealth(source, k, state).revision = source.revision
      /\ WithHealth(source, k, state).current = source.current
      /\ WithHealth(version[v], k, state) \in VersionRow
      /\ WithHealth(version[v], k, state).there = version[v].there
  BY <1>1, HealthSet
<1>3. /\ version' = [version EXCEPT ![v] = WithHealth(version[v], k, state)]
      /\ source' = source \/ source' = WithHealth(source, k, state)
  BY DEF SetHealth
<1>. QED
  BY <1>1, <1>2, <1>3 DEF SameLife

LEMMA RowRewritten ==
    ASSUME NEW j \in Versions \X JobKinds, NEW new \in JobType, Rewrites(j, new)
    PROVE  JobKept
BY DEF JobKept

LEMMA RowRequested ==
    ASSUME NEW j \in Versions \X JobKinds, NEW new \in JobType, Requests(j, new)
    PROVE  JobKept
BY DEF JobKept

\* A job gets another state; it becomes pending only from a pending state.
LEMMA RowReleased ==
    ASSUME SourcesTypeOK, NEW v \in Versions, NEW k \in JobKinds, NEW state \in JobStates,
           SetJob(v, k, Released(job[<<v, k>>], state)),
           job[<<v, k>>].state # "absent", state # "absent",
           state \in JobPending => job[<<v, k>>].state \in JobPending
    PROVE  JobKept
<1>1. job[<<v, k>>] \in JobType /\ <<v, k>> \in Versions \X JobKinds
  BY DEF SourcesTypeOK
<1> DEFINE new == Released(job[<<v, k>>], state)
<1>2. new \in JobType /\ new.state = state /\ new.revision = job[<<v, k>>].revision
  BY <1>1, ReleasedSet
<1>3. job' = [job EXCEPT ![<<v, k>>] = new]
  BY DEF SetJob
<1> HIDE DEF new
<1>4. Rewrites(<<v, k>>, new)
  BY <1>1, <1>2, <1>3 DEF Rewrites
<1>. QED
  BY <1>1, <1>2, <1>4, RowRewritten

LEMMA RowChanges ==
    ASSUME SourcesTypeOK, NEW v \in Versions, NEW k \in JobKinds, NEW state \in JobStates,
           SetJob(v, k, [job[<<v, k>>] EXCEPT !.state = state]),
           job[<<v, k>>].state # "absent", state # "absent",
           state \in JobPending => job[<<v, k>>].state \in JobPending
    PROVE  JobKept
<1>1. job[<<v, k>>] \in JobType /\ <<v, k>> \in Versions \X JobKinds
  BY DEF SourcesTypeOK
<1> DEFINE new == [job[<<v, k>>] EXCEPT !.state = state]
<1>2. new \in JobType /\ new.state = state /\ new.revision = job[<<v, k>>].revision
  BY <1>1, StateSet
<1>3. job' = [job EXCEPT ![<<v, k>>] = new]
  BY DEF SetJob
<1> HIDE DEF new
<1>4. Rewrites(<<v, k>>, new)
  BY <1>1, <1>2, <1>3 DEF Rewrites
<1>. QED
  BY <1>1, <1>2, <1>4, RowRewritten

LEMMA ClaimChanges ==
    ASSUME SourcesTypeOK, NEW v \in Versions, NEW k \in JobKinds, NEW claim \in Claims,
           SetJob(v, k, [job[<<v, k>>] EXCEPT !.claim = claim])
    PROVE  JobKept
<1>1. job[<<v, k>>] \in JobType /\ <<v, k>> \in Versions \X JobKinds
  BY DEF SourcesTypeOK
<1> DEFINE new == [job[<<v, k>>] EXCEPT !.claim = claim]
<1>2. /\ new \in JobType /\ new.state = job[<<v, k>>].state
      /\ new.revision = job[<<v, k>>].revision
  BY <1>1, ClaimSet
<1>3. job' = [job EXCEPT ![<<v, k>>] = new]
  BY DEF SetJob
<1> HIDE DEF new
<1>4. Rewrites(<<v, k>>, new)
  BY <1>1, <1>2, <1>3 DEF Rewrites
<1>. QED
  BY <1>1, <1>2, <1>4, RowRewritten

\* What becomes of each row.
RowsKept ==
    /\ job' \in [Versions \X JobKinds -> JobType]
    /\ \A j \in Versions \X JobKinds :
         /\ job[j].state # "absent" =>
              job'[j].state # "absent" /\ job'[j].revision = job[j].revision
         /\ job[j].state = "absent" /\ job'[j].state # "absent" =>
              /\ job'[j].revision = source.revision
              /\ source.deletion = "active" /\ version[j[1]].there
         /\ job'[j].state \in JobPending =>
              job[j].state \in JobPending \/ source.deletion = "active"

LEMMA JobKeptRows ==
    ASSUME SourcesTypeOK, JobKept
    PROVE  RowsKept
<1>1. job \in [Versions \X JobKinds -> JobType]
  BY DEF SourcesTypeOK
<1>2. CASE UNCHANGED job
  BY <1>1, <1>2 DEF RowsKept
<1>3. ASSUME NEW j \in Versions \X JobKinds, NEW new \in JobType, Rewrites(j, new)
      PROVE  RowsKept
  BY <1>1, <1>3 DEF Rewrites, RowsKept
<1>4. ASSUME NEW j \in Versions \X JobKinds, NEW new \in JobType, Requests(j, new)
      PROVE  RowsKept
  BY <1>1, <1>4 DEF Requests, RowsKept
<1>. QED
  BY <1>2, <1>3, <1>4 DEF JobKept

-----------------------------------------------------------------------------
(* The worker *)

LEMMA WorkerGoes ==
    ASSUME worker \in AtWork, NEW at \in WorkerAt
    PROVE  [worker EXCEPT !.at = at] \in AtWork
BY DEF AtWork

LEMMA WorkerTurns ==
    ASSUME worker \in AtWork, NEW at \in WorkerAt, NEW then \in Verdicts
    PROVE  [worker EXCEPT !.at = at, !.then = then] \in AtWork
BY DEF AtWork

LEMMA WorkerAdvances ==
    ASSUME worker \in AtWork, NEW at \in WorkerAt, NEW checkpoint \in 0..4
    PROVE  [worker EXCEPT !.at = at, !.checkpoint = checkpoint] \in AtWork
BY DEF AtWork

LEMMA WorkerTakesUp ==
    ASSUME job' \in [Versions \X JobKinds -> JobType], NEW v \in Versions, NEW k \in JobKinds,
           NEW at \in WorkerAt, Working(at, v, k, "stop")
    PROVE  worker' \in AtWork
<1>1. job'[<<v, k>>] \in JobType
  OBVIOUS
<1>2. job'[<<v, k>>].checkpoint \in 0..4 /\ job'[<<v, k>>].attempt \in 0..MaxAttempts
  BY <1>1 DEF JobType
<1>. QED
  BY <1>2 DEF Working, AtWork, Verdicts

LEMMA FaultCounted ==
    ASSUME SourcesTypeOK, Fault
    PROVE  faults' \in FaultType
<1>1. faults.count \in 0..MaxFaults /\ faults.stuck \subseteq Versions
  BY DEF SourcesTypeOK, FaultType
<1>2. faults.count + 1 \in 0..MaxFaults
  BY <1>1, SourceAssumption DEF Fault
<1>3. faults' = [count |-> faults.count + 1, stuck |-> faults.stuck]
  BY DEF SourcesTypeOK, FaultType, Fault
<1>. QED
  BY <1>1, <1>2, <1>3 DEF FaultType

LEMMA AtWorkRow ==
    ASSUME SourcesTypeOK, PlacesOK, worker.at # "idle"
    PROVE  /\ worker \in AtWork
           /\ worker.version \in Versions /\ worker.kind \in JobKinds
           /\ <<worker.version, worker.kind>> \in Versions \X JobKinds
           /\ Row \in JobType
<1>1. worker \in AtWork
  BY DEF PlacesOK, Idle
<1>2. worker.version \in Versions /\ worker.kind \in JobKinds
  BY <1>1 DEF AtWork
<1>. QED
  BY <1>1, <1>2 DEF SourcesTypeOK, Row

-----------------------------------------------------------------------------
(* What each step of the jobs does *)

ProductType == [Things -> {"none", "current", "stale"}]

JobEffect ==
    /\ SameLife /\ JobKept /\ SameOutside
    /\ product' \in ProductType /\ art' \subseteq Versions
    /\ worker' \in {Idle} \cup AtWork
    /\ faults' \in FaultType

LEMMA JobTypesBefore ==
    ASSUME SourcesTypeOK, PlacesOK
    PROVE  /\ job \in [Versions \X JobKinds -> JobType]
           /\ product \in ProductType /\ art \subseteq Versions
           /\ worker \in {Idle} \cup AtWork
           /\ faults \in FaultType
BY DEF SourcesTypeOK, PlacesOK, ProductType

LEMMA EnqueueEffect ==
    ASSUME SourcesTypeOK, PlacesOK, NEW v \in Versions, NEW k \in JobKinds, Enqueue(v, k)
    PROVE  JobEffect
<1> USE JobTypesBefore
<1>1. SameLife
  <2>1. "queued" \in Health
    BY DEF Health
  <2>. QED
    BY <2>1, HealthChanges DEF Enqueue
<1>2. JobKept
  <2> DEFINE new == [NoJob EXCEPT !.state = "queued", !.revision = source.revision]
         one == [NoJob EXCEPT !.state = "queued"]
  <2>1. NoJob \in JobType
    <3>1. 0 \in 0..MaxAttempts /\ 0 \in 0..4 /\ 0 \in Nat
      BY SourceAssumption
    <3>. QED
      BY <3>1 DEF NoJob, JobType, Claims
  <2>2. one \in JobType /\ one.state = "queued"
    BY <2>1, StateSet DEF JobStates, JobPending
  <2>3. new = [one EXCEPT !.revision = source.revision]
    BY <2>1 DEF JobType
  <2>4. source.revision \in Nat
    BY DEF SourcesTypeOK, SourceRow
  <2>5. new \in JobType /\ new.state = "queued" /\ new.revision = source.revision
    <3> HIDE DEF new, one
    <3>. QED
      BY <2>2, <2>3, <2>4 DEF JobType
  <2>6. job' = [job EXCEPT ![<<v, k>>] = new]
    BY DEF Enqueue, SetJob
  <2> HIDE DEF new
  <2>7. Requests(<<v, k>>, new)
    BY <2>5, <2>6 DEF Requests, Enqueue
  <2>. QED
    BY <2>5, <2>7, RowRequested
<1>. QED
  BY <1>1, <1>2 DEF JobEffect, Enqueue

LEMMA RequestCancelEffect ==
    ASSUME SourcesTypeOK, PlacesOK, NEW v \in Versions, NEW k \in JobKinds, RequestCancel(v, k)
    PROVE  JobEffect
<1> USE JobTypesBefore
<1>1. SameLife
  BY LifeStays DEF RequestCancel
<1>2. JobKept
  BY RowChanges DEF RequestCancel, JobStates, JobPending
<1>. QED
  BY <1>1, <1>2 DEF JobEffect, RequestCancel

LEMMA LeaseEffect ==
    ASSUME SourcesTypeOK, PlacesOK, NEW v \in Versions, NEW k \in JobKinds,
           LeaseRunsOut(v, k) \/ LeaseStalls(v, k)
    PROVE  JobEffect
<1> USE JobTypesBefore
<1>1. SameLife
  BY LifeStays DEF LeaseRunsOut, LeaseStalls
<1>2. JobKept
  BY ClaimChanges DEF LeaseRunsOut, LeaseStalls, Claims
<1>3. CASE LeaseRunsOut(v, k)
  BY <1>1, <1>2, <1>3 DEF JobEffect, LeaseRunsOut
<1>4. CASE LeaseStalls(v, k)
  BY <1>1, <1>2, <1>4, FaultCounted DEF JobEffect, LeaseStalls
<1>. QED
  BY <1>3, <1>4

LEMMA RunOneEffect ==
    ASSUME SourcesTypeOK, PlacesOK, RunOne
    PROVE  JobEffect
<1> USE JobTypesBefore
<1>a. /\ product' \in ProductType /\ art' \subseteq Versions
      /\ faults' \in FaultType /\ SameOutside
  BY DEF RunOne
<1>1. CASE ConfirmUnclaimed
  <2>1. PICK j \in Cancellable :
            /\ SetJob(j[1], j[2], Released(job[j], "cancelled"))
            /\ SetHealth(j[1], j[2], "none")
            /\ UNCHANGED worker
    BY <1>1 DEF ConfirmUnclaimed
  <2>2. /\ j \in Versions \X JobKinds /\ job[j].state = "cancel_requested"
        /\ j[1] \in Versions /\ j[2] \in JobKinds /\ j = <<j[1], j[2]>>
    BY DEF Cancellable
  <2>3. SameLife
    BY <2>1, <2>2, HealthChanges DEF Health
  <2>4. JobKept
    BY <2>1, <2>2, RowReleased DEF JobStates, JobEnded, JobPending
  <2>. QED
    BY <1>a, <2>1, <2>3, <2>4 DEF JobEffect
<1>2. ASSUME NEW kinds, ClaimNext(kinds)
      PROVE  JobEffect
  <2>1. PICK j \in Claimable(kinds) :
            /\ SetJob(j[1], j[2], [job[j] EXCEPT !.state = "running", !.claim = "live",
                                                 !.attempt = @ + 1])
            /\ SetHealth(j[1], j[2], "working")
            /\ Working("target", j[1], j[2], "stop")
    BY <1>2 DEF ClaimNext
  <2>2. /\ j \in Versions \X JobKinds /\ job[j].attempt < MaxAttempts
        /\ job[j].state \in {"queued", "waiting_for_resource"}
        /\ j[1] \in Versions /\ j[2] \in JobKinds /\ j = <<j[1], j[2]>>
        /\ job[j] \in JobType
    BY DEF Claimable
  <2>3. SameLife
    BY <2>1, <2>2, HealthChanges DEF Health
  <2> DEFINE new == [job[j] EXCEPT !.state = "running", !.claim = "live", !.attempt = @ + 1]
  <2>4. new \in JobType /\ new.state = "running" /\ new.revision = job[j].revision
    BY <2>2, JobClaimed
  <2>5. job' = [job EXCEPT ![j] = new]
    BY <2>1, <2>2 DEF SetJob
  <2> HIDE DEF new
  <2>6. JobKept
    <3>1. Rewrites(j, new)
      BY <2>2, <2>4, <2>5 DEF Rewrites, JobPending
    <3>. QED
      BY <2>2, <2>4, <3>1, RowRewritten
  <2>7. worker' \in AtWork
    <3>1. "target" \in WorkerAt
      BY DEF WorkerAt
    <3>. QED
      BY <2>1, <2>2, <2>6, <3>1, JobKeptRows, WorkerTakesUp DEF RowsKept
  <2>. QED
    BY <1>a, <2>3, <2>6, <2>7 DEF JobEffect
<1>3. CASE ClaimNextCancellation
  <2>1. PICK j \in LapsedCancellations :
            /\ SetJob(j[1], j[2], [job[j] EXCEPT !.claim = "live"])
            /\ Working("cleanup", j[1], j[2], "stop")
            /\ UNCHANGED <<source, version>>
    BY <1>3 DEF ClaimNextCancellation
  <2>2. j \in Versions \X JobKinds /\ j[1] \in Versions /\ j[2] \in JobKinds /\ j = <<j[1], j[2]>>
    BY DEF LapsedCancellations
  <2>3. SameLife
    BY <2>1, LifeStays
  <2>4. JobKept
    BY <2>1, <2>2, ClaimChanges DEF Claims
  <2>5. worker' \in AtWork
    <3>1. "cleanup" \in WorkerAt
      BY DEF WorkerAt
    <3>. QED
      BY <2>1, <2>2, <2>4, <3>1, JobKeptRows, WorkerTakesUp DEF RowsKept
  <2>. QED
    BY <1>a, <2>3, <2>4, <2>5 DEF JobEffect
<1>. QED
  BY <1>1, <1>2, <1>3 DEF RunOne

\* A step of the worker that leaves all tables alone.
LEMMA WorkerMoves ==
    ASSUME SourcesTypeOK, PlacesOK, worker.at # "idle",
           UNCHANGED <<source, jobVars>>, SameOutside, art' \subseteq Versions,
           faults' \in FaultType, worker' \in {Idle} \cup AtWork
    PROVE  JobEffect
BY LifeStays, JobTypesBefore DEF JobEffect, JobKept, jobVars

LEMMA LostTypes ==
    ASSUME SourcesTypeOK, PlacesOK, worker.at # "idle", NEW at, Lost(at)
    PROVE  worker' \in {Idle} \cup AtWork
<1>1. worker \in AtWork
  BY AtWorkRow
<1>2. "confirm" \in WorkerAt /\ "cleanup" \in WorkerAt
  BY DEF WorkerAt
<1>3. CASE Goto("confirm")
  BY <1>1, <1>2, <1>3, WorkerGoes DEF Goto
<1>4. CASE Goto("cleanup")
  BY <1>1, <1>2, <1>4, WorkerGoes DEF Goto
<1>5. CASE Finished
  BY <1>5 DEF Finished
<1>. QED
  BY <1>3, <1>4, <1>5 DEF Lost

LEMMA GetTargetEffect ==
    ASSUME SourcesTypeOK, PlacesOK, GetTarget
    PROVE  JobEffect
<1>1. worker.at # "idle" /\ worker \in AtWork
  BY AtWorkRow DEF GetTarget
<1>2. worker' \in {Idle} \cup AtWork
  <2>1. CASE Goto("begin")
    BY <1>1, <2>1, WorkerGoes DEF Goto, WorkerAt
  <2>2. CASE Lost("target")
    BY <1>1, <2>2, LostTypes
  <2>. QED
    BY <2>1, <2>2 DEF GetTarget
<1>. QED
  BY <1>1, <1>2, WorkerMoves, JobTypesBefore DEF GetTarget

LEMMA AdvanceEffect ==
    ASSUME SourcesTypeOK, PlacesOK, Advance
    PROVE  JobEffect
<1>1. ASSUME NEW at \in WorkerAt, NEW checkpoint \in 0..4, NEW next \in WorkerAt, at # "idle",
             AdvanceTo(at, checkpoint, next)
      PROVE  JobEffect
  <2>1. worker.at # "idle" /\ worker \in AtWork
    BY <1>1, AtWorkRow DEF AdvanceTo
  <2>2. SameLife
    BY <1>1, LifeStays DEF AdvanceTo
  <2>3. /\ SameOutside /\ product' \in ProductType /\ art' \subseteq Versions
        /\ faults' \in FaultType
    BY <1>1, JobTypesBefore DEF AdvanceTo
  <2>4. CASE Goto(next) /\ UNCHANGED job
    <3>1. worker' \in AtWork
      BY <1>1, <2>1, <2>4, WorkerGoes DEF Goto
    <3>. QED
      BY <2>2, <2>3, <2>4, <3>1 DEF JobEffect, JobKept
  <2>5. CASE Lost(at) /\ UNCHANGED job
    <3>1. worker' \in {Idle} \cup AtWork
      BY <2>1, <2>5, LostTypes
    <3>. QED
      BY <2>2, <2>3, <2>5, <3>1 DEF JobEffect, JobKept
  <2>6. CASE /\ SetJob(worker.version, worker.kind, [Row EXCEPT !.checkpoint = checkpoint])
             /\ worker' = [worker EXCEPT !.at = next, !.checkpoint = checkpoint]
    <3>1. worker' \in AtWork
      BY <1>1, <2>1, <2>6, WorkerAdvances
    <3> DEFINE new == [Row EXCEPT !.checkpoint = checkpoint]
               j == <<worker.version, worker.kind>>
    <3>2. Row \in JobType /\ j \in Versions \X JobKinds
      BY <2>1, AtWorkRow
    <3>3. new \in JobType /\ new.state = Row.state /\ new.revision = Row.revision
      BY <1>1, <3>2 DEF JobType
    <3>4. job' = [job EXCEPT ![j] = new] /\ Row = job[j]
      BY <2>6 DEF SetJob, Row
    <3> HIDE DEF new, j
    <3>5. Rewrites(j, new)
      BY <3>3, <3>4 DEF Rewrites
    <3>6. JobKept
      BY <3>2, <3>3, <3>5, RowRewritten
    <3>. QED
      BY <2>2, <2>3, <3>1, <3>6 DEF JobEffect
  <2>. QED
    BY <1>1, <2>4, <2>5, <2>6 DEF AdvanceTo
<1>2. 1 \in 0..4 /\ 2 \in 0..4 /\ 3 \in 0..4
  OBVIOUS
<1>3. /\ "begin" \in WorkerAt /\ "read" \in WorkerAt /\ "check" \in WorkerAt
      /\ "record" \in WorkerAt /\ "finish" \in WorkerAt
  BY DEF WorkerAt
<1>4. CASE AdvanceTo("begin", 1, "read")
  BY <1>1, <1>2, <1>3, <1>4
<1>5. CASE AdvanceTo("check", 2, "record")
  BY <1>1, <1>2, <1>3, <1>5
<1>6. CASE AdvanceTo("record", 3, "finish")
  BY <1>1, <1>2, <1>3, <1>6
<1>. QED
  BY <1>4, <1>5, <1>6 DEF Advance

LEMMA ReadEffect ==
    ASSUME SourcesTypeOK, PlacesOK, Read
    PROVE  JobEffect
<1>1. worker.at # "idle" /\ worker \in AtWork /\ worker.version \in Versions
  BY AtWorkRow DEF Read
<1>2. worker' \in AtWork
  BY <1>1, WorkerGoes DEF Read, Goto, WorkerAt
<1>3. art' \subseteq Versions
  BY <1>1, JobTypesBefore DEF Read
<1>. QED
  BY <1>1, <1>2, <1>3, WorkerMoves, JobTypesBefore DEF Read

LEMMA ReadFailsEffect ==
    ASSUME SourcesTypeOK, PlacesOK, NEW recurs \in BOOLEAN, ReadFails(recurs)
    PROVE  JobEffect
<1>1. worker.at # "idle" /\ worker \in AtWork
  BY AtWorkRow DEF ReadFails
<1>2. /\ "cleanup" \in WorkerAt /\ "fail" \in WorkerAt /\ "defer" \in WorkerAt
      /\ "fail" \in Verdicts /\ "defer" \in Verdicts
  BY DEF WorkerAt, Verdicts
<1>3. PICK verdict \in {"fail", "defer"} :
          \/ worker' = [worker EXCEPT !.at = "cleanup", !.then = verdict]
          \/ worker' = [worker EXCEPT !.at = verdict]
  BY DEF ReadFails
<1>4. CASE worker' = [worker EXCEPT !.at = "cleanup", !.then = verdict]
  <2>1. worker' \in AtWork
    BY <1>1, <1>2, <1>3, <1>4, WorkerTurns
  <2>. QED
    BY <1>1, <2>1, WorkerMoves, FaultCounted, JobTypesBefore DEF ReadFails
<1>5. CASE worker' = [worker EXCEPT !.at = verdict]
  <2>1. worker' \in AtWork
    BY <1>1, <1>2, <1>3, <1>5, WorkerGoes
  <2>. QED
    BY <1>1, <2>1, WorkerMoves, FaultCounted, JobTypesBefore DEF ReadFails
<1>. QED
  BY <1>3, <1>4, <1>5

LEMMA FinishEffect ==
    ASSUME SourcesTypeOK, PlacesOK, Finish
    PROVE  JobEffect
<1>1. worker.at # "idle" /\ worker \in AtWork
  BY AtWorkRow DEF Finish
<1> DEFINE v == worker.version
           k == worker.kind
           j == <<v, k>>
<1>2. v \in Versions /\ k \in JobKinds /\ j \in Versions \X JobKinds /\ Row \in JobType /\ Row = job[j]
  BY <1>1, AtWorkRow DEF Row
<1>3. SameOutside /\ art' \subseteq Versions /\ faults' \in FaultType
  BY JobTypesBefore DEF Finish
<1>4. CASE UNCHANGED <<source, jobVars>>
  <2>1. /\ "cleanup" \in WorkerAt /\ "confirm" \in WorkerAt /\ "fail" \in Verdicts
    BY DEF WorkerAt, Verdicts
  <2>2. \/ worker' = Idle
        \/ worker' = [worker EXCEPT !.at = "cleanup", !.then = "fail"]
        \/ worker' = [worker EXCEPT !.at = "confirm"]
    BY DEF Finish, Finished, Goto
  <2>3. worker' \in {Idle} \cup AtWork
    <3>1. [worker EXCEPT !.at = "cleanup", !.then = "fail"] \in AtWork
      BY <1>1, <2>1, WorkerTurns
    <3>2. [worker EXCEPT !.at = "confirm"] \in AtWork
      BY <1>1, <2>1, WorkerGoes
    <3>. QED
      BY <2>2, <3>1, <3>2
  <2>. QED
    BY <1>1, <1>3, <1>4, <2>3, WorkerMoves
<1>5. CASE ~UNCHANGED <<source, jobVars>>
  <2> DEFINE one == Released(Row, "succeeded")
             new == [one EXCEPT !.checkpoint = 4]
  <2>1. /\ Held(Row)
        /\ job' = [job EXCEPT ![j] = new]
        /\ version' = [version EXCEPT ![v] = WithHealth(version[v], k, "done")]
        /\ source' = source \/ source' = WithHealth(source, k, "done")
        /\ \/ product' = product
           \/ k # "inspect" /\ product' = [product EXCEPT ![j] = "current"]
           \/ k # "inspect" /\ product' = [product EXCEPT ![j] = "stale"]
        /\ worker' = Idle
    BY <1>5 DEF Finish, SetJob, Finished
  <2>2. SameLife
    <3>1. /\ source \in SourceRow /\ version \in [Versions -> VersionRow] /\ version[v] \in VersionRow
      BY <1>2 DEF SourcesTypeOK
    <3>2. /\ WithHealth(source, k, "done") \in SourceRow
          /\ WithHealth(source, k, "done").deletion = source.deletion
          /\ WithHealth(source, k, "done").revision = source.revision
          /\ WithHealth(source, k, "done").current = source.current
          /\ WithHealth(version[v], k, "done") \in VersionRow
          /\ WithHealth(version[v], k, "done").there = version[v].there
      BY <1>2, <3>1, HealthSet DEF Health
    <3> HIDE DEF v, k
    <3>. QED
      BY <1>2, <2>1, <3>1, <3>2 DEF SameLife
  <2>3. product' \in ProductType
    <3>1. product \in ProductType
      BY JobTypesBefore
    <3>2. k # "inspect" => j \in Things
      BY <1>2 DEF JobKinds, Things
    <3> HIDE DEF j, k
    <3>. QED
      BY <2>1, <3>1, <3>2 DEF ProductType
  <2>4. JobKept
    <3>1. one \in JobType /\ one.state = "succeeded" /\ one.revision = Row.revision
      BY <1>2, ReleasedSet DEF JobStates, JobEnded
    <3>2. new \in JobType /\ new.state = "succeeded" /\ new.revision = Row.revision
      <4> HIDE DEF one
      <4>. QED
        BY <3>1 DEF JobType
    <3>3. Row.state = "running"
      BY <2>1 DEF Held
    <3> HIDE DEF new, j
    <3>4. Rewrites(j, new)
      BY <1>2, <2>1, <3>2, <3>3 DEF Rewrites, JobPending
    <3>. QED
      BY <1>2, <3>2, <3>4, RowRewritten
  <2>. QED
    BY <1>3, <2>1, <2>2, <2>3, <2>4 DEF JobEffect
<1>. QED
  BY <1>4, <1>5

LEMMA CleanupEffect ==
    ASSUME SourcesTypeOK, PlacesOK, Cleanup
    PROVE  JobEffect
<1>1. worker.at # "idle" /\ worker \in AtWork /\ worker.version \in Versions
  BY AtWorkRow DEF Cleanup
<1>2. worker' \in {Idle} \cup AtWork
  <2>1. "confirm" \in WorkerAt
    BY DEF WorkerAt
  <2>2. CASE Goto("confirm")
    BY <1>1, <2>1, <2>2, WorkerGoes DEF Goto
  <2>3. CASE Finished
    BY <2>3 DEF Finished
  <2>. QED
    BY <2>2, <2>3 DEF Cleanup
<1>3. art' \subseteq Versions
  BY <1>1, JobTypesBefore DEF Cleanup
<1>. QED
  BY <1>1, <1>2, <1>3, WorkerMoves, JobTypesBefore DEF Cleanup

LEMMA CleanupFailsEffect ==
    ASSUME SourcesTypeOK, PlacesOK, CleanupFails
    PROVE  JobEffect
<1>1. worker.at # "idle" /\ worker.version \in Versions /\ worker.kind = "view"
      /\ "view" \in JobKinds /\ Row.state \in {"running", "cancel_requested"}
  BY AtWorkRow DEF CleanupFails, PlacesOK
<1>2. /\ SameOutside /\ art' \subseteq Versions /\ product' \in ProductType
      /\ faults' \in FaultType
  BY JobTypesBefore, FaultCounted DEF CleanupFails
<1>3. CASE /\ Held(Row)
           /\ SetJob(worker.version, "view", Released(Row, "failed"))
           /\ SetHealth(worker.version, "view", "failed")
  <2>1. SameLife
    BY <1>1, <1>3, HealthChanges DEF Health
  <2>2. SetJob(worker.version, "view", Released(job[<<worker.version, "view">>], "failed"))
    BY <1>1, <1>3 DEF Row
  <2>3. job[<<worker.version, "view">>].state # "absent"
    BY <1>1 DEF Row
  <2>4. JobKept
    BY <1>1, <2>2, <2>3, RowReleased DEF JobStates, JobEnded, JobPending
  <2>. QED
    BY <1>2, <2>1, <2>4 DEF JobEffect, CleanupFails, Finished
<1>4. CASE UNCHANGED <<source, version, job>>
  BY <1>2, <1>4, LifeStays DEF JobEffect, JobKept, CleanupFails, Finished
<1>. QED
  BY <1>3, <1>4 DEF CleanupFails

LEMMA ConfirmEffect ==
    ASSUME SourcesTypeOK, PlacesOK, Confirm
    PROVE  JobEffect
<1>1. worker.at # "idle" /\ worker \in AtWork
  BY AtWorkRow DEF Confirm
<1>2. worker.version \in Versions /\ worker.kind \in JobKinds
  BY <1>1, AtWorkRow
<1>3. /\ SameOutside /\ art' \subseteq Versions /\ product' \in ProductType
      /\ faults' \in FaultType
  BY JobTypesBefore DEF Confirm
<1>4. CASE /\ Row.state = "cancel_requested"
           /\ SetJob(worker.version, worker.kind, Released(Row, "cancelled"))
           /\ SetHealth(worker.version, worker.kind, "none")
           /\ Finished
  <2>1. SameLife
    BY <1>2, <1>4, HealthChanges DEF Health
  <2>2. JobKept
    BY <1>2, <1>4, RowReleased DEF JobStates, JobEnded, JobPending, Row
  <2>. QED
    BY <1>3, <1>4, <2>1, <2>2 DEF JobEffect, Finished
<1>5. CASE /\ IF View /\ worker.then # "stop" THEN Goto(worker.then) ELSE Finished
           /\ UNCHANGED <<source, version, job>>
  <2>1. worker' \in {Idle} \cup AtWork
    <3>1. worker.then \in Verdicts
      BY <1>1 DEF AtWork
    <3>2. worker.then # "stop" => worker.then \in WorkerAt
      BY <3>1 DEF Verdicts, WorkerAt
    <3>. QED
      BY <1>1, <1>5, <3>2, WorkerGoes DEF Goto, Finished
  <2>2. SameLife
    BY <1>5, LifeStays
  <2>. QED
    BY <1>3, <1>5, <2>1, <2>2 DEF JobEffect, JobKept
<1>. QED
  BY <1>4, <1>5 DEF Confirm

LEMMA SettleEffect ==
    ASSUME SourcesTypeOK, PlacesOK, FinishFailed \/ DeferUntil
    PROVE  JobEffect
<1>1. ASSUME NEW at \in WorkerAt, NEW state \in JobStates, NEW health \in Health,
             Settle(at, state, health), state # "absent"
      PROVE  JobEffect
  <2>1. worker.at # "idle" /\ worker \in AtWork
    BY <1>1, AtWorkRow DEF Settle, WorkerAt
  <2>2. worker.version \in Versions /\ worker.kind \in JobKinds
    BY <2>1, AtWorkRow
  <2>3. /\ SameOutside /\ art' \subseteq Versions /\ product' \in ProductType
        /\ faults' \in FaultType
    BY <1>1, JobTypesBefore DEF Settle
  <2>4. CASE /\ Held(Row)
             /\ SetJob(worker.version, worker.kind, Released(Row, state))
             /\ SetHealth(worker.version, worker.kind, health)
             /\ Finished
    <3>1. SameLife
      BY <1>1, <2>2, <2>4, HealthChanges
    <3>2. Row.state = "running"
      BY <2>4 DEF Held
    <3>3. JobKept
      BY <1>1, <2>2, <2>4, <3>2, RowReleased DEF JobPending, Row
    <3>. QED
      BY <2>3, <2>4, <3>1, <3>3 DEF JobEffect, Finished
  <2>5. CASE /\ IF View THEN Finished ELSE Goto("confirm")
             /\ UNCHANGED <<source, version, job>>
    <3>1. worker' \in {Idle} \cup AtWork
      BY <2>1, <2>5, WorkerGoes DEF Goto, Finished, WorkerAt
    <3>2. SameLife
      BY <2>5, LifeStays
    <3>. QED
      BY <2>3, <2>5, <3>1, <3>2 DEF JobEffect, JobKept
  <2>. QED
    BY <1>1, <2>4, <2>5 DEF Settle
<1>2. /\ "fail" \in WorkerAt /\ "defer" \in WorkerAt
      /\ "failed" \in JobStates /\ "waiting_for_resource" \in JobStates
      /\ "failed" \in Health /\ "queued" \in Health
  BY DEF WorkerAt, JobStates, JobEnded, JobPending, Health
<1>3. CASE FinishFailed
  BY <1>1, <1>2, <1>3 DEF FinishFailed
<1>4. CASE DeferUntil
  BY <1>1, <1>2, <1>4 DEF DeferUntil
<1>. QED
  BY <1>3, <1>4

\* A cleanup is of a data view.
LEMMA CleansViews ==
    ASSUME SourcesTypeOK, PlacesOK, JobNext
    PROVE  worker'.at = "cleanup" => worker'.kind = "view"
<1>1. worker.at = "cleanup" => worker.kind = "view"
  BY DEF PlacesOK
<1>2. worker.at # "idle" => worker \in AtWork
  BY AtWorkRow
<1>3. Finished => worker'.at # "cleanup"
  BY DEF Finished, Idle
<1>4. ASSUME NEW at, worker.at # "idle", Goto(at), at = "cleanup" => worker.kind = "view"
      PROVE  worker'.at = "cleanup" => worker'.kind = "view"
  BY <1>2, <1>4 DEF Goto, AtWork
<1>5. ASSUME NEW at, worker.at # "idle", Lost(at)
      PROVE  worker'.at = "cleanup" => worker'.kind = "view"
  BY <1>3, <1>4, <1>5 DEF Lost, View
<1>6. CASE RunOne
  <2>1. ASSUME NEW v, NEW k, NEW at, Working(at, v, k, "stop"), at = "cleanup" => k = "view"
        PROVE  worker'.at = "cleanup" => worker'.kind = "view"
    BY <2>1 DEF Working
  <2>2. CASE ConfirmUnclaimed
    BY <1>1, <2>2 DEF ConfirmUnclaimed
  <2>3. ASSUME NEW kinds, ClaimNext(kinds)
        PROVE  worker'.at = "cleanup" => worker'.kind = "view"
    BY <2>1, <2>3 DEF ClaimNext
  <2>4. CASE ClaimNextCancellation
    <3>1. PICK j \in LapsedCancellations : Working("cleanup", j[1], j[2], "stop")
      BY <2>4 DEF ClaimNextCancellation
    <3>2. j[2] = "view"
      BY DEF LapsedCancellations
    <3>. QED
      BY <2>1, <3>1, <3>2
  <2>. QED
    BY <1>6, <2>2, <2>3, <2>4 DEF RunOne
<1>7. CASE GetTarget
  BY <1>4, <1>5, <1>7 DEF GetTarget
<1>8. CASE Advance
  <2>1. ASSUME NEW at, NEW checkpoint, NEW next, at # "idle", next # "cleanup",
               AdvanceTo(at, checkpoint, next)
        PROVE  worker'.at = "cleanup" => worker'.kind = "view"
    <3>1. worker.at # "idle"
      BY <2>1 DEF AdvanceTo
    <3>2. CASE worker' = [worker EXCEPT !.at = next, !.checkpoint = checkpoint]
      BY <1>2, <2>1, <3>1, <3>2 DEF AtWork
    <3>. QED
      BY <1>4, <1>5, <2>1, <3>1, <3>2 DEF AdvanceTo
  <2>. QED
    BY <1>8, <2>1 DEF Advance
<1>9. CASE Read
  BY <1>4, <1>9 DEF Read
<1>10. ASSUME NEW recurs, ReadFails(recurs)
       PROVE  worker'.at = "cleanup" => worker'.kind = "view"
  <2>1. worker.at # "idle" /\ worker \in AtWork
    BY <1>2, <1>10 DEF ReadFails
  <2>2. PICK verdict \in {"fail", "defer"} :
            \/ worker.kind = "view" /\ worker' = [worker EXCEPT !.at = "cleanup", !.then = verdict]
            \/ worker' = [worker EXCEPT !.at = verdict]
    BY <1>10 DEF ReadFails, View
  <2>. QED
    BY <2>1, <2>2 DEF AtWork
<1>11. CASE Finish
  <2>1. worker.at # "idle" /\ worker \in AtWork
    BY <1>2, <1>11 DEF Finish
  <2>2. \/ Finished
        \/ worker.kind = "view" /\ worker' = [worker EXCEPT !.at = "cleanup", !.then = "fail"]
        \/ Goto("confirm")
    BY <1>11 DEF Finish, View
  <2>3. CASE worker.kind = "view" /\ worker' = [worker EXCEPT !.at = "cleanup", !.then = "fail"]
    BY <2>1, <2>3 DEF AtWork
  <2>. QED
    BY <1>3, <1>4, <2>1, <2>2, <2>3
<1>12. CASE Cleanup
  BY <1>3, <1>4, <1>12 DEF Cleanup
<1>13. CASE CleanupFails \/ WorkerThrows
  BY <1>3, <1>13 DEF CleanupFails, WorkerThrows
<1>14. CASE Confirm
  <2>1. worker.at # "idle" /\ (worker.then # "cleanup")
    BY <1>2, <1>14 DEF Confirm, AtWork, Verdicts
  <2>. QED
    BY <1>3, <1>4, <1>14, <2>1 DEF Confirm
<1>15. ASSUME NEW at, NEW state, NEW health, at # "idle", Settle(at, state, health)
       PROVE  worker'.at = "cleanup" => worker'.kind = "view"
  BY <1>3, <1>4, <1>15 DEF Settle
<1>16. CASE FinishFailed \/ DeferUntil
  BY <1>15, <1>16 DEF FinishFailed, DeferUntil
<1>17. ASSUME NEW v \in Versions, NEW k \in JobKinds,
              Enqueue(v, k) \/ RequestCancel(v, k) \/ LeaseRunsOut(v, k) \/ LeaseStalls(v, k)
       PROVE  worker'.at = "cleanup" => worker'.kind = "view"
  BY <1>1, <1>17 DEF Enqueue, RequestCancel, LeaseRunsOut, LeaseStalls
<1>. QED
  BY <1>6, <1>7, <1>8, <1>9, <1>10, <1>11, <1>12, <1>13, <1>14, <1>16, <1>17
     DEF JobNext, WorkerStep

LEMMA JobEffects ==
    ASSUME SourcesTypeOK, PlacesOK, JobNext
    PROVE  JobEffect
<1>1. CASE WorkerThrows
  <2>1. worker.at # "idle" /\ worker' = Idle /\ Fault
    BY <1>1 DEF WorkerThrows, Finished
  <2>. QED
    BY <1>1, <2>1, WorkerMoves, FaultCounted, JobTypesBefore DEF WorkerThrows
<1>2. CASE WorkerStep
  <2>1. TRUE \in BOOLEAN /\ FALSE \in BOOLEAN
    OBVIOUS
  <2>. QED
    BY <1>2, <2>1, RunOneEffect, GetTargetEffect, AdvanceEffect, ReadEffect, ReadFailsEffect,
       FinishEffect, CleanupEffect, CleanupFailsEffect, ConfirmEffect, SettleEffect DEF WorkerStep
<1>3. ASSUME NEW v \in Versions, NEW k \in JobKinds,
             Enqueue(v, k) \/ RequestCancel(v, k) \/ LeaseRunsOut(v, k) \/ LeaseStalls(v, k)
      PROVE  JobEffect
  BY <1>3, EnqueueEffect, RequestCancelEffect, LeaseEffect
<1>. QED
  BY <1>1, <1>2, <1>3 DEF JobNext

-----------------------------------------------------------------------------
(* Requests on uploads *)

HandlerType == {Idle} \cup Chunking \cup Completing
StagedType == [Versions -> Seq(1..Chunks)]
ObjectType == [Versions -> {"none", "empty", "whole", "torn"}]

LEMMA UploadTypesBefore ==
    ASSUME SourcesTypeOK, PlacesOK
    PROVE  /\ source \in SourceRow /\ version \in [Versions -> VersionRow]
           /\ product \in ProductType
           /\ upload \in [Versions -> UploadType]
           /\ handler \in [Versions -> HandlerType]
           /\ quar \subseteq Versions /\ art \subseteq Versions
           /\ staged \in StagedType /\ object \in ObjectType
           /\ faults \in FaultType
BY DEF SourcesTypeOK, PlacesOK, ProductType, HandlerType, StagedType, ObjectType

LEMMA HandlerPlaces ==
    ASSUME SourcesTypeOK, PlacesOK, NEW v \in Versions
    PROVE  /\ handler[v] \in HandlerType
           /\ handler[v].at \in ChunkAt => handler[v] \in Chunking
           /\ handler[v].at \in CompleteAt => handler[v] \in Completing
BY DEF PlacesOK, HandlerType, Chunking, Completing, ChunkAt, CompleteAt, Placing, Idle

LEMMA ChunkSteps ==
    ASSUME NEW h \in Chunking, NEW at \in ChunkAt
    PROVE  /\ [h EXCEPT !.at = at] \in Chunking
           /\ [h EXCEPT !.at = at].at = at
           /\ [h EXCEPT !.at = at].offset = h.offset
BY DEF Chunking

LEMMA CompleteSteps ==
    ASSUME NEW h \in Completing, NEW at \in CompleteAt
    PROVE  /\ [h EXCEPT !.at = at] \in Completing
           /\ [h EXCEPT !.at = at].at = at
           /\ [h EXCEPT !.at = at].fresh = h.fresh
BY DEF Completing

LEMMA UploadStateSet ==
    ASSUME NEW u \in UploadType, NEW state \in UploadStates
    PROVE  /\ [u EXCEPT !.state = state] \in UploadType
           /\ [u EXCEPT !.state = state].state = state
           /\ [u EXCEPT !.state = state].offset = u.offset
BY DEF UploadType, UploadStates

LEMMA Reconciles ==
    ASSUME staged \in StagedType, NEW v \in Versions, NEW n \in 0..Chunks
    PROVE  /\ Reconciled(v, n) \in Seq(1..Chunks)
           /\ Len(staged[v]) >= n =>
                /\ Len(Reconciled(v, n)) = n
                /\ \A i \in 1..n : Reconciled(v, n)[i] = staged[v][i]
<1>1. staged[v] \in Seq(1..Chunks) /\ Len(staged[v]) \in Nat /\ n \in Nat
  BY SourceAssumption DEF StagedType
<1>2. CASE Short(v, n)
  BY <1>1, <1>2 DEF Reconciled, Short
<1>3. CASE ~Short(v, n)
  <2>1. n <= Len(staged[v])
    BY <1>1, <1>3 DEF Short
  <2>2. \A i \in 1..n : staged[v][i] \in 1..Chunks
    <3>1. 1..n \subseteq 1..Len(staged[v])
      BY <1>1, <2>1
    <3>. QED
      BY <1>1, <3>1, ElementOfSeq
  <2>3. /\ SubSeq(staged[v], 1, n) \in Seq(1..Chunks)
        /\ Len(SubSeq(staged[v], 1, n)) = n
        /\ \A i \in 1..n : SubSeq(staged[v], 1, n)[i] = staged[v][i]
    BY <1>1, <2>1, <2>2, SubSeqProperties
  <2>. QED
    BY <1>3, <2>3 DEF Reconciled
<1>. QED
  BY <1>2, <1>3

\* A step of uploads: types, and whose uploads may be under way after it.
UploadEffect ==
    /\ upload' \in [Versions -> UploadType] /\ handler' \in [Versions -> HandlerType]
    /\ quar' \subseteq Versions /\ art' = art
    /\ staged' \in StagedType /\ object' \in ObjectType
    /\ faults' \in FaultType
    /\ SameJobs
    /\ \A w \in Versions :
         /\ upload'[w].state \in {"open", "completing"} =>
              \/ upload[w].state \in {"open", "completing"}
              \/ source.deletion = "active" /\ ~version[w].there
         /\ handler'[w].at \in CompleteAt =>
              upload[w].state \in {"open", "completing"} \/ handler[w].at \in CompleteAt
         /\ upload'[w].state = "absent" /\ handler'[w].at # "idle" =>
              upload[w].state = "absent" /\ handler[w].at # "idle"

Elsewhere(v) ==
    \A w \in Versions \ {v} :
        upload'[w] = upload[w] /\ handler'[w] = handler[w] /\ staged'[w] = staged[w]

LEMMA BytesElsewhere ==
    ASSUME BytesKept, NEW v \in Versions, Elsewhere(v), Bytes(v)'
    PROVE  BytesKept'
BY DEF BytesKept, Bytes, Prefix, Placing, Elsewhere

LEMMA HandlerServes ==
    ASSUME SourcesTypeOK, PlacesOK, NEW v \in Versions, NEW new \in HandlerType, Serve(v, new)
    PROVE  /\ handler' \in [Versions -> HandlerType] /\ handler'[v] = new
           /\ \A w \in Versions \ {v} : handler'[w] = handler[w]
BY UploadTypesBefore DEF Serve

LEMMA ChunkGoes ==
    ASSUME SourcesTypeOK, PlacesOK, NEW v \in Versions, handler[v].at \in ChunkAt,
           NEW at \in ChunkAt, Step(v, at)
    PROVE  /\ handler' \in [Versions -> HandlerType]
           /\ handler'[v].at = at /\ handler'[v].offset = handler[v].offset
           /\ \A w \in Versions \ {v} : handler'[w] = handler[w]
<1> DEFINE new == [handler[v] EXCEPT !.at = at]
<1>1. handler[v] \in Chunking
  BY HandlerPlaces
<1>2. new \in Chunking /\ new.at = at /\ new.offset = handler[v].offset
  BY <1>1, ChunkSteps
<1>3. Serve(v, new)
  BY DEF Step
<1> HIDE DEF new
<1>4. new \in HandlerType
  BY <1>2 DEF HandlerType
<1>. QED
  BY <1>2, <1>3, <1>4, HandlerServes

LEMMA CompletionGoes ==
    ASSUME SourcesTypeOK, PlacesOK, NEW v \in Versions, handler[v].at \in CompleteAt,
           NEW at \in CompleteAt, Step(v, at)
    PROVE  /\ handler' \in [Versions -> HandlerType]
           /\ handler'[v].at = at /\ handler'[v].fresh = handler[v].fresh
           /\ \A w \in Versions \ {v} : handler'[w] = handler[w]
<1> DEFINE new == [handler[v] EXCEPT !.at = at]
<1>1. handler[v] \in Completing
  BY HandlerPlaces
<1>2. new \in Completing /\ new.at = at /\ new.fresh = handler[v].fresh
  BY <1>1, CompleteSteps
<1>3. Serve(v, new)
  BY DEF Step
<1> HIDE DEF new
<1>4. new \in HandlerType
  BY <1>2 DEF HandlerType
<1>. QED
  BY <1>2, <1>3, <1>4, HandlerServes

LEMMA HandlerEnds ==
    ASSUME SourcesTypeOK, PlacesOK, NEW v \in Versions, Done(v)
    PROVE  /\ handler' \in [Versions -> HandlerType] /\ handler'[v] = Idle
           /\ \A w \in Versions \ {v} : handler'[w] = handler[w]
<1>1. Idle \in HandlerType
  BY DEF HandlerType
<1>. QED
  BY <1>1, HandlerServes DEF Done

LEMMA UploadStateGoes ==
    ASSUME SourcesTypeOK, PlacesOK, NEW v \in Versions, NEW state \in UploadStates,
           SetUpload(v, [upload[v] EXCEPT !.state = state])
    PROVE  /\ upload' \in [Versions -> UploadType]
           /\ upload'[v].state = state /\ upload'[v].offset = upload[v].offset
           /\ \A w \in Versions \ {v} : upload'[w] = upload[w]
<1> DEFINE new == [upload[v] EXCEPT !.state = state]
<1>1. upload \in [Versions -> UploadType] /\ upload[v] \in UploadType
  BY UploadTypesBefore
<1>2. new \in UploadType /\ new.state = state /\ new.offset = upload[v].offset
  BY <1>1, UploadStateSet
<1>3. upload' = [upload EXCEPT ![v] = new]
  BY DEF SetUpload
<1> HIDE DEF new
<1>. QED
  BY <1>1, <1>2, <1>3

LEMMA CreateEffect ==
    ASSUME SourcesTypeOK, PlacesOK, RevisionsKept, NEW v \in Versions, CreateUpload(v)
    PROVE  UploadEffect /\ (BytesKept => BytesKept')
<1> USE UploadTypesBefore
<1> DEFINE one == [NoUpload EXCEPT !.state = "open"]
           two == [one EXCEPT !.revision = source.revision]
           new == [two EXCEPT !.base = source.current]
<1>1. NoUpload \in UploadType
  <2>1. 0 \in 0..Chunks /\ 0 \in Nat
    BY SourceAssumption
  <2>. QED
    BY <2>1 DEF NoUpload, UploadType
<1>2. one \in UploadType
  BY <1>1, UploadStateSet DEF UploadStates
<1>3. source.revision \in Nat /\ source.current \in Versions \cup {NoVersion}
  BY DEF SourceRow
<1>4. two \in UploadType
  <2> HIDE DEF one
  <2>. QED
    BY <1>2, <1>3 DEF UploadType
<1>5. new \in UploadType /\ new.offset = 0 /\ new.state = "open"
  <2>1. two.offset = 0 /\ two.state = "open"
    BY <1>1 DEF NoUpload, UploadType
  <2> HIDE DEF two
  <2>. QED
    BY <1>3, <1>4, <2>1 DEF UploadType
<1>6. upload' = [upload EXCEPT ![v] = new]
  BY <1>1 DEF CreateUpload, SetUpload, UploadType
<1> HIDE DEF new
<1>7. /\ upload' \in [Versions -> UploadType]
      /\ upload'[v].offset = 0 /\ upload'[v].state = "open"
      /\ \A w \in Versions \ {v} : upload'[w] = upload[w]
  BY <1>5, <1>6
<1>8. /\ UNCHANGED <<source, version, product, handler, byteVars, faults>> /\ SameJobs
      /\ source.deletion = "active" /\ ~version[v].there
  BY DEF CreateUpload
<1>9. UploadEffect
  BY <1>7, <1>8 DEF UploadEffect, byteVars
<1>10. handler[v].at = "idle"
  BY DEF CreateUpload, RevisionsKept, Kept
<1>11. Len(staged[v]) >= 0
  BY DEF StagedType
<1>12. Elsewhere(v) /\ Bytes(v)'
  BY <1>7, <1>8, <1>10, <1>11 DEF Elsewhere, Bytes, Prefix, Placing, byteVars
<1>. QED
  BY <1>9, <1>12, BytesElsewhere

LEMMA ExpireEffect ==
    ASSUME SourcesTypeOK, PlacesOK, NEW v \in Versions, ExpireUpload(v)
    PROVE  UploadEffect /\ (BytesKept => BytesKept')
<1> USE UploadTypesBefore
<1>1. /\ upload' \in [Versions -> UploadType] /\ upload'[v].state = "expired"
      /\ \A w \in Versions \ {v} : upload'[w] = upload[w]
  BY UploadStateGoes DEF ExpireUpload, UploadStates
<1>2. UNCHANGED <<source, version, product, handler, byteVars, faults>> /\ SameJobs
  BY DEF ExpireUpload
<1>3. UploadEffect
  BY <1>1, <1>2 DEF UploadEffect, byteVars
<1>4. Elsewhere(v) /\ Bytes(v)'
  BY <1>1, <1>2 DEF Elsewhere, Bytes, Placing, byteVars
<1>. QED
  BY <1>3, <1>4, BytesElsewhere

LEMMA BeginChunkEffect ==
    ASSUME SourcesTypeOK, PlacesOK, NEW v \in Versions, BeginChunk(v)
    PROVE  UploadEffect /\ (BytesKept => BytesKept')
<1> USE UploadTypesBefore
<1>1. PICK offset \in 0..(Chunks - 1) : Serve(v, [at |-> "receive", offset |-> offset])
  BY DEF BeginChunk
<1>2. [at |-> "receive", offset |-> offset] \in HandlerType
  BY DEF HandlerType, Chunking, ChunkAt
<1>3. /\ handler' \in [Versions -> HandlerType] /\ handler'[v].at = "receive"
      /\ \A w \in Versions \ {v} : handler'[w] = handler[w]
  BY <1>1, <1>2, HandlerServes
<1>4. /\ UNCHANGED <<source, version, product, upload, byteVars, faults>> /\ SameJobs
      /\ upload[v].state = "open"
  BY DEF BeginChunk
<1>5. UploadEffect
  BY <1>3, <1>4 DEF UploadEffect, byteVars, CompleteAt, Placing
<1>6. Elsewhere(v) /\ (Bytes(v) => Bytes(v)')
  BY <1>3, <1>4 DEF Elsewhere, Bytes, Prefix, Placing, byteVars
<1>. QED
  BY <1>5, <1>6, BytesElsewhere DEF BytesKept

LEMMA ReceiveEffect ==
    ASSUME SourcesTypeOK, PlacesOK, NEW v \in Versions, Receive(v)
    PROVE  UploadEffect /\ (BytesKept => BytesKept')
<1> USE UploadTypesBefore
<1>1. handler[v].at \in ChunkAt
  BY DEF Receive, ChunkAt
<1>2. /\ handler' \in [Versions -> HandlerType] /\ handler'[v].at \in {"locked", "idle"}
      /\ \A w \in Versions \ {v} : handler'[w] = handler[w]
      /\ quar' \subseteq Versions
  <2>1. CASE Done(v) /\ UNCHANGED quar
    BY <2>1, HandlerEnds DEF Idle
  <2>2. CASE quar' = quar \cup {v} /\ Step(v, "locked")
    <3>1. "locked" \in ChunkAt
      BY DEF ChunkAt
    <3>. QED
      BY <1>1, <2>2, <3>1, ChunkGoes
  <2>. QED
    BY <2>1, <2>2 DEF Receive
<1>3. UNCHANGED <<source, version, product, upload, staged, object, art, faults>> /\ SameJobs
  BY DEF Receive
<1>4. UploadEffect
  BY <1>1, <1>2, <1>3 DEF UploadEffect, CompleteAt, Placing, ChunkAt
<1>5. Elsewhere(v) /\ (Bytes(v) => Bytes(v)')
  BY <1>2, <1>3 DEF Elsewhere, Bytes, Prefix, Placing
<1>. QED
  BY <1>4, <1>5, BytesElsewhere DEF BytesKept

LEMMA EnterChunkEffect ==
    ASSUME SourcesTypeOK, PlacesOK, NEW v \in Versions, EnterChunk(v)
    PROVE  UploadEffect /\ (BytesKept => BytesKept')
<1> USE UploadTypesBefore
<1>1. handler[v].at \in ChunkAt /\ "append" \in ChunkAt /\ "discard" \in ChunkAt
  BY DEF EnterChunk, ChunkAt
<1>2. UNCHANGED <<source, version, product, upload, quar, object, art, faults>> /\ SameJobs
  BY DEF EnterChunk
<1>3. CASE Step(v, "discard") /\ UNCHANGED staged
  <2>1. /\ handler' \in [Versions -> HandlerType] /\ handler'[v].at = "discard"
        /\ \A w \in Versions \ {v} : handler'[w] = handler[w]
    BY <1>1, <1>3, ChunkGoes
  <2>2. UploadEffect
    BY <1>1, <1>2, <1>3, <2>1 DEF UploadEffect, CompleteAt, Placing, ChunkAt
  <2>3. Elsewhere(v) /\ (Bytes(v) => Bytes(v)')
    BY <1>2, <1>3, <2>1 DEF Elsewhere, Bytes, Prefix, Placing
  <2>. QED
    BY <2>2, <2>3, BytesElsewhere DEF BytesKept
<1>4. CASE /\ handler[v].offset = upload[v].offset /\ ~Short(v, upload[v].offset)
           /\ staged' = [staged EXCEPT ![v] = Reconciled(v, upload[v].offset)]
           /\ Step(v, "append")
  <2>1. /\ handler' \in [Versions -> HandlerType] /\ handler'[v].at = "append"
        /\ handler'[v].offset = upload[v].offset
        /\ \A w \in Versions \ {v} : handler'[w] = handler[w]
    BY <1>1, <1>4, ChunkGoes
  <2>2. upload[v].offset \in 0..Chunks
    BY DEF UploadType
  <2>3. Len(staged[v]) >= upload[v].offset
    <3>1. Len(staged[v]) \in Nat /\ upload[v].offset \in Int
      BY <2>2 DEF StagedType
    <3>. QED
      BY <1>4, <3>1 DEF Short
  <2> DEFINE s == Reconciled(v, upload[v].offset)
  <2>4. /\ s \in Seq(1..Chunks)
        /\ Len(s) = upload[v].offset
        /\ \A i \in 1..upload[v].offset : s[i] = staged[v][i]
    BY <2>2, <2>3, Reconciles
  <2>5. staged' = [staged EXCEPT ![v] = s]
    BY <1>4
  <2> HIDE DEF s
  <2>6. staged' \in StagedType /\ staged'[v] = s /\ \A w \in Versions \ {v} : staged'[w] = staged[w]
    BY <2>4, <2>5 DEF StagedType
  <2>7. UploadEffect
    BY <1>1, <1>2, <2>1, <2>6 DEF UploadEffect, CompleteAt, Placing, ChunkAt
  <2>8. Elsewhere(v)
    BY <1>2, <2>1, <2>6 DEF Elsewhere
  <2>9. Bytes(v) => Bytes(v)'
    <3> SUFFICES ASSUME Bytes(v), upload'[v].state = "open"
                 PROVE  Bytes(v)'
      BY DEF Bytes
    <3>1. \A i \in 1..upload[v].offset : staged[v][i] = i
      BY <1>2 DEF Bytes, Prefix, Placing
    <3>2. Prefix(v, upload[v].offset)'
      BY <1>2, <2>2, <2>4, <2>6, <3>1 DEF Prefix
    <3>. QED
      BY <1>2, <2>1, <2>4, <2>6, <3>2 DEF Bytes, Placing
  <2>. QED
    BY <2>7, <2>8, <2>9, BytesElsewhere DEF BytesKept
<1>. QED
  BY <1>3, <1>4 DEF EnterChunk

LEMMA AppendChunkEffect ==
    ASSUME SourcesTypeOK, PlacesOK, NEW v \in Versions, AppendChunk(v)
    PROVE  UploadEffect /\ (BytesKept => BytesKept')
<1> USE UploadTypesBefore
<1>1. handler[v].at \in ChunkAt /\ "advance" \in ChunkAt /\ "discard" \in ChunkAt /\ handler[v].at = "append"
  BY DEF AppendChunk, ChunkAt
<1>2. UNCHANGED <<source, version, product, upload, quar, object, art, faults>> /\ SameJobs
  BY DEF AppendChunk
<1>3. CASE Step(v, "discard") /\ UNCHANGED staged
  <2>1. /\ handler' \in [Versions -> HandlerType] /\ handler'[v].at = "discard"
        /\ \A w \in Versions \ {v} : handler'[w] = handler[w]
    BY <1>1, <1>3, ChunkGoes
  <2>2. UploadEffect
    BY <1>1, <1>2, <1>3, <2>1 DEF UploadEffect, CompleteAt, Placing, ChunkAt
  <2>3. Elsewhere(v) /\ (Bytes(v) => Bytes(v)')
    BY <1>2, <1>3, <2>1 DEF Elsewhere, Bytes, Prefix, Placing
  <2>. QED
    BY <2>2, <2>3, BytesElsewhere DEF BytesKept
<1>4. CASE /\ staged' = [staged EXCEPT ![v] = Append(@, handler[v].offset + 1)]
           /\ Step(v, "advance")
  <2>1. /\ handler' \in [Versions -> HandlerType] /\ handler'[v].at = "advance"
        /\ handler'[v].offset = handler[v].offset
        /\ \A w \in Versions \ {v} : handler'[w] = handler[w]
    BY <1>1, <1>4, ChunkGoes
  <2>2. handler[v].offset \in 0..(Chunks - 1)
    BY <1>1, HandlerPlaces DEF Chunking
  <2> DEFINE n == handler[v].offset
             s == Append(staged[v], n + 1)
  <2>3. n \in Nat /\ n + 1 \in 1..Chunks
    BY <2>2, SourceAssumption
  <2>4. /\ s \in Seq(1..Chunks)
        /\ Len(s) = Len(staged[v]) + 1
        /\ s[Len(staged[v]) + 1] = n + 1
        /\ \A i \in 1..Len(staged[v]) : s[i] = staged[v][i]
        /\ Len(staged[v]) \in Nat
    <3>1. staged[v] \in Seq(1..Chunks)
      BY DEF StagedType
    <3> HIDE DEF n
    <3>. QED
      BY <2>3, <3>1, AppendProperties
  <2>5. staged' = [staged EXCEPT ![v] = s]
    BY <1>4
  <2> HIDE DEF s, n
  <2>6. staged' \in StagedType /\ staged'[v] = s /\ \A w \in Versions \ {v} : staged'[w] = staged[w]
    BY <2>4, <2>5 DEF StagedType
  <2>7. UploadEffect
    BY <1>1, <1>2, <2>1, <2>6 DEF UploadEffect, CompleteAt, Placing, ChunkAt
  <2>8. Elsewhere(v)
    BY <1>2, <2>1, <2>6 DEF Elsewhere
  <2>9. Bytes(v) => Bytes(v)'
    <3> SUFFICES ASSUME Bytes(v), upload'[v].state = "open"
                 PROVE  Bytes(v)'
      BY DEF Bytes
    <3>1. /\ n = upload[v].offset /\ Len(staged[v]) = n
          /\ \A i \in 1..n : staged[v][i] = i
      BY <1>1, <1>2 DEF Bytes, Prefix, Placing, n
    <3>2. \A i \in 1..(n + 1) : s[i] = i
      <4>1. ASSUME NEW i \in 1..(n + 1)
            PROVE  s[i] = i
        <5>1. CASE i = n + 1
          BY <2>4, <3>1, <5>1
        <5>2. CASE i # n + 1
          <6>1. i \in 1..n
            BY <2>3, <4>1, <5>2
          <6>. QED
            BY <2>4, <3>1, <6>1
        <5>. QED
          BY <5>1, <5>2
      <4>. QED
        BY <4>1
    <3>3. Len(s) = n + 1 /\ \A i \in 1..n : s[i] = i
      BY <2>3, <2>4, <3>1, <3>2
    <3>4. upload'[v].offset = n /\ handler'[v].offset = n
      BY <1>2, <2>1, <3>1 DEF n
    <3>. QED
      BY <2>1, <2>3, <2>6, <3>2, <3>3, <3>4 DEF Bytes, Prefix, Placing
  <2>. QED
    BY <2>7, <2>8, <2>9, BytesElsewhere DEF BytesKept
<1>. QED
  BY <1>3, <1>4 DEF AppendChunk

LEMMA AdvanceChunkEffect ==
    ASSUME SourcesTypeOK, PlacesOK, NEW v \in Versions, AdvanceChunk(v)
    PROVE  UploadEffect /\ (BytesKept => BytesKept')
<1> USE UploadTypesBefore
<1>1. handler[v].at \in ChunkAt /\ "discard" \in ChunkAt /\ handler[v].at = "advance"
  BY DEF AdvanceChunk, ChunkAt
<1>2. UNCHANGED <<source, version, product, quar, object, art>> /\ SameJobs
  BY DEF AdvanceChunk
<1>3. /\ handler' \in [Versions -> HandlerType] /\ handler'[v].at = "discard"
      /\ \A w \in Versions \ {v} : handler'[w] = handler[w]
  BY <1>1, ChunkGoes DEF AdvanceChunk
<1>4. handler[v].offset \in 0..(Chunks - 1)
  BY <1>1, HandlerPlaces DEF Chunking
<1>5. upload[v] \in UploadType /\ upload[v].offset \in 0..Chunks
  BY DEF UploadType
<1>6. CASE /\ upload[v].state = "open" /\ upload[v].offset = handler[v].offset
           /\ SetUpload(v, [upload[v] EXCEPT !.offset = @ + 1])
           /\ UNCHANGED <<staged, faults>>
  <2> DEFINE new == [upload[v] EXCEPT !.offset = @ + 1]
  <2>1. upload[v].offset + 1 \in 0..Chunks
    BY <1>4, <1>6, SourceAssumption
  <2>2. new \in UploadType /\ new.offset = upload[v].offset + 1 /\ new.state = "open"
    BY <1>5, <1>6, <2>1 DEF UploadType
  <2>3. upload' = [upload EXCEPT ![v] = new]
    BY <1>6 DEF SetUpload
  <2> HIDE DEF new
  <2>4. /\ upload' \in [Versions -> UploadType] /\ upload'[v] = new
        /\ \A w \in Versions \ {v} : upload'[w] = upload[w]
    BY <2>2, <2>3
  <2>5. UploadEffect
    BY <1>1, <1>2, <1>3, <1>6, <2>2, <2>4 DEF UploadEffect, CompleteAt, Placing, ChunkAt
  <2>6. Elsewhere(v)
    BY <1>3, <1>6, <2>4 DEF Elsewhere
  <2>7. Bytes(v) => Bytes(v)'
    BY <1>1, <1>3, <1>6, <2>2, <2>4 DEF Bytes, Prefix, Placing
  <2>. QED
    BY <2>5, <2>6, <2>7, BytesElsewhere DEF BytesKept
<1>7. CASE /\ IF upload[v].state = "open" THEN Fault ELSE UNCHANGED faults
           /\ staged' = [staged EXCEPT ![v] = Reconciled(v, handler[v].offset)]
           /\ UNCHANGED upload
  <2> DEFINE n == handler[v].offset
             s == Reconciled(v, n)
  <2>1. n \in 0..Chunks
    BY <1>4, SourceAssumption
  <2>2. /\ s \in Seq(1..Chunks)
        /\ Len(staged[v]) >= n => Len(s) = n /\ \A i \in 1..n : s[i] = staged[v][i]
    BY <2>1, Reconciles
  <2>3. staged' = [staged EXCEPT ![v] = s]
    BY <1>7
  <2> HIDE DEF s
  <2>4. staged' \in StagedType /\ staged'[v] = s /\ \A w \in Versions \ {v} : staged'[w] = staged[w]
    BY <2>2, <2>3 DEF StagedType
  <2>5. UploadEffect
    BY <1>1, <1>2, <1>3, <1>7, <2>4, FaultCounted DEF UploadEffect, CompleteAt, Placing, ChunkAt
  <2>6. Elsewhere(v)
    BY <1>3, <1>7, <2>4 DEF Elsewhere
  <2>7. Bytes(v) => Bytes(v)'
    <3> SUFFICES ASSUME Bytes(v), upload'[v].state = "open"
                 PROVE  Bytes(v)'
      BY DEF Bytes
    <3>1. n = upload[v].offset /\ Len(staged[v]) >= n /\ \A i \in 1..n : staged[v][i] = i
      BY <1>1, <1>7 DEF Bytes, Prefix, Placing
    <3>2. Len(s) = n /\ \A i \in 1..n : s[i] = i
      BY <2>2, <3>1
    <3>. QED
      BY <1>3, <1>7, <2>1, <2>4, <3>1, <3>2 DEF Bytes, Prefix, Placing
  <2>. QED
    BY <2>5, <2>6, <2>7, BytesElsewhere DEF BytesKept
<1>. QED
  BY <1>6, <1>7 DEF AdvanceChunk

LEMMA DiscardEffect ==
    ASSUME SourcesTypeOK, PlacesOK, NEW v \in Versions, Discard(v)
    PROVE  UploadEffect /\ (BytesKept => BytesKept')
<1> USE UploadTypesBefore
<1>1. /\ handler' \in [Versions -> HandlerType] /\ handler'[v].at = "idle"
      /\ \A w \in Versions \ {v} : handler'[w] = handler[w]
  BY HandlerEnds DEF Discard, Idle
<1>2. UNCHANGED <<source, version, product, upload, staged, object, art, faults>> /\ SameJobs
  BY DEF Discard
<1>3. quar' \subseteq Versions
  BY DEF Discard
<1>4. UploadEffect
  BY <1>1, <1>2, <1>3 DEF UploadEffect, CompleteAt, Placing
<1>5. Elsewhere(v) /\ (Bytes(v) => Bytes(v)')
  BY <1>1, <1>2 DEF Elsewhere, Bytes, Prefix, Placing
<1>. QED
  BY <1>4, <1>5, BytesElsewhere DEF BytesKept

LEMMA UploadFails ==
    ASSUME SourcesTypeOK, PlacesOK, NEW v \in Versions, MarkFailed(v)
    PROVE  /\ upload' \in [Versions -> UploadType] /\ upload'[v].state = "failed"
           /\ \A w \in Versions \ {v} : upload'[w] = upload[w]
<1>1. "failed" \in UploadStates
  BY DEF UploadStates
<1>. QED
  BY <1>1, UploadStateGoes DEF MarkFailed

LEMMA BeginCompleteEffect ==
    ASSUME SourcesTypeOK, PlacesOK, NEW v \in Versions, BeginComplete(v)
    PROVE  UploadEffect /\ (BytesKept => BytesKept')
<1> USE UploadTypesBefore
<1>1. UNCHANGED <<source, version, product, quar, object, art, faults>> /\ SameJobs
  BY DEF BeginComplete
<1>2. handler[v].at = "idle" /\ upload[v].state \in {"open", "completing"}
  BY DEF BeginComplete
<1>3. CASE /\ upload[v].state = "open" /\ upload[v].offset = Chunks
           /\ staged' = [staged EXCEPT ![v] = Reconciled(v, Chunks)]
           /\ \/ Serve(v, Complete("begin", TRUE)) /\ UNCHANGED upload
              \/ MarkFailed(v) /\ UNCHANGED handler
  <2> DEFINE s == Reconciled(v, Chunks)
  <2>1. Chunks \in 0..Chunks
    BY SourceAssumption
  <2>2. /\ s \in Seq(1..Chunks)
        /\ Len(staged[v]) >= Chunks => Len(s) = Chunks /\ \A i \in 1..Chunks : s[i] = staged[v][i]
    BY <2>1, Reconciles
  <2>3. staged' = [staged EXCEPT ![v] = s]
    BY <1>3
  <2> HIDE DEF s
  <2>4. staged' \in StagedType /\ staged'[v] = s /\ \A w \in Versions \ {v} : staged'[w] = staged[w]
    BY <2>2, <2>3 DEF StagedType
  <2>5. CASE Serve(v, Complete("begin", TRUE)) /\ UNCHANGED upload
    <3>1. Complete("begin", TRUE) \in HandlerType /\ Complete("begin", TRUE).at = "begin"
      BY DEF Complete, HandlerType, Completing, CompleteAt
    <3>2. /\ handler' \in [Versions -> HandlerType] /\ handler'[v].at = "begin"
          /\ \A w \in Versions \ {v} : handler'[w] = handler[w]
      BY <2>5, <3>1, HandlerServes
    <3>3. UploadEffect
      BY <1>1, <1>2, <2>4, <2>5, <3>2 DEF UploadEffect
    <3>4. Elsewhere(v)
      BY <2>4, <2>5, <3>2 DEF Elsewhere
    <3>5. Bytes(v) => Bytes(v)'
      BY <1>3, <2>1, <2>2, <2>4, <2>5, <3>2 DEF Bytes, Prefix, Placing
    <3>. QED
      BY <3>3, <3>4, <3>5, BytesElsewhere DEF BytesKept
  <2>6. CASE MarkFailed(v) /\ UNCHANGED handler
    <3>1. /\ upload' \in [Versions -> UploadType] /\ upload'[v].state = "failed"
          /\ \A w \in Versions \ {v} : upload'[w] = upload[w]
      BY <2>6, UploadFails
    <3>2. UploadEffect
      BY <1>1, <1>2, <2>4, <2>6, <3>1 DEF UploadEffect
    <3>3. Elsewhere(v) /\ Bytes(v)'
      BY <2>4, <2>6, <3>1 DEF Elsewhere, Bytes
    <3>. QED
      BY <3>2, <3>3, BytesElsewhere
  <2>. QED
    BY <1>3, <2>5, <2>6
<1>4. CASE /\ upload[v].state = "completing"
           /\ Serve(v, Complete("directory", FALSE))
           /\ UNCHANGED <<upload, staged>>
  <2>1. /\ Complete("directory", FALSE) \in HandlerType
        /\ Complete("directory", FALSE).at = "directory"
    BY DEF Complete, HandlerType, Completing, CompleteAt, Placing
  <2>2. /\ handler' \in [Versions -> HandlerType] /\ handler'[v].at = "directory"
        /\ \A w \in Versions \ {v} : handler'[w] = handler[w]
    BY <1>4, <2>1, HandlerServes
  <2>3. UploadEffect
    BY <1>1, <1>2, <1>4, <2>2 DEF UploadEffect
  <2>4. Elsewhere(v) /\ Bytes(v)'
    BY <1>4, <2>2 DEF Elsewhere, Bytes
  <2>. QED
    BY <2>3, <2>4, BytesElsewhere
<1>. QED
  BY <1>3, <1>4 DEF BeginComplete

LEMMA BeginCompletionEffect ==
    ASSUME SourcesTypeOK, PlacesOK, NEW v \in Versions, BeginCompletion(v)
    PROVE  UploadEffect /\ (BytesKept => BytesKept')
<1> USE UploadTypesBefore
<1>1. UNCHANGED <<source, version, product, byteVars, faults>> /\ SameJobs
  BY DEF BeginCompletion
<1>2. handler[v].at = "begin" /\ handler[v].at \in CompleteAt /\ "directory" \in CompleteAt
  BY DEF BeginCompletion, CompleteAt, Placing
<1>3. CASE /\ upload[v].state = "open"
           /\ SetUpload(v, [upload[v] EXCEPT !.state = "completing", !.pending = TRUE])
           /\ Step(v, "directory")
  <2> DEFINE one == [upload[v] EXCEPT !.state = "completing"]
             new == [one EXCEPT !.pending = TRUE]
  <2>1. upload[v] \in UploadType
    OBVIOUS
  <2>2. one \in UploadType /\ one.state = "completing"
    BY <2>1, UploadStateSet DEF UploadStates
  <2>3. new \in UploadType /\ new.state = "completing"
    <3> HIDE DEF one
    <3>. QED
      BY <2>2, Zenon DEF UploadType
  <2>4. upload' = [upload EXCEPT ![v] = new]
    BY <1>3, <2>1 DEF SetUpload, UploadType
  <2> HIDE DEF new
  <2>5. /\ upload' \in [Versions -> UploadType] /\ upload'[v].state = "completing"
        /\ \A w \in Versions \ {v} : upload'[w] = upload[w]
    BY <2>3, <2>4
  <2>6. /\ handler' \in [Versions -> HandlerType] /\ handler'[v].at = "directory"
        /\ \A w \in Versions \ {v} : handler'[w] = handler[w]
    BY <1>2, <1>3, CompletionGoes
  <2>7. UploadEffect
    BY <1>1, <1>2, <1>3, <2>5, <2>6 DEF UploadEffect, byteVars
  <2>8. Elsewhere(v) /\ Bytes(v)'
    BY <1>1, <2>5, <2>6 DEF Elsewhere, Bytes, byteVars
  <2>. QED
    BY <2>7, <2>8, BytesElsewhere
<1>4. CASE Done(v) /\ UNCHANGED upload
  <2>1. /\ handler' \in [Versions -> HandlerType] /\ handler'[v].at = "idle"
        /\ \A w \in Versions \ {v} : handler'[w] = handler[w]
    BY <1>4, HandlerEnds DEF Idle
  <2>2. UploadEffect
    BY <1>1, <1>4, <2>1 DEF UploadEffect, byteVars, CompleteAt, Placing
  <2>3. Elsewhere(v) /\ (Bytes(v) => Bytes(v)')
    BY <1>1, <1>4, <2>1 DEF Elsewhere, Bytes, Prefix, Placing, byteVars
  <2>. QED
    BY <2>2, <2>3, BytesElsewhere DEF BytesKept
<1>. QED
  BY <1>3, <1>4 DEF BeginCompletion

LEMMA PlaceDirectoryEffect ==
    ASSUME SourcesTypeOK, PlacesOK, NEW v \in Versions, PlaceDirectory(v)
    PROVE  UploadEffect /\ (BytesKept => BytesKept')
<1> USE UploadTypesBefore
<1>1. UNCHANGED <<source, version, product, upload, quar, staged, art, faults>> /\ SameJobs
  BY DEF PlaceDirectory
<1>2. /\ handler[v].at \in CompleteAt /\ "rename" \in CompleteAt /\ "rename" \in Placing
      /\ handler[v].at \in Placing /\ handler[v].at # "idle"
  BY DEF PlaceDirectory, CompleteAt, Placing
<1>3. /\ handler' \in [Versions -> HandlerType] /\ handler'[v].at = "rename"
      /\ \A w \in Versions \ {v} : handler'[w] = handler[w]
  BY <1>2, CompletionGoes DEF PlaceDirectory
<1>4. object' \in ObjectType
  BY DEF PlaceDirectory, ObjectType
<1>5. UploadEffect
  BY <1>1, <1>2, <1>3, <1>4 DEF UploadEffect
<1>6. Elsewhere(v) /\ (Bytes(v) => Bytes(v)')
  BY <1>1, <1>2, <1>3 DEF Elsewhere, Bytes
<1>. QED
  BY <1>5, <1>6, BytesElsewhere DEF BytesKept

LEMMA RenameEffect ==
    ASSUME SourcesTypeOK, PlacesOK, NEW v \in Versions, Rename(v)
    PROVE  UploadEffect /\ (BytesKept => BytesKept')
<1> USE UploadTypesBefore
<1>1. UNCHANGED <<source, version, product, upload, quar, art, faults>> /\ SameJobs
  BY DEF Rename
<1>2. /\ handler[v].at \in CompleteAt /\ "inspect" \in CompleteAt
      /\ handler[v].at \in Placing /\ handler[v].at # "idle"
  BY DEF Rename, CompleteAt, Placing
<1>3. /\ handler' \in [Versions -> HandlerType]
      /\ \A w \in Versions \ {v} : handler'[w] = handler[w]
  BY <1>2, CompletionGoes, HandlerEnds DEF Rename
<1>4. object' \in ObjectType
  BY DEF Rename, ObjectType
<1>5. staged' \in StagedType /\ \A w \in Versions \ {v} : staged'[w] = staged[w]
  <2>1. <<>> \in Seq(1..Chunks)
    BY EmptySeq
  <2>. QED
    BY <2>1 DEF Rename, StagedType
<1>6. UploadEffect
  BY <1>1, <1>2, <1>3, <1>4, <1>5 DEF UploadEffect
<1>7. Elsewhere(v) /\ (Bytes(v) => Bytes(v)')
  BY <1>1, <1>2, <1>3, <1>5 DEF Elsewhere, Bytes
<1>. QED
  BY <1>6, <1>7, BytesElsewhere DEF BytesKept

LEMMA InspectPlacedEffect ==
    ASSUME SourcesTypeOK, PlacesOK, NEW v \in Versions, InspectPlaced(v)
    PROVE  UploadEffect /\ (BytesKept => BytesKept')
<1> USE UploadTypesBefore
<1>1. UNCHANGED <<source, version, product, byteVars, faults>> /\ SameJobs
  BY DEF InspectPlaced
<1>2. /\ handler[v].at \in CompleteAt /\ "finish" \in CompleteAt
      /\ handler[v].at \in Placing /\ handler[v].at # "idle"
  BY DEF InspectPlaced, CompleteAt, Placing
<1>3. /\ handler' \in [Versions -> HandlerType]
      /\ \A w \in Versions \ {v} : handler'[w] = handler[w]
  BY <1>2, CompletionGoes, HandlerEnds DEF InspectPlaced
<1>4. /\ upload' \in [Versions -> UploadType]
      /\ upload'[v].state = "failed" \/ upload' = upload
      /\ \A w \in Versions \ {v} : upload'[w] = upload[w]
  BY UploadFails DEF InspectPlaced
<1>5. UploadEffect
  BY <1>1, <1>2, <1>3, <1>4 DEF UploadEffect, byteVars
<1>6. Elsewhere(v) /\ (Bytes(v) => Bytes(v)')
  BY <1>1, <1>2, <1>3, <1>4 DEF Elsewhere, Bytes, byteVars
<1>. QED
  BY <1>5, <1>6, BytesElsewhere DEF BytesKept

LEMMA WithdrawEffect ==
    ASSUME SourcesTypeOK, PlacesOK, NEW v \in Versions, Withdraw(v)
    PROVE  UploadEffect /\ (BytesKept => BytesKept')
<1> USE UploadTypesBefore
<1>1. UNCHANGED <<source, version, product, upload, quar, staged, art>> /\ SameJobs
  BY DEF Withdraw
<1>2. /\ handler[v].at \in CompleteAt /\ "fail" \in CompleteAt
      /\ handler[v].at \in Placing /\ handler[v].at # "idle"
  BY DEF Withdraw, CompleteAt, Placing
<1>3. /\ handler' \in [Versions -> HandlerType]
      /\ \A w \in Versions \ {v} : handler'[w] = handler[w]
  BY <1>2, CompletionGoes DEF Withdraw
<1>4. object' \in ObjectType /\ faults' \in FaultType
  BY FaultCounted DEF Withdraw, ObjectType
<1>5. UploadEffect
  BY <1>1, <1>2, <1>3, <1>4 DEF UploadEffect
<1>6. Elsewhere(v) /\ (Bytes(v) => Bytes(v)')
  BY <1>1, <1>2, <1>3 DEF Elsewhere, Bytes
<1>. QED
  BY <1>5, <1>6, BytesElsewhere DEF BytesKept

LEMMA FailUploadEffect ==
    ASSUME SourcesTypeOK, PlacesOK, NEW v \in Versions, FailUpload(v)
    PROVE  UploadEffect /\ (BytesKept => BytesKept')
<1> USE UploadTypesBefore
<1>1. UNCHANGED <<source, version, product, byteVars, faults>> /\ SameJobs
  BY DEF FailUpload
<1>2. handler[v].at \in CompleteAt /\ handler[v].at \in Placing /\ handler[v].at # "idle"
  BY DEF FailUpload, CompleteAt, Placing
<1>3. /\ handler' \in [Versions -> HandlerType]
      /\ \A w \in Versions \ {v} : handler'[w] = handler[w]
  BY HandlerEnds DEF FailUpload
<1>4. /\ upload' \in [Versions -> UploadType]
      /\ upload'[v].state = "failed" \/ upload' = upload
      /\ \A w \in Versions \ {v} : upload'[w] = upload[w]
  BY UploadFails DEF FailUpload
<1>5. UploadEffect
  BY <1>1, <1>2, <1>3, <1>4 DEF UploadEffect, byteVars
<1>6. Elsewhere(v) /\ (Bytes(v) => Bytes(v)')
  BY <1>1, <1>2, <1>3, <1>4 DEF Elsewhere, Bytes, byteVars
<1>. QED
  BY <1>5, <1>6, BytesElsewhere DEF BytesKept

\* A new version takes over.
Refreshes(v) ==
    /\ source' \in SourceRow /\ version' \in [Versions -> VersionRow] /\ product' \in ProductType
    /\ source.deletion = "active" /\ source'.deletion = "active"
    /\ source'.revision = source.revision + 1
    /\ source'.current = v /\ source'.inspection = "none"
    /\ handler[v].at = "finish"
    /\ handler'[v].at = "idle" /\ upload'[v].state = "completed"
    /\ version'[v].there
    /\ \A w \in Versions \ {v} : version'[w].there = version[w].there

SourceStays == UNCHANGED <<source, version, product>>

LEMMA FinishCompletionEffect ==
    ASSUME SourcesTypeOK, PlacesOK, NEW v \in Versions, FinishCompletion(v)
    PROVE  UploadEffect /\ (BytesKept => BytesKept') /\ (SourceStays \/ Refreshes(v))
<1> USE UploadTypesBefore
<1>1. UNCHANGED <<byteVars, faults>> /\ SameJobs
  BY DEF FinishCompletion
<1>2. /\ handler[v].at \in CompleteAt /\ "withdraw" \in CompleteAt /\ handler[v].at = "finish"
      /\ handler[v].at \in Placing /\ handler[v].at # "idle"
  BY DEF FinishCompletion, CompleteAt, Placing
<1>3. CASE /\ Step(v, "withdraw") \/ Done(v)
           /\ UNCHANGED <<source, version, product, upload>>
  <2>1. /\ handler' \in [Versions -> HandlerType]
        /\ \A w \in Versions \ {v} : handler'[w] = handler[w]
    BY <1>2, <1>3, CompletionGoes, HandlerEnds
  <2>2. UploadEffect
    BY <1>1, <1>2, <1>3, <2>1 DEF UploadEffect, byteVars
  <2>3. Elsewhere(v) /\ (Bytes(v) => Bytes(v)')
    BY <1>1, <1>2, <1>3, <2>1 DEF Elsewhere, Bytes, byteVars
  <2>. QED
    BY <1>3, <2>2, <2>3, BytesElsewhere DEF BytesKept, SourceStays
<1>4. CASE /\ source.deletion = "active"
           /\ source' = [source EXCEPT !.revision = @ + 1, !.current = v,
                                       !.inspection = "none", !.preparation = "none"]
           /\ version' = [version EXCEPT ![v].there = TRUE]
           /\ product' = [p \in Things |-> IF p[1] # v /\ product[p] = "current"
                                           THEN "stale" ELSE product[p]]
           /\ SetUpload(v, [upload[v] EXCEPT !.state = "completed"])
           /\ Done(v)
  <2>1. /\ handler' \in [Versions -> HandlerType] /\ handler'[v].at = "idle"
        /\ \A w \in Versions \ {v} : handler'[w] = handler[w]
    BY <1>4, HandlerEnds DEF Idle
  <2>2. /\ upload' \in [Versions -> UploadType] /\ upload'[v].state = "completed"
        /\ \A w \in Versions \ {v} : upload'[w] = upload[w]
    BY <1>4, UploadStateGoes DEF UploadStates
  <2>3. UploadEffect
    BY <1>1, <1>2, <2>1, <2>2 DEF UploadEffect, byteVars
  <2>4. Elsewhere(v) /\ Bytes(v)'
    BY <1>1, <2>1, <2>2 DEF Elsewhere, Bytes, byteVars
  <2>5. /\ source' \in SourceRow
        /\ source'.deletion = source.deletion /\ source'.revision = source.revision + 1
        /\ source'.current = v /\ source'.inspection = "none"
    <3> DEFINE one == [source EXCEPT !.revision = @ + 1]
               two == [one EXCEPT !.current = v]
               three == [two EXCEPT !.inspection = "none"]
    <3>1. /\ one \in SourceRow /\ one.deletion = source.deletion
          /\ one.revision = source.revision + 1
      BY DEF SourceRow
    <3>2. /\ two \in SourceRow /\ two.deletion = source.deletion
          /\ two.revision = source.revision + 1 /\ two.current = v
      <4> HIDE DEF one
      <4>. QED
        BY <3>1 DEF SourceRow
    <3>3. "none" \in Health
      BY DEF Health
    <3>4. /\ three \in SourceRow /\ three.deletion = source.deletion
          /\ three.revision = source.revision + 1 /\ three.current = v
          /\ three.inspection = "none"
      <4> HIDE DEF two
      <4>. QED
        BY <3>2, <3>3 DEF SourceRow
    <3>5. source' = [three EXCEPT !.preparation = "none"]
      BY <1>4 DEF SourceRow
    <3> HIDE DEF three
    <3>. QED
      BY <3>3, <3>4, <3>5 DEF SourceRow
  <2>6. /\ version' \in [Versions -> VersionRow] /\ version'[v].there
        /\ \A w \in Versions \ {v} : version'[w].there = version[w].there
    <3> DEFINE new == [version[v] EXCEPT !.there = TRUE]
    <3>1. version[v] \in VersionRow
      OBVIOUS
    <3>2. new \in VersionRow /\ new.there
      BY <3>1, Zenon DEF VersionRow
    <3>3. version' = [version EXCEPT ![v] = new]
      BY <1>4
    <3> HIDE DEF new
    <3>. QED
      BY <3>2, <3>3
  <2>7. product' \in ProductType
    BY <1>4 DEF ProductType
  <2>8. Refreshes(v)
    BY <1>2, <1>4, <2>1, <2>2, <2>5, <2>6, <2>7 DEF Refreshes
  <2>. QED
    BY <2>3, <2>4, <2>8, BytesElsewhere
<1>. QED
  BY <1>3, <1>4 DEF FinishCompletion

LEMMA UploadEffects ==
    ASSUME SourcesTypeOK, PlacesOK, RevisionsKept, UploadNext
    PROVE  /\ UploadEffect /\ (BytesKept => BytesKept')
           /\ SourceStays \/ \E v \in Versions : Refreshes(v)
<1>1. PICK v \in Versions :
        \/ CreateUpload(v) \/ ExpireUpload(v)
        \/ BeginChunk(v) \/ Receive(v) \/ EnterChunk(v) \/ AppendChunk(v) \/ AdvanceChunk(v) \/ Discard(v)
        \/ BeginComplete(v) \/ BeginCompletion(v) \/ PlaceDirectory(v) \/ Rename(v)
        \/ InspectPlaced(v) \/ FinishCompletion(v) \/ Withdraw(v) \/ FailUpload(v)
  BY DEF UploadNext
<1>2. CASE FinishCompletion(v)
  BY <1>2, FinishCompletionEffect
<1>3. CASE ~FinishCompletion(v)
  <2>1. SourceStays
    BY <1>1, <1>3 DEF SourceStays, CreateUpload, ExpireUpload, BeginChunk, Receive, EnterChunk,
       AppendChunk, AdvanceChunk, Discard, BeginComplete, BeginCompletion, PlaceDirectory, Rename,
       InspectPlaced, Withdraw, FailUpload
  <2>2. UploadEffect /\ (BytesKept => BytesKept')
    BY <1>1, <1>3, CreateEffect, ExpireEffect, BeginChunkEffect, ReceiveEffect, EnterChunkEffect,
       AppendChunkEffect, AdvanceChunkEffect, DiscardEffect, BeginCompleteEffect,
       BeginCompletionEffect, PlaceDirectoryEffect, RenameEffect, InspectPlacedEffect,
       WithdrawEffect, FailUploadEffect
  <2>. QED
    BY <2>1, <2>2
<1>. QED
  BY <1>2, <1>3

-----------------------------------------------------------------------------
(* Deletion *)

DeletionStates == {"absent", "queued", "running", "cancel_requested", "partial"}
ArtifactStates == {"pending", "removed", "verified_absent", "failed"}
EraserType == {Idle} \cup Erasing

LEMMA DeletionTypesBefore ==
    ASSUME SourcesTypeOK, PlacesOK
    PROVE  /\ source \in SourceRow /\ version \in [Versions -> VersionRow]
           /\ job \in [Versions \X JobKinds -> JobType] /\ product \in ProductType
           /\ upload \in [Versions -> UploadType]
           /\ quar \subseteq Versions /\ art \subseteq Versions
           /\ staged \in StagedType /\ object \in ObjectType
           /\ del \in DeletionRow
           /\ inv \in [DOMAIN inv -> ArtifactStates] /\ DOMAIN inv \subseteq Artifacts
           /\ eraser \in EraserType
           /\ grants \subseteq Things /\ faults \in FaultType
BY DEF SourcesTypeOK, PlacesOK, ProductType, StagedType, ObjectType, ArtifactStates, EraserType

DeletionTypes ==
    /\ source' \in SourceRow /\ version' \in [Versions -> VersionRow]
    /\ job' \in [Versions \X JobKinds -> JobType] /\ product' \in ProductType
    /\ upload' \in [Versions -> UploadType]
    /\ quar' \subseteq Versions /\ art' \subseteq Versions
    /\ staged' \in StagedType /\ object' \in ObjectType
    /\ del' \in DeletionRow
    /\ inv' \in [DOMAIN inv' -> ArtifactStates] /\ DOMAIN inv' \subseteq Artifacts
    /\ eraser' \in EraserType
    /\ grants' \subseteq Things /\ faults' \in FaultType

LEMMA PhaseSet ==
    ASSUME NEW row \in SourceRow, NEW phase \in Phases
    PROVE  /\ [row EXCEPT !.deletion = phase] \in SourceRow
           /\ [row EXCEPT !.deletion = phase].deletion = phase
           /\ [row EXCEPT !.deletion = phase].revision = row.revision
           /\ [row EXCEPT !.deletion = phase].current = row.current
           /\ [row EXCEPT !.deletion = phase].inspection = row.inspection
           /\ [row EXCEPT !.deletion = phase].preparation = row.preparation
BY DEF SourceRow

LEMMA PhaseAndRevisionSet ==
    ASSUME NEW phase \in Phases, source \in SourceRow,
           source' = [source EXCEPT !.deletion = phase, !.revision = @ + 1]
    PROVE  /\ source' \in SourceRow /\ source'.deletion = phase
           /\ source'.revision = source.revision + 1
           /\ source'.current = source.current
<1> DEFINE one == [source EXCEPT !.deletion = phase]
<1>1. /\ one \in SourceRow /\ one.deletion = phase /\ one.revision = source.revision
      /\ one.current = source.current
  BY PhaseSet
<1>2. source' = [one EXCEPT !.revision = source.revision + 1]
  BY DEF SourceRow
<1> HIDE DEF one
<1>. QED
  BY <1>1, <1>2 DEF SourceRow

LEMMA DeletionStateSet ==
    ASSUME NEW d \in DeletionRow, NEW state \in DeletionStates
    PROVE  /\ [d EXCEPT !.state = state] \in DeletionRow
           /\ [d EXCEPT !.state = state].state = state
           /\ [d EXCEPT !.state = state].checkpoint = d.checkpoint
           /\ [d EXCEPT !.state = state].attempt = d.attempt
           /\ [d EXCEPT !.state = state].claim = d.claim
BY DEF DeletionRow, DeletionStates

LEMMA DeletionClaimSet ==
    ASSUME NEW d \in DeletionRow, NEW claim \in Claims
    PROVE  /\ [d EXCEPT !.claim = claim] \in DeletionRow
           /\ [d EXCEPT !.claim = claim].state = d.state
           /\ [d EXCEPT !.claim = claim].checkpoint = d.checkpoint
           /\ [d EXCEPT !.claim = claim].attempt = d.attempt
           /\ [d EXCEPT !.claim = claim].claim = claim
BY DEF DeletionRow

LEMMA DeletionAttemptSet ==
    ASSUME NEW d \in DeletionRow, NEW attempt \in 0..MaxAttempts
    PROVE  /\ [d EXCEPT !.attempt = attempt] \in DeletionRow
           /\ [d EXCEPT !.attempt = attempt].state = d.state
           /\ [d EXCEPT !.attempt = attempt].checkpoint = d.checkpoint
           /\ [d EXCEPT !.attempt = attempt].claim = d.claim
BY DEF DeletionRow

LEMMA DeletionCheckpointSet ==
    ASSUME NEW d \in DeletionRow, NEW checkpoint \in 0..3
    PROVE  /\ [d EXCEPT !.checkpoint = checkpoint] \in DeletionRow
           /\ [d EXCEPT !.checkpoint = checkpoint].state = d.state
           /\ [d EXCEPT !.checkpoint = checkpoint].checkpoint = checkpoint
BY DEF DeletionRow

LEMMA DeletionReleased ==
    ASSUME NEW d \in DeletionRow, NEW state \in DeletionStates
    PROVE  /\ Released(d, state) \in DeletionRow
           /\ Released(d, state).state = state
           /\ Released(d, state).checkpoint = d.checkpoint
           /\ Released(d, state).claim = "none"
<1> DEFINE one == [d EXCEPT !.state = state]
<1>1. one \in DeletionRow /\ one.state = state /\ one.checkpoint = d.checkpoint
  BY DeletionStateSet
<1>2. Released(d, state) = [one EXCEPT !.claim = "none"]
  BY DEF Released, DeletionRow
<1>3. "none" \in Claims
  BY DEF Claims
<1> HIDE DEF one
<1>. QED
  BY <1>1, <1>2, <1>3, DeletionClaimSet

LEMMA DeletionClaimed ==
    ASSUME NEW d \in DeletionRow, d.attempt < MaxAttempts
    PROVE  /\ [d EXCEPT !.state = "running", !.claim = "live", !.attempt = @ + 1] \in DeletionRow
           /\ [d EXCEPT !.state = "running", !.claim = "live", !.attempt = @ + 1].state = "running"
           /\ [d EXCEPT !.state = "running", !.claim = "live", !.attempt = @ + 1].checkpoint
                = d.checkpoint
<1>1. d.attempt + 1 \in 0..MaxAttempts
  BY SourceAssumption DEF DeletionRow
<1>2. "running" \in DeletionStates /\ "live" \in Claims
  BY DEF DeletionStates, Claims
<1> DEFINE one == [d EXCEPT !.state = "running"]
           two == [one EXCEPT !.claim = "live"]
<1>3. one \in DeletionRow /\ one.state = "running" /\ one.checkpoint = d.checkpoint
  BY <1>2, DeletionStateSet
<1>4. two \in DeletionRow /\ two.state = "running" /\ two.checkpoint = d.checkpoint
  <2> HIDE DEF one
  <2>. QED
    BY <1>2, <1>3, DeletionClaimSet
<1>5. [d EXCEPT !.state = "running", !.claim = "live", !.attempt = @ + 1]
          = [two EXCEPT !.attempt = d.attempt + 1]
  BY DEF DeletionRow
<1> HIDE DEF one, two
<1>. QED
  BY <1>1, <1>4, <1>5, DeletionAttemptSet

LEMMA NoDeletionTyped == NoDeletion \in DeletionRow
<1>1. 0 \in 0..MaxAttempts /\ 0 \in 0..3
  BY SourceAssumption
<1>. QED
  BY <1>1 DEF NoDeletion, DeletionRow, Claims

LEMMA InventoryTyped ==
    ASSUME SourcesTypeOK, PlacesOK
    PROVE  Inventory \subseteq Artifacts
<1>1. DOMAIN job = Versions \X JobKinds
  BY DeletionTypesBefore
<1>2. ASSUME NEW kind \in {"immutable_original", "upload_staging", "placed_candidate",
                           "derived_resource", "data_view"} \cup JobKinds,
             NEW ws, ws \subseteq Versions
      PROVE  {<<kind, v>> : v \in ws} \subseteq Artifacts
  BY <1>2 DEF Artifacts
<1>3. {<<j[2], j[1]>> : j \in {i \in DOMAIN job : job[i].state # "absent"}} \subseteq Artifacts
  BY <1>1 DEF Artifacts
<1>. QED
  BY <1>2, <1>3 DEF Inventory

LEMMA UnverifiedTyped ==
    ASSUME SourcesTypeOK, PlacesOK
    PROVE  Unverified \subseteq Artifacts
BY DeletionTypesBefore DEF Unverified

LEMMA EraserPlaces ==
    ASSUME SourcesTypeOK, PlacesOK, eraser.at # "idle"
    PROVE  eraser \in Erasing /\ eraser.todo \subseteq Artifacts /\ eraser.checkpoint \in 0..3
BY DeletionTypesBefore DEF EraserType, Erasing, Idle

-----------------------------------------------------------------------------
(* What each step of a deletion does *)

\* No upload's row is made or removed.
SameSessions == \A v \in Versions : upload'[v].state = "absent" <=> upload[v].state = "absent"

\* The rows a reader looks at stay as they are.
Quiet == UNCHANGED <<source, version, job, product>> /\ SameSessions

\* The source goes from one phase to another and keeps everything else.
Moves(from, to) ==
    /\ source.deletion = from /\ source'.deletion = to
    /\ source'.revision = source.revision /\ source'.current = source.current
    /\ UNCHANGED <<version, job, product>> /\ SameSessions

\* ... or changes phase under a new revision.
Renews(from, to) ==
    /\ source.deletion = from /\ source'.deletion = to
    /\ source'.revision = source.revision + 1 /\ source'.current = source.current
    /\ UNCHANGED <<version, product>> /\ SameSessions
    /\ \A j \in Versions \X JobKinds :
         /\ job'[j].revision = job[j].revision
         /\ job'[j].state = "absent" <=> job[j].state = "absent"

\* Rows go while the source is deleted.
Sweeps ==
    /\ source.deletion = "deleting" /\ UNCHANGED <<source, version>>
    /\ \A j \in Versions \X JobKinds : job'[j] = job[j] \/ job'[j].state = "absent"

Erases ==
    /\ source.deletion = "deleting" /\ source'.deletion = "deleted"
    /\ source'.revision = source.revision
    /\ source'.current = NoVersion
    /\ \A v \in Versions : ~version'[v].there
    /\ \A j \in Versions \X JobKinds : job'[j].state = "absent"

DeletionLife ==
    \/ Quiet \/ Sweeps \/ Erases
    \/ Renews("active", "frozen") \/ Renews("frozen", "active")
    \/ Moves("frozen", "deleting") \/ Moves("deleting", "partially_deleted")
    \/ Moves("partially_deleted", "deleting")

LEMMA PlanEffect ==
    ASSUME SourcesTypeOK, PlacesOK, PhaseKept, Plan
    PROVE  DeletionTypes /\ PhaseKept' /\ Renews("active", "frozen")
<1> USE DeletionTypesBefore
<1>1. UNCHANGED <<version, product, byteVars, eraser, faults>> /\ SameUploads
      /\ source.deletion = "active" /\ grants' = {}
  BY DEF Plan
<1>2. /\ source' \in SourceRow /\ source'.deletion = "frozen"
      /\ source'.revision = source.revision + 1 /\ source'.current = source.current
  <2>1. "frozen" \in Phases
    BY DEF Phases
  <2>. QED
    BY <2>1, PhaseAndRevisionSet DEF Plan
<1>3. /\ upload' \in [Versions -> UploadType]
      /\ \A v \in Versions : upload'[v].state \notin {"open", "completing"}
      /\ SameSessions
  <2>1. "failed" \in UploadStates
    BY DEF UploadStates
  <2>2. ASSUME NEW v \in Versions
        PROVE  /\ [upload[v] EXCEPT !.state = "failed"] \in UploadType
               /\ [upload[v] EXCEPT !.state = "failed"].state = "failed"
    BY <2>1, UploadStateSet
  <2>3. upload' = [v \in Versions |-> IF upload[v].state \in {"open", "completing"}
                                     THEN [upload[v] EXCEPT !.state = "failed"] ELSE upload[v]]
    BY DEF Plan
  <2>. QED
    BY <2>2, <2>3 DEF SameSessions
<1>4. /\ job' \in [Versions \X JobKinds -> JobType]
      /\ \A j \in Versions \X JobKinds :
            /\ job'[j].state \notin JobPending
            /\ job'[j].revision = job[j].revision
            /\ job'[j].state = "absent" <=> job[j].state = "absent"
  <2>1. "cancel_requested" \in JobStates
    BY DEF JobStates
  <2>2. ASSUME NEW j \in Versions \X JobKinds
        PROVE  /\ [job[j] EXCEPT !.state = "cancel_requested"] \in JobType
               /\ [job[j] EXCEPT !.state = "cancel_requested"].state = "cancel_requested"
               /\ [job[j] EXCEPT !.state = "cancel_requested"].revision = job[j].revision
    BY <2>1, StateSet
  <2>3. job' = [j \in Versions \X JobKinds |->
                  IF job[j].state \in JobPending
                  THEN [job[j] EXCEPT !.state = "cancel_requested"] ELSE job[j]]
    BY DEF Plan
  <2>. QED
    BY <2>2, <2>3 DEF JobPending
<1>5. del' \in DeletionRow /\ del'.state = "queued" /\ del'.checkpoint = 0
  <2>1. "queued" \in DeletionStates
    BY DEF DeletionStates
  <2>. QED
    BY <2>1, NoDeletionTyped, DeletionStateSet DEF Plan, NoDeletion
<1>6. inv' \in [DOMAIN inv' -> ArtifactStates] /\ DOMAIN inv' \subseteq Artifacts
  BY InventoryTyped DEF Plan, ArtifactStates
<1>7. DeletionTypes
  BY <1>1, <1>2, <1>3, <1>4, <1>5, <1>6 DEF DeletionTypes, byteVars
<1>8. PhaseKept'
  BY <1>1, <1>2, <1>3, <1>4, <1>5 DEF PhaseKept, Quieted
<1>9. Renews("active", "frozen")
  BY <1>1, <1>2, <1>3, <1>4 DEF Renews
<1>. QED
  BY <1>7, <1>8, <1>9

LEMMA CancelDeletionEffect ==
    ASSUME SourcesTypeOK, PlacesOK, PhaseKept, CancelDeletion
    PROVE  DeletionTypes /\ PhaseKept' /\ Quiet
<1> USE DeletionTypesBefore
<1>1. /\ UNCHANGED <<source, jobVars, upload, inv, grants, byteVars, eraser, faults>> /\ SameUploads
      /\ del.checkpoint = 0 /\ del.state \in {"queued", "running"}
  BY DEF CancelDeletion
<1>2. del' \in DeletionRow /\ del'.state = "cancel_requested" /\ del'.checkpoint = 0
  <2>1. "cancel_requested" \in DeletionStates
    BY DEF DeletionStates
  <2>. QED
    BY <1>1, <2>1, DeletionStateSet DEF CancelDeletion
<1>3. DeletionTypes
  BY <1>1, <1>2 DEF DeletionTypes, byteVars, jobVars
<1>4. PhaseKept'
  BY <1>1, <1>2 DEF PhaseKept, Quieted, NoDeletion, jobVars
<1>. QED
  BY <1>1, <1>3, <1>4 DEF Quiet, SameSessions, jobVars

LEMMA RetryEffect ==
    ASSUME SourcesTypeOK, PlacesOK, PhaseKept, RetryPartial
    PROVE  DeletionTypes /\ PhaseKept' /\ Moves("partially_deleted", "deleting")
<1> USE DeletionTypesBefore
<1>1. /\ UNCHANGED <<jobVars, upload, grants, byteVars, eraser, faults>> /\ SameUploads
      /\ del.state = "partial" /\ source.deletion = "partially_deleted"
  BY DEF RetryPartial
<1>2. /\ source' \in SourceRow /\ source'.deletion = "deleting"
      /\ source'.revision = source.revision /\ source'.current = source.current
  <2>1. "deleting" \in Phases
    BY DEF Phases
  <2>. QED
    BY <2>1, PhaseSet DEF RetryPartial
<1>3. /\ del' \in DeletionRow /\ del'.state = "queued"
      /\ del.checkpoint > 0 => del'.checkpoint > 0
  <2>1. 0 \in 0..MaxAttempts /\ 0 \in 0..3 /\ 1 \in 0..3 /\ "none" \in Claims
    BY SourceAssumption DEF Claims
  <2>2. del' = [state |-> "queued", attempt |-> 0, claim |-> "none",
                checkpoint |-> IF del.checkpoint = 0 THEN 0 ELSE 1]
    BY DEF RetryPartial
  <2>. QED
    BY <2>1, <2>2 DEF DeletionRow
<1>4. inv' \in [DOMAIN inv' -> ArtifactStates] /\ DOMAIN inv' \subseteq Artifacts
  BY DEF RetryPartial, ArtifactStates
<1>5. DeletionTypes
  BY <1>1, <1>2, <1>3, <1>4 DEF DeletionTypes, byteVars, jobVars
<1>6. PhaseKept'
  BY <1>1, <1>2, <1>3 DEF PhaseKept, Quieted, jobVars
<1>. QED
  BY <1>1, <1>2, <1>5, <1>6 DEF Moves, SameSessions, jobVars

LEMMA RunOneDeletionEffect ==
    ASSUME SourcesTypeOK, PlacesOK, PhaseKept, RunOneDeletion
    PROVE  DeletionTypes /\ PhaseKept' /\ DeletionLife
<1> USE DeletionTypesBefore
<1>1. /\ UNCHANGED <<jobVars, upload, grants, byteVars, faults>> /\ SameUploads
      /\ eraser.at = "idle" /\ eraser \in EraserType
  BY DEF RunOneDeletion
<1>2. CASE ConfirmCancellation
  <2>1. /\ source' \in SourceRow /\ source'.deletion = "active" /\ source.deletion = "frozen"
        /\ source'.revision = source.revision + 1 /\ source'.current = source.current
    <3>1. "active" \in Phases
      BY DEF Phases
    <3>. QED
      BY <1>2, <3>1, PhaseAndRevisionSet DEF ConfirmCancellation, CanConfirm
  <2>2. del' = NoDeletion /\ inv' = <<>> /\ UNCHANGED eraser
    BY <1>2 DEF ConfirmCancellation
  <2>3. inv' \in [DOMAIN inv' -> ArtifactStates] /\ DOMAIN inv' \subseteq Artifacts
    BY <2>2
  <2>4. DeletionTypes
    BY <1>1, <2>1, <2>2, <2>3, NoDeletionTyped DEF DeletionTypes, byteVars, jobVars
  <2>5. PhaseKept'
    BY <1>1, <2>1, <2>2 DEF PhaseKept
  <2>6. Renews("frozen", "active")
    BY <1>1, <2>1 DEF Renews, SameSessions, jobVars
  <2>. QED
    BY <2>4, <2>5, <2>6 DEF DeletionLife
<1>3. CASE RecoverDeletion
  <2>1. /\ del.state = "running" /\ del' = RecoveredDeletion(del) /\ source' = RecoveredSource(del)
        /\ UNCHANGED <<inv, eraser>>
    BY <1>3 DEF RecoverDeletion, Expired
  <2>2. CASE del' = Released(del, "queued") /\ source' = source
    <3>1. del' \in DeletionRow /\ del'.state = "queued" /\ del'.checkpoint = del.checkpoint
      BY <2>2, DeletionReleased DEF DeletionStates
    <3>2. DeletionTypes
      BY <1>1, <2>1, <2>2, <3>1 DEF DeletionTypes, byteVars, jobVars
    <3>3. PhaseKept'
      BY <1>1, <2>1, <2>2, <3>1 DEF PhaseKept, Quieted, NoDeletion, jobVars
    <3>. QED
      BY <1>1, <2>2, <3>2, <3>3 DEF DeletionLife, Quiet, SameSessions, jobVars
  <2>3. CASE /\ del' = [Released(del, "queued") EXCEPT !.attempt = 0]
             /\ source' = source
    <3> DEFINE one == Released(del, "queued")
    <3>1. one \in DeletionRow /\ one.state = "queued" /\ one.checkpoint = del.checkpoint
      BY DeletionReleased DEF DeletionStates
    <3>2. 0 \in 0..MaxAttempts
      BY SourceAssumption
    <3>3. del' = [one EXCEPT !.attempt = 0]
      BY <2>3
    <3> HIDE DEF one
    <3>4. del' \in DeletionRow /\ del'.state = "queued" /\ del'.checkpoint = del.checkpoint
      BY <3>1, <3>2, <3>3, DeletionAttemptSet
    <3>5. DeletionTypes
      BY <1>1, <2>1, <2>3, <3>4 DEF DeletionTypes, byteVars, jobVars
    <3>6. PhaseKept'
      BY <1>1, <2>1, <2>3, <3>4 DEF PhaseKept, Quieted, NoDeletion, jobVars
    <3>. QED
      BY <1>1, <2>3, <3>5, <3>6 DEF DeletionLife, Quiet, SameSessions, jobVars
  <2>4. CASE /\ del' = Released(del, "partial") /\ del.checkpoint # 0
             /\ source' = [source EXCEPT !.deletion = "partially_deleted"]
             /\ source.deletion = "deleting"
    <3>1. del' \in DeletionRow /\ del'.state = "partial" /\ del'.checkpoint = del.checkpoint
      BY <2>4, DeletionReleased DEF DeletionStates
    <3>2. /\ source' \in SourceRow /\ source'.deletion = "partially_deleted"
          /\ source'.revision = source.revision /\ source'.current = source.current
      BY <2>4, PhaseSet DEF Phases
    <3>3. DeletionTypes
      BY <1>1, <2>1, <3>1, <3>2 DEF DeletionTypes, byteVars, jobVars
    <3>4. PhaseKept'
      BY <1>1, <2>1, <2>4, <3>1, <3>2 DEF PhaseKept, Quieted, jobVars
    <3>. QED
      BY <1>1, <2>4, <3>2, <3>3, <3>4 DEF DeletionLife, Moves, SameSessions, jobVars
  <2>5. Released(del, "partial").state = "partial" /\ Released(del, "queued").state = "queued"
    BY DeletionReleased DEF DeletionStates
  <2>6. [Released(del, "queued") EXCEPT !.attempt = 0].state = "queued"
    <3>1. Released(del, "queued") \in DeletionRow /\ 0 \in 0..MaxAttempts
      BY DeletionReleased, SourceAssumption DEF DeletionStates
    <3>. QED
      BY <2>5, <3>1, DeletionAttemptSet
  <2>7. \/ del' = Released(del, "queued")
        \/ del.checkpoint = 0 /\ del' = [Released(del, "queued") EXCEPT !.attempt = 0]
        \/ del.checkpoint # 0 /\ del' = Released(del, "partial")
    BY <1>3, <2>1 DEF RecoverDeletion, RecoveredDeletion
  <2>8. source.deletion \in {"frozen", "deleting"}
        /\ (del.checkpoint # 0 => source.deletion = "deleting")
    BY <2>1, DeletionTypesBefore DEF PhaseKept, SourceRow, Phases, NoDeletion
  <2>9. source' = IF del'.state = "partial" /\ source.deletion = "deleting"
                  THEN [source EXCEPT !.deletion = "partially_deleted"] ELSE source
    BY <2>1 DEF RecoveredSource
  <2>. QED
    BY <2>2, <2>3, <2>4, <2>5, <2>6, <2>7, <2>8, <2>9
<1>4. CASE ClaimDeletion
  <2>1. /\ del.state = "queued" /\ del.attempt < MaxAttempts
        /\ del' = [del EXCEPT !.state = "running", !.claim = "live", !.attempt = @ + 1]
        /\ eraser' = [at |-> IF del.checkpoint = 0 THEN "start" ELSE "remove",
                      todo |-> Unverified, checkpoint |-> del.checkpoint]
        /\ UNCHANGED <<source, inv>>
    BY <1>4 DEF ClaimDeletion
  <2>2. del' \in DeletionRow /\ del'.state = "running" /\ del'.checkpoint = del.checkpoint
    BY <2>1, DeletionClaimed
  <2>3. /\ eraser' \in Erasing /\ eraser'.checkpoint = del.checkpoint
        /\ eraser'.at = IF del.checkpoint = 0 THEN "start" ELSE "remove"
    <3>1. del.checkpoint \in 0..3
      BY DEF DeletionRow
    <3>. QED
      BY <2>1, <3>1, UnverifiedTyped DEF Erasing
  <2>4. DeletionTypes
    BY <1>1, <2>1, <2>2, <2>3 DEF DeletionTypes, EraserType, byteVars, jobVars
  <2>5. PhaseKept'
    <3>1. source.deletion \in {"frozen", "deleting"}
      BY <2>1 DEF PhaseKept, SourceRow, Phases, NoDeletion
    <3>. QED
      BY <1>1, <2>1, <2>2, <2>3, <3>1 DEF PhaseKept, Quieted, jobVars
  <2>. QED
    BY <1>1, <2>1, <2>4, <2>5 DEF DeletionLife, Quiet, SameSessions, jobVars
<1>. QED
  BY <1>2, <1>3, <1>4 DEF RunOneDeletion

LEMMA StartDestructionEffect ==
    ASSUME SourcesTypeOK, PlacesOK, PhaseKept, StartDestruction
    PROVE  DeletionTypes /\ PhaseKept' /\ DeletionLife
<1> USE DeletionTypesBefore
<1>1. /\ UNCHANGED <<jobVars, upload, inv, grants, byteVars, faults>> /\ SameUploads
      /\ eraser.at = "start"
  BY DEF StartDestruction
<1>2. CASE /\ Held(del) /\ source.deletion = "frozen"
           /\ source' = [source EXCEPT !.deletion = "deleting"]
           /\ del' = [del EXCEPT !.checkpoint = 1]
           /\ EraserGoes("remove", 1, Unverified)
  <2>1. /\ source' \in SourceRow /\ source'.deletion = "deleting"
        /\ source'.revision = source.revision /\ source'.current = source.current
    BY <1>2, PhaseSet DEF Phases
  <2>2. del' \in DeletionRow /\ del'.state = "running" /\ del'.checkpoint = 1
    <3>1. 1 \in 0..3 /\ del.state = "running"
      BY <1>2 DEF Held
    <3>. QED
      BY <1>2, <3>1, DeletionCheckpointSet
  <2>3. eraser' \in Erasing /\ eraser'.at = "remove" /\ eraser'.checkpoint = 1
    BY <1>2, UnverifiedTyped DEF EraserGoes, Erasing
  <2>4. DeletionTypes
    BY <1>1, <2>1, <2>2, <2>3 DEF DeletionTypes, EraserType, byteVars, jobVars
  <2>5. PhaseKept'
    BY <1>1, <1>2, <2>1, <2>2, <2>3 DEF PhaseKept, Quieted, jobVars
  <2>. QED
    BY <1>1, <1>2, <2>1, <2>4, <2>5 DEF DeletionLife, Moves, SameSessions, jobVars
<1>3. CASE EraserStops /\ UNCHANGED <<source, del>>
  <2>1. eraser' \in EraserType /\ eraser'.at = "idle"
    BY <1>3 DEF EraserStops, EraserType, Idle
  <2>2. DeletionTypes
    BY <1>1, <1>3, <2>1 DEF DeletionTypes, byteVars, jobVars
  <2>3. PhaseKept'
    BY <1>1, <1>3, <2>1 DEF PhaseKept, Quieted, jobVars
  <2>. QED
    BY <1>1, <1>3, <2>2, <2>3 DEF DeletionLife, Quiet, SameSessions, jobVars
<1>. QED
  BY <1>2, <1>3 DEF StartDestruction

LEMMA AdvancePassEffect ==
    ASSUME SourcesTypeOK, PlacesOK, PhaseKept,
           AdvancePass("remove", 2, "verify") \/ AdvancePass("verify", 3, "finish")
    PROVE  DeletionTypes /\ PhaseKept' /\ DeletionLife
<1> USE DeletionTypesBefore
<1>1. ASSUME NEW at \in {"remove", "verify"}, NEW checkpoint \in {2, 3}, NEW next \in {"verify", "finish"},
             AdvancePass(at, checkpoint, next)
      PROVE  DeletionTypes /\ PhaseKept' /\ DeletionLife
  <2>1. /\ UNCHANGED <<source, jobVars, upload, inv, grants, byteVars, faults>> /\ SameUploads
        /\ eraser.at = at /\ eraser.at # "idle"
    BY <1>1 DEF AdvancePass
  <2>2. eraser.checkpoint \in 0..3 /\ checkpoint \in 0..3
    BY <1>1, <2>1, EraserPlaces
  <2>3. /\ source.deletion = "deleting" /\ del.state = "running"
        /\ eraser.checkpoint = del.checkpoint
    BY <1>1, <2>1 DEF PhaseKept
  <2>4. CASE EraserGoes(next, eraser.checkpoint, Unverified) /\ UNCHANGED del
    <3>1. eraser' \in Erasing /\ eraser'.at = next /\ eraser'.checkpoint = del.checkpoint
      BY <1>1, <2>2, <2>3, <2>4, UnverifiedTyped DEF EraserGoes, Erasing
    <3>2. DeletionTypes
      BY <2>1, <2>4, <3>1 DEF DeletionTypes, EraserType, byteVars, jobVars
    <3>3. PhaseKept'
      BY <1>1, <2>1, <2>3, <2>4, <3>1 DEF PhaseKept, Quieted, jobVars
    <3>. QED
      BY <2>1, <3>2, <3>3 DEF DeletionLife, Quiet, SameSessions, jobVars
  <2>5. CASE /\ del' = [del EXCEPT !.checkpoint = checkpoint]
             /\ EraserGoes(next, checkpoint, Unverified)
    <3>1. del' \in DeletionRow /\ del'.state = "running" /\ del'.checkpoint = checkpoint
      BY <2>2, <2>3, <2>5, DeletionCheckpointSet
    <3>2. eraser' \in Erasing /\ eraser'.at = next /\ eraser'.checkpoint = checkpoint
      BY <1>1, <2>2, <2>5, UnverifiedTyped DEF EraserGoes, Erasing
    <3>3. DeletionTypes
      BY <2>1, <3>1, <3>2 DEF DeletionTypes, EraserType, byteVars, jobVars
    <3>4. PhaseKept'
      BY <1>1, <2>1, <2>3, <3>1, <3>2 DEF PhaseKept, Quieted, jobVars
    <3>. QED
      BY <2>1, <3>3, <3>4 DEF DeletionLife, Quiet, SameSessions, jobVars
  <2>6. CASE EraserStops /\ UNCHANGED del
    <3>1. eraser' \in EraserType /\ eraser'.at = "idle"
      BY <2>6 DEF EraserStops, EraserType, Idle
    <3>2. DeletionTypes
      BY <2>1, <2>6, <3>1 DEF DeletionTypes, byteVars, jobVars
    <3>3. PhaseKept'
      BY <2>1, <2>6, <3>1 DEF PhaseKept, Quieted, jobVars
    <3>. QED
      BY <2>1, <3>2, <3>3 DEF DeletionLife, Quiet, SameSessions, jobVars
  <2>. QED
    BY <1>1, <2>4, <2>5, <2>6 DEF AdvancePass
<1>. QED
  BY <1>1

LEMMA EraserPausesEffect ==
    ASSUME SourcesTypeOK, PlacesOK, PhaseKept,
           EraserThrows \/ DeletionLease(TRUE) \/ DeletionLease(FALSE)
    PROVE  DeletionTypes /\ PhaseKept' /\ DeletionLife
<1> USE DeletionTypesBefore
<1>1. UNCHANGED <<source, jobVars, upload, inv, grants, byteVars>> /\ SameUploads
  BY DEF EraserThrows, DeletionLease
<1>2. CASE EraserThrows
  <2>1. eraser' \in EraserType /\ eraser'.at = "idle" /\ UNCHANGED del
    BY <1>2 DEF EraserThrows, EraserStops, EraserType, Idle
  <2>2. faults' \in FaultType
    BY <1>2, FaultCounted DEF EraserThrows
  <2>3. DeletionTypes
    BY <1>1, <2>1, <2>2 DEF DeletionTypes, byteVars, jobVars
  <2>4. PhaseKept'
    BY <1>1, <2>1 DEF PhaseKept, Quieted, jobVars
  <2>. QED
    BY <1>1, <2>3, <2>4 DEF DeletionLife, Quiet, SameSessions, jobVars
<1>3. ASSUME NEW stalled \in BOOLEAN, DeletionLease(stalled)
      PROVE  DeletionTypes /\ PhaseKept' /\ DeletionLife
  <2>1. /\ del.claim = "live" /\ del' = [del EXCEPT !.claim = "lapsed"] /\ UNCHANGED eraser
    BY <1>3 DEF DeletionLease
  <2>2. /\ del' \in DeletionRow /\ del'.state = del.state /\ del'.checkpoint = del.checkpoint
    BY <2>1, DeletionClaimSet DEF Claims
  <2>3. faults' \in FaultType
    BY <1>3, FaultCounted DEF DeletionLease
  <2>4. DeletionTypes
    BY <1>1, <2>1, <2>2, <2>3 DEF DeletionTypes, byteVars, jobVars
  <2>5. PhaseKept'
    BY <1>1, <2>1, <2>2 DEF PhaseKept, Quieted, NoDeletion, jobVars
  <2>. QED
    BY <1>1, <2>4, <2>5 DEF DeletionLife, Quiet, SameSessions, jobVars
<1>. QED
  BY <1>2, <1>3

LEMMA NoUploadTyped == NoUpload \in UploadType /\ NoUpload.state = "absent"
<1>1. 0 \in 0..Chunks /\ 0 \in Nat
  BY SourceAssumption
<1>. QED
  BY <1>1 DEF NoUpload, UploadType

LEMMA NoJobTyped == NoJob \in JobType /\ NoJob.state = "absent"
<1>1. 0 \in 0..MaxAttempts /\ 0 \in 0..4 /\ 0 \in Nat
  BY SourceAssumption
<1>. QED
  BY <1>1 DEF NoJob, JobType, Claims

LEMMA ErasesBytes ==
    ASSUME SourcesTypeOK, PlacesOK, NEW a \in Artifacts, EraseBytes(a)
    PROVE  /\ quar' \subseteq Versions /\ art' \subseteq Versions
           /\ staged' \in StagedType /\ object' \in ObjectType
<1> USE DeletionTypesBefore
<1>1. a[2] \in Versions /\ <<>> \in Seq(1..Chunks)
  BY EmptySeq DEF Artifacts
<1>. QED
  BY <1>1 DEF EraseBytes, StagedType, ObjectType

\* The rows of an artifact go; no other row changes, and no upload or job gets
\* under way.
LEMMA ErasesRows ==
    ASSUME SourcesTypeOK, PlacesOK, NEW a \in Artifacts, EraseRows(a)
    PROVE  /\ upload' \in [Versions -> UploadType] /\ product' \in ProductType
           /\ job' \in [Versions \X JobKinds -> JobType]
           /\ \A j \in Versions \X JobKinds : job'[j] = job[j] \/ job'[j].state = "absent"
           /\ Quieted => Quieted'
<1> USE DeletionTypesBefore
<1>1. a[2] \in Versions
  BY DEF Artifacts
<1>2. /\ upload' \in [Versions -> UploadType]
      /\ \A v \in Versions : upload'[v] = upload[v] \/ upload'[v].state = "absent"
  BY <1>1, NoUploadTyped DEF EraseRows
<1>3. product' \in ProductType
  BY <1>1 DEF EraseRows, ProductType
<1>4. /\ job' \in [Versions \X JobKinds -> JobType]
      /\ \A j \in Versions \X JobKinds : job'[j] = job[j] \/ job'[j].state = "absent"
  BY <1>1, NoJobTyped DEF EraseRows
<1>. QED
  BY <1>2, <1>3, <1>4 DEF Quieted, JobPending

LEMMA MarkTypes ==
    ASSUME SourcesTypeOK, PlacesOK, NEW a, NEW state \in ArtifactStates, Marked(a, state)
    PROVE  /\ inv' \in [DOMAIN inv' -> ArtifactStates] /\ DOMAIN inv' \subseteq Artifacts
           /\ DOMAIN inv' = DOMAIN inv
BY DeletionTypesBefore DEF Marked

LEMMA RemovalFailure ==
    ASSUME SourcesTypeOK, NEW a \in Artifacts, RemovalFails(a)
    PROVE  faults' \in FaultType
<1>1. faults.count \in 0..MaxFaults /\ faults.stuck \subseteq Versions
  BY DEF SourcesTypeOK, FaultType
<1>2. faults.count + 1 \in 0..MaxFaults
  BY <1>1, SourceAssumption DEF RemovalFails
<1>3. faults.stuck \cup {a[2]} \subseteq Versions
  BY <1>1 DEF Artifacts
<1>. QED
  BY <1>1, <1>2, <1>3 DEF RemovalFails, FaultType

LEMMA ArtifactEffect ==
    ASSUME SourcesTypeOK, PlacesOK, PhaseKept, RemoveArtifact \/ VerifyArtifact
    PROVE  DeletionTypes /\ PhaseKept' /\ DeletionLife
<1> USE DeletionTypesBefore
<1>1. /\ eraser.at \in {"remove", "verify"} /\ eraser.at # "idle"
      /\ UNCHANGED <<source, version, del, grants>> /\ SameUploads
  BY DEF RemoveArtifact, VerifyArtifact
<1>2. /\ source.deletion = "deleting" /\ del.state = "running"
      /\ eraser.checkpoint = del.checkpoint /\ del.checkpoint > 0 /\ Quieted
  BY <1>1 DEF PhaseKept
<1>3. eraser \in Erasing /\ eraser.todo \subseteq Artifacts /\ eraser.checkpoint \in 0..3
  BY <1>1, EraserPlaces
<1>4. PICK a \in First(eraser.todo) :
        \/ /\ EraserStops
           /\ UNCHANGED <<upload, product, job, inv, byteVars, faults>>
        \/ /\ EraserGoes(eraser.at, eraser.checkpoint, eraser.todo \ {a})
           /\ \/ EraseBytes(a) /\ EraseRows(a) /\ Marked(a, "removed") /\ UNCHANGED faults
              \/ RemovalFails(a) /\ UNCHANGED <<upload, product, job, inv, byteVars>>
              \/ EraseRows(a) /\ Marked(a, "verified_absent") /\ UNCHANGED <<byteVars, faults>>
              \/ Marked(a, "failed") /\ UNCHANGED <<upload, product, job, byteVars, faults>>
  BY DEF RemoveArtifact, VerifyArtifact
<1>5. a \in Artifacts
  BY <1>3 DEF First
<1>6. /\ eraser' \in EraserType
      /\ eraser'.at = "idle" \/ (eraser'.at = eraser.at /\ eraser'.checkpoint = eraser.checkpoint)
  BY <1>1, <1>3, <1>4 DEF EraserStops, EraserGoes, EraserType, Erasing, Idle
<1>7. CASE EraseBytes(a) /\ EraseRows(a) /\ Marked(a, "removed") /\ UNCHANGED faults
  <2>1. "removed" \in ArtifactStates
    BY DEF ArtifactStates
  <2>2. DeletionTypes
    BY <1>1, <1>5, <1>6, <1>7, <2>1, ErasesBytes, ErasesRows, MarkTypes DEF DeletionTypes
  <2>3. Quieted' /\ Sweeps
    BY <1>1, <1>2, <1>5, <1>7, ErasesRows DEF Sweeps
  <2>4. PhaseKept'
    BY <1>1, <1>2, <1>6, <2>3 DEF PhaseKept
  <2>. QED
    BY <2>2, <2>3, <2>4 DEF DeletionLife
<1>8. CASE /\ UNCHANGED <<upload, product, job, inv, byteVars>>
           /\ RemovalFails(a) \/ UNCHANGED faults
  <2>1. faults' \in FaultType
    BY <1>5, <1>8, RemovalFailure
  <2>2. DeletionTypes
    BY <1>1, <1>6, <1>8, <2>1 DEF DeletionTypes, byteVars
  <2>3. Quieted' /\ Sweeps
    BY <1>1, <1>2, <1>8 DEF Sweeps, Quieted
  <2>4. PhaseKept'
    BY <1>1, <1>2, <1>6, <2>3 DEF PhaseKept
  <2>. QED
    BY <2>2, <2>3, <2>4 DEF DeletionLife
<1>9. CASE EraseRows(a) /\ Marked(a, "verified_absent") /\ UNCHANGED <<byteVars, faults>>
  <2>1. "verified_absent" \in ArtifactStates
    BY DEF ArtifactStates
  <2>2. DeletionTypes
    BY <1>1, <1>5, <1>6, <1>9, <2>1, ErasesRows, MarkTypes DEF DeletionTypes, byteVars
  <2>3. Quieted' /\ Sweeps
    BY <1>1, <1>2, <1>5, <1>9, ErasesRows DEF Sweeps
  <2>4. PhaseKept'
    BY <1>1, <1>2, <1>6, <2>3 DEF PhaseKept
  <2>. QED
    BY <2>2, <2>3, <2>4 DEF DeletionLife
<1>10. CASE Marked(a, "failed") /\ UNCHANGED <<upload, product, job, byteVars, faults>>
  <2>1. "failed" \in ArtifactStates
    BY DEF ArtifactStates
  <2>2. DeletionTypes
    BY <1>1, <1>6, <1>10, <2>1, MarkTypes DEF DeletionTypes, byteVars
  <2>3. Quieted' /\ Sweeps
    BY <1>1, <1>2, <1>10 DEF Sweeps, Quieted
  <2>4. PhaseKept'
    BY <1>1, <1>2, <1>6, <2>3 DEF PhaseKept
  <2>. QED
    BY <2>2, <2>3, <2>4 DEF DeletionLife
<1>. QED
  BY <1>4, <1>7, <1>8, <1>9, <1>10

LEMMA FinishDeletionEffect ==
    ASSUME SourcesTypeOK, PlacesOK, PhaseKept, FinishDeletion
    PROVE  DeletionTypes /\ PhaseKept' /\ DeletionLife
<1> USE DeletionTypesBefore
<1>1. /\ eraser.at = "finish" /\ UNCHANGED <<job, product, upload, grants, byteVars, faults>>
      /\ SameUploads /\ eraser' = Idle
  BY DEF FinishDeletion, EraserStops
<1>2. /\ source.deletion = "deleting" /\ del.state = "running" /\ del.checkpoint > 0 /\ Quieted
  BY <1>1 DEF PhaseKept
<1>3. eraser' \in EraserType /\ eraser'.at = "idle"
  BY <1>1 DEF EraserType, Idle
<1>4. CASE /\ del' = Released(del, "partial")
           /\ source' = [source EXCEPT !.deletion = "partially_deleted"]
           /\ UNCHANGED <<version, inv>>
  <2>1. del' \in DeletionRow /\ del'.state = "partial" /\ del'.checkpoint = del.checkpoint
    BY <1>4, DeletionReleased DEF DeletionStates
  <2>2. /\ source' \in SourceRow /\ source'.deletion = "partially_deleted"
        /\ source'.revision = source.revision /\ source'.current = source.current
    BY <1>4, PhaseSet DEF Phases
  <2>3. DeletionTypes
    BY <1>1, <1>3, <1>4, <2>1, <2>2 DEF DeletionTypes, byteVars
  <2>4. PhaseKept'
    BY <1>1, <1>2, <1>3, <2>1, <2>2 DEF PhaseKept, Quieted
  <2>. QED
    BY <1>1, <1>2, <1>4, <2>2, <2>3, <2>4 DEF DeletionLife, Moves, SameSessions
<1>5. CASE /\ ~Residual
           /\ del' = NoDeletion /\ inv' = <<>>
           /\ source' = [source EXCEPT !.deletion = "deleted", !.current = NoVersion,
                                       !.inspection = "none", !.preparation = "none"]
           /\ version' = [v \in Versions |->
                             [there |-> FALSE, inspection |-> "none", preparation |-> "none"]]
  <2>1. /\ source' \in SourceRow /\ source'.deletion = "deleted"
        /\ source'.revision = source.revision /\ source'.current = NoVersion
    <3> DEFINE one == [source EXCEPT !.deletion = "deleted"]
               two == [one EXCEPT !.current = NoVersion]
               three == [two EXCEPT !.inspection = "none"]
    <3>1. one \in SourceRow /\ one.deletion = "deleted" /\ one.revision = source.revision
      BY PhaseSet DEF Phases
    <3>2. /\ two \in SourceRow /\ two.deletion = "deleted" /\ two.revision = source.revision
          /\ two.current = NoVersion
      <4> HIDE DEF one
      <4>. QED
        BY <3>1 DEF SourceRow
    <3>3. "none" \in Health
      BY DEF Health
    <3>4. /\ three \in SourceRow /\ three.deletion = "deleted" /\ three.revision = source.revision
          /\ three.current = NoVersion
      <4> HIDE DEF two
      <4>. QED
        BY <3>2, <3>3 DEF SourceRow
    <3>5. source' = [three EXCEPT !.preparation = "none"]
      BY <1>5 DEF SourceRow
    <3> HIDE DEF three
    <3>. QED
      BY <3>3, <3>4, <3>5 DEF SourceRow
  <2>2. version' \in [Versions -> VersionRow] /\ \A v \in Versions : ~version'[v].there
    <3>1. [there |-> FALSE, inspection |-> "none", preparation |-> "none"] \in VersionRow
      BY Zenon DEF VersionRow, Health
    <3>. QED
      BY <1>5, <3>1
  <2>3. inv' \in [DOMAIN inv' -> ArtifactStates] /\ DOMAIN inv' \subseteq Artifacts
    BY <1>5
  <2>4. DeletionTypes
    BY <1>1, <1>3, <1>5, <2>1, <2>2, <2>3, NoDeletionTyped DEF DeletionTypes, byteVars
  <2>5. PhaseKept'
    BY <1>1, <1>2, <1>3, <1>5, <2>1 DEF PhaseKept, Quieted
  <2>6. \A j \in Versions \X JobKinds : job'[j].state = "absent"
    BY <1>1, <1>5 DEF Residual
  <2>. QED
    BY <1>2, <2>1, <2>2, <2>4, <2>5, <2>6 DEF DeletionLife, Erases
<1>6. CASE UNCHANGED <<del, inv, source, version>>
  <2>1. DeletionTypes
    BY <1>1, <1>3, <1>6 DEF DeletionTypes, byteVars
  <2>2. PhaseKept'
    BY <1>1, <1>2, <1>3, <1>6 DEF PhaseKept, Quieted
  <2>. QED
    BY <1>1, <1>6, <2>1, <2>2 DEF DeletionLife, Quiet, SameSessions
<1>. QED
  BY <1>4, <1>5, <1>6 DEF FinishDeletion

LEMMA DeletionEffects ==
    ASSUME SourcesTypeOK, PlacesOK, PhaseKept, DeletionNext
    PROVE  DeletionTypes /\ PhaseKept' /\ DeletionLife /\ SameUploads
<1>1. DeletionTypes /\ PhaseKept' /\ DeletionLife
  BY PlanEffect, CancelDeletionEffect, RetryEffect, RunOneDeletionEffect, StartDestructionEffect,
     AdvancePassEffect, EraserPausesEffect, ArtifactEffect, FinishDeletionEffect
     DEF DeletionNext, EraserStep, DeletionLife
<1>2. SameUploads
  BY DEF DeletionNext, EraserStep, Plan, CancelDeletion, RetryPartial, RunOneDeletion,
     StartDestruction, RemoveArtifact, AdvancePass, VerifyArtifact, FinishDeletion, EraserThrows,
     DeletionLease
<1>. QED
  BY <1>1, <1>2

\* After a step of a deletion nothing is under way.
LEMMA DeletionQuiets ==
    ASSUME SourcesTypeOK, PlacesOK, PhaseKept, DeletionNext
    PROVE  Quieted'
<1>1. DeletionTypes /\ PhaseKept'
  BY DeletionEffects
<1>2. CASE Plan
  BY <1>1, <1>2, PlanEffect DEF PhaseKept, Renews
<1>3. CASE RemoveArtifact \/ VerifyArtifact
  <2>1. source.deletion = "deleting" /\ source' = source
    BY <1>3 DEF RemoveArtifact, VerifyArtifact, PhaseKept
  <2>. QED
    BY <1>1, <2>1 DEF PhaseKept
<1>4. CASE ~Plan /\ ~RemoveArtifact /\ ~VerifyArtifact
  <2>1. UNCHANGED <<upload, job>>
    BY <1>4 DEF DeletionNext, EraserStep, CancelDeletion, RetryPartial, RunOneDeletion,
       StartDestruction, AdvancePass, FinishDeletion, EraserThrows, DeletionLease, jobVars
  <2>2. source.deletion = "active" => /\ del.state = "absent" /\ del.claim = "none"
                                      /\ eraser.at \notin {"start", "remove", "verify", "finish"}
    BY DEF PhaseKept, NoDeletion
  <2>3. eraser.at \in {"idle", "start", "remove", "verify", "finish"}
    BY DeletionTypesBefore DEF EraserType, Erasing, Idle
  <2>4. source.deletion # "active"
    BY <1>4, <2>2, <2>3 DEF DeletionNext, EraserStep, CancelDeletion, RetryPartial, RunOneDeletion,
       ConfirmCancellation, CanConfirm, RecoverDeletion, Expired, ClaimDeletion,
       StartDestruction, AdvancePass, FinishDeletion, EraserThrows, DeletionLease
  <2>. QED
    BY <2>1, <2>4 DEF PhaseKept, Quieted
<1>. QED
  BY <1>2, <1>3, <1>4

-----------------------------------------------------------------------------
(* Restart *)

LEMMA AgedRow ==
    ASSUME NEW long \in BOOLEAN, NEW r \in JobType
    PROVE  /\ Aged(long, r) \in JobType /\ Aged(long, r).state = r.state
           /\ Aged(long, r).revision = r.revision
<1>1. "lapsed" \in Claims
  BY DEF Claims
<1>2. CASE Aged(long, r) = r
  BY <1>2
<1>3. CASE Aged(long, r) = [r EXCEPT !.claim = "lapsed"]
  BY <1>1, <1>3, ClaimSet
<1>. QED
  BY <1>2, <1>3 DEF Aged

\* What recovery makes of a row: it gets no state it may not have.
LEMMA RecoveredRow ==
    ASSUME NEW k, NEW r \in JobType
    PROVE  /\ Recovered(k, r) \in JobType
           /\ Recovered(k, r).revision = r.revision
           /\ Recovered(k, r).state = "absent" <=> r.state = "absent"
           /\ Recovered(k, r).state \in JobPending => r.state \in JobPending
           /\ Recovered(k, r) # r => HealthOf(Recovered(k, r).state) \in Health
<1>1. /\ "queued" \in JobStates /\ "failed" \in JobStates /\ "cancelled" \in JobStates
      /\ "running" \in JobPending /\ "cancelled" \notin JobPending
      /\ "queued" \in Health /\ "failed" \in Health /\ "none" \in Health
  BY DEF JobStates, JobPending, JobEnded, Health
<1>2. CASE Recovered(k, r) = r
  BY <1>2
<1>3. CASE r.state = "running" /\ Recovered(k, r) = Released(r, "queued")
  BY <1>1, <1>3, ReleasedSet DEF HealthOf
<1>4. CASE r.state = "running" /\ Recovered(k, r) = Released(r, "failed")
  BY <1>1, <1>4, ReleasedSet DEF HealthOf
<1>5. CASE r.state = "cancel_requested" /\ Recovered(k, r) = Released(r, "cancelled")
  BY <1>1, <1>5, ReleasedSet DEF HealthOf
<1>. QED
  BY <1>2, <1>3, <1>4, <1>5 DEF Recovered

LEMMA RecoveredHealthTyped ==
    ASSUME NEW rows \in [Versions \X JobKinds -> JobType], NEW v \in Versions,
           NEW aspect, NEW old \in Health
    PROVE  RecoveredHealth(rows, v, aspect, old) \in Health
<1>1. ASSUME NEW k \in JobKinds, Recovered(k, rows[<<v, k>>]) # rows[<<v, k>>]
      PROVE  HealthOf(Recovered(k, rows[<<v, k>>]).state) \in Health
  <2>1. rows[<<v, k>>] \in JobType
    OBVIOUS
  <2>. QED
    BY <1>1, <2>1, RecoveredRow
<1>. QED
  BY <1>1 DEF RecoveredHealth

LEMMA AgedDeletion ==
    ASSUME NEW long \in BOOLEAN, NEW d \in DeletionRow
    PROVE  /\ Aged(long, d) \in DeletionRow /\ Aged(long, d).state = d.state
           /\ Aged(long, d).checkpoint = d.checkpoint
           /\ d.claim = "none" => Aged(long, d) = d
<1>1. "lapsed" \in Claims
  BY DEF Claims
<1>2. CASE Aged(long, d) = d
  BY <1>2
<1>3. CASE Aged(long, d) = [d EXCEPT !.claim = "lapsed"] /\ d.claim = "live"
  BY <1>1, <1>3, DeletionClaimSet
<1>. QED
  BY <1>2, <1>3 DEF Aged

LEMMA RecoveredDeletionRow ==
    ASSUME NEW d \in DeletionRow
    PROVE  /\ RecoveredDeletion(d) \in DeletionRow
           /\ RecoveredDeletion(d).checkpoint = d.checkpoint
           /\ \/ RecoveredDeletion(d) = d
              \/ d.state = "running" /\ RecoveredDeletion(d).state = "queued"
              \/ /\ d.state = "running" /\ RecoveredDeletion(d).state = "partial"
                 /\ d.checkpoint # 0
<1>1. "queued" \in DeletionStates /\ "partial" \in DeletionStates /\ 0 \in 0..MaxAttempts
  BY SourceAssumption DEF DeletionStates
<1> DEFINE queued == Released(d, "queued")
           partial == Released(d, "partial")
<1>2. /\ queued \in DeletionRow /\ queued.state = "queued" /\ queued.checkpoint = d.checkpoint
      /\ partial \in DeletionRow /\ partial.state = "partial" /\ partial.checkpoint = d.checkpoint
  BY <1>1, DeletionReleased
<1>3. \/ RecoveredDeletion(d) = d
      \/ d.state = "running" /\ RecoveredDeletion(d) = queued
      \/ d.state = "running" /\ RecoveredDeletion(d) = [queued EXCEPT !.attempt = 0]
      \/ d.state = "running" /\ d.checkpoint # 0 /\ RecoveredDeletion(d) = partial
  BY DEF RecoveredDeletion, Expired
<1> HIDE DEF queued, partial
<1>4. /\ [queued EXCEPT !.attempt = 0] \in DeletionRow
      /\ [queued EXCEPT !.attempt = 0].state = "queued"
      /\ [queued EXCEPT !.attempt = 0].checkpoint = d.checkpoint
  BY <1>1, <1>2, DeletionAttemptSet
<1>. QED
  BY <1>2, <1>3, <1>4

\* What boot makes of the rows.
Reboots ==
    /\ source' \in SourceRow /\ version' \in [Versions -> VersionRow]
    /\ source'.revision = source.revision /\ source'.current = source.current
    /\ \/ source'.deletion = source.deletion
       \/ source.deletion = "deleting" /\ source'.deletion = "partially_deleted"
    /\ \A v \in Versions : version'[v].there = version[v].there
    /\ RowsKept

LEMMA RestartRows ==
    ASSUME SourcesTypeOK, PlacesOK, PhaseKept, Restart
    PROVE  Reboots /\ PhaseKept' /\ del' \in DeletionRow
<1> USE DeletionTypesBefore
<1>1. PICK long \in BOOLEAN :
        LET rows == [j \in DOMAIN job |-> Aged(long, job[j])]
            d == Aged(long, del)
            s == RecoveredSource(d)
            shown(aspect, old) == IF source.deletion = "active" /\ source.current \in Versions
                                  THEN RecoveredHealth(rows, source.current, aspect, old)
                                  ELSE old
        IN /\ RecoverJobs(rows)
           /\ del' = RecoveredDeletion(d)
           /\ source' = [s EXCEPT !.inspection = shown("inspection", @),
                                  !.preparation = shown("preparation", @)]
  BY DEF Restart
<1> DEFINE rows == [j \in Versions \X JobKinds |-> Aged(long, job[j])]
           d == Aged(long, del)
           s == RecoveredSource(d)
<1>2. /\ rows \in [Versions \X JobKinds -> JobType]
      /\ \A j \in Versions \X JobKinds :
            rows[j].state = job[j].state /\ rows[j].revision = job[j].revision
  BY AgedRow
<1>3. rows = [j \in DOMAIN job |-> Aged(long, job[j])]
  OBVIOUS
<1>4. RecoverJobs(rows) /\ del' = RecoveredDeletion(d)
  BY <1>1, <1>3
<1>5. PICK x, y :
        /\ x = IF source.deletion = "active" /\ source.current \in Versions
               THEN RecoveredHealth(rows, source.current, "inspection", s.inspection)
               ELSE s.inspection
        /\ y = IF source.deletion = "active" /\ source.current \in Versions
               THEN RecoveredHealth(rows, source.current, "preparation", s.preparation)
               ELSE s.preparation
        /\ source' = [s EXCEPT !.inspection = x, !.preparation = y]
  BY <1>1, <1>3
<1> HIDE DEF rows
<1>6. RowsKept
  <2>1. job' = [j \in Versions \X JobKinds |-> Recovered(j[2], rows[j])]
    BY <1>2, <1>4 DEF RecoverJobs
  <2>2. ASSUME NEW j \in Versions \X JobKinds
        PROVE  /\ job'[j] \in JobType /\ job'[j].revision = job[j].revision
               /\ job'[j].state = "absent" <=> job[j].state = "absent"
               /\ job'[j].state \in JobPending => job[j].state \in JobPending
    <3>1. rows[j] \in JobType /\ rows[j].state = job[j].state /\ rows[j].revision = job[j].revision
      BY <1>2
    <3>2. job'[j] = Recovered(j[2], rows[j])
      BY <2>1
    <3>. QED
      BY <3>1, <3>2, RecoveredRow
  <2>3. job' \in [Versions \X JobKinds -> JobType]
    BY <2>1, <2>2
  <2>. QED
    BY <2>2, <2>3 DEF RowsKept
<1>7. version' \in [Versions -> VersionRow] /\ \A v \in Versions : version'[v].there = version[v].there
  <2>1. version' = [v \in Versions |->
          [there |-> version[v].there,
           inspection |-> RecoveredHealth(rows, v, "inspection", version[v].inspection),
           preparation |-> RecoveredHealth(rows, v, "preparation", version[v].preparation)]]
    BY <1>4 DEF RecoverJobs
  <2>2. ASSUME NEW v \in Versions
        PROVE  /\ version[v].there \in BOOLEAN
               /\ RecoveredHealth(rows, v, "inspection", version[v].inspection) \in Health
               /\ RecoveredHealth(rows, v, "preparation", version[v].preparation) \in Health
    <3>1. version[v].inspection \in Health /\ version[v].preparation \in Health
          /\ version[v].there \in BOOLEAN
      BY DEF VersionRow
    <3>. QED
      BY <1>2, <3>1, RecoveredHealthTyped
  <2>. QED
    BY <2>1, <2>2 DEF VersionRow
<1>8. /\ d \in DeletionRow /\ d.state = del.state /\ d.checkpoint = del.checkpoint
      /\ del.claim = "none" => d = del
  BY <1>1, AgedDeletion
<1> HIDE DEF d
<1>9. /\ del' \in DeletionRow /\ del'.checkpoint = d.checkpoint
      /\ \/ del' = d
         \/ d.state = "running" /\ del'.state = "queued"
         \/ d.state = "running" /\ del'.state = "partial" /\ d.checkpoint # 0
  BY <1>4, <1>8, RecoveredDeletionRow
<1>10. s = IF del'.state = "partial" /\ source.deletion = "deleting"
           THEN [source EXCEPT !.deletion = "partially_deleted"] ELSE source
  BY <1>4 DEF RecoveredSource
<1>11. /\ s \in SourceRow /\ s.revision = source.revision /\ s.current = source.current
       /\ s.deletion = IF del'.state = "partial" /\ source.deletion = "deleting"
                       THEN "partially_deleted" ELSE source.deletion
  <2> DEFINE partial == [source EXCEPT !.deletion = "partially_deleted"]
  <2>1. /\ partial \in SourceRow /\ partial.deletion = "partially_deleted"
        /\ partial.revision = source.revision /\ partial.current = source.current
    BY PhaseSet DEF Phases
  <2> HIDE DEF partial, s
  <2>2. del'.state = "partial" /\ source.deletion = "deleting" => s = partial
    BY <1>10 DEF partial
  <2>3. ~(del'.state = "partial" /\ source.deletion = "deleting") => s = source
    BY <1>10
  <2>. QED
    BY <2>1, <2>2, <2>3
<1> HIDE DEF s
<1>12. /\ source' \in SourceRow /\ source'.revision = source.revision
       /\ source'.current = source.current /\ source'.deletion = s.deletion
  <2>1. x \in Health /\ y \in Health
    <3>1. s.inspection \in Health /\ s.preparation \in Health
      BY <1>11 DEF SourceRow
    <3>. QED
      BY <1>2, <1>5, <3>1, RecoveredHealthTyped
  <2> DEFINE one == [s EXCEPT !.inspection = x]
  <2>2. /\ one \in SourceRow /\ one.revision = source.revision
        /\ one.current = source.current /\ one.deletion = s.deletion
    BY <1>11, <2>1 DEF SourceRow
  <2>3. source' = [one EXCEPT !.preparation = y]
    BY <1>5, <1>11 DEF SourceRow
  <2> HIDE DEF one
  <2>. QED
    BY <2>1, <2>2, <2>3 DEF SourceRow
<1>13. Reboots
  BY <1>6, <1>7, <1>11, <1>12 DEF Reboots
<1>14. Quieted => Quieted' \/ source.deletion = "active"
  <2>1. UNCHANGED upload
    BY DEF Restart
  <2>. QED
    BY <1>6, <2>1 DEF Quieted, RowsKept
<1>15. PhaseKept'
  <2>1. inv' = inv /\ eraser'.at = "idle"
    BY DEF Restart, Idle
  <2>2. source.deletion \in {"active", "deleted"} => del' = NoDeletion
    BY <1>8, <1>9 DEF PhaseKept, NoDeletion
  <2>3. CASE source.deletion \in {"active", "deleted"}
    BY <1>11, <1>12, <1>14, <2>1, <2>2, <2>3 DEF PhaseKept, NoDeletion
  <2>4. CASE source.deletion = "frozen"
    BY <1>8, <1>9, <1>11, <1>12, <1>14, <2>1, <2>4 DEF PhaseKept
  <2>5. CASE source.deletion = "deleting"
    BY <1>8, <1>9, <1>11, <1>12, <1>14, <2>1, <2>5 DEF PhaseKept
  <2>6. CASE source.deletion = "partially_deleted"
    BY <1>8, <1>9, <1>11, <1>12, <1>14, <2>1, <2>6 DEF PhaseKept
  <2>. QED
    BY <2>3, <2>4, <2>5, <2>6 DEF SourceRow, Phases
<1>. QED
  BY <1>9, <1>13, <1>15

LEMMA RestartPlaces ==
    ASSUME SourcesTypeOK, PlacesOK, Restart
    PROVE  /\ staged' \in StagedType /\ faults' \in FaultType
           /\ handler' \in [Versions -> HandlerType] /\ \A v \in Versions : handler'[v].at = "idle"
           /\ \A r \in Readers : reader'[r].at = "idle"
           /\ reader' \in [Readers -> {Idle} \cup Protected]
           /\ worker' = Idle /\ eraser' = Idle
           /\ BytesKept => BytesKept'
<1> USE UploadTypesBefore
<1>1. /\ staged' = [v \in Versions |-> IF upload[v].state = "open"
                                       THEN Reconciled(v, upload[v].offset) ELSE staged[v]]
      /\ handler' = [v \in Versions |-> Idle] /\ reader' = [r \in Readers |-> Idle]
      /\ worker' = Idle /\ eraser' = Idle /\ Fault /\ upload' = upload
  BY DEF Restart
<1>2. ASSUME NEW v \in Versions
      PROVE  /\ upload[v].offset \in 0..Chunks
             /\ Reconciled(v, upload[v].offset) \in Seq(1..Chunks)
             /\ Len(staged[v]) >= upload[v].offset =>
                  /\ Len(Reconciled(v, upload[v].offset)) = upload[v].offset
                  /\ \A i \in 1..upload[v].offset :
                        Reconciled(v, upload[v].offset)[i] = staged[v][i]
  <2>1. upload[v].offset \in 0..Chunks
    BY DEF UploadType
  <2>. QED
    BY <2>1, Reconciles
<1>3. staged' \in StagedType
  BY <1>1, <1>2 DEF StagedType
<1>4. handler' \in [Versions -> HandlerType] /\ \A v \in Versions : handler'[v].at = "idle"
  BY <1>1 DEF HandlerType, Idle
<1>5. /\ reader' \in [Readers -> {Idle} \cup Protected]
      /\ \A r \in Readers : reader'[r].at = "idle"
  BY <1>1 DEF Idle
<1>6. faults' \in FaultType
  BY <1>1, FaultCounted
<1>7. ASSUME BytesKept, NEW v \in Versions
      PROVE  Bytes(v)'
  <2>1. CASE upload[v].state = "open"
    <3>1. staged'[v] = Reconciled(v, upload[v].offset)
      BY <1>1, <2>1
    <3>2. Len(staged[v]) >= upload[v].offset /\ \A i \in 1..upload[v].offset : staged[v][i] = i
      BY <1>7, <2>1 DEF BytesKept, Bytes, Prefix
    <3>3. /\ Len(staged'[v]) = upload[v].offset /\ \A i \in 1..upload[v].offset : staged'[v][i] = i
      BY <1>2, <3>1, <3>2
    <3>4. upload[v].offset \in Int
      BY <1>2
    <3>. QED
      BY <1>1, <1>4, <3>3, <3>4 DEF Bytes, Prefix, Placing
  <2>2. CASE upload[v].state # "open"
    BY <1>1, <2>2 DEF Bytes
  <2>. QED
    BY <2>1, <2>2
<1>8. BytesKept => BytesKept'
  BY <1>7 DEF BytesKept
<1>. QED
  BY <1>1, <1>3, <1>4, <1>5, <1>6, <1>8

-----------------------------------------------------------------------------
(* Reads *)

ReaderType == {Idle} \cup Protected

LEMMA ReaderPlaces ==
    ASSUME SourcesTypeOK, PlacesOK, NEW r \in Readers
    PROVE  /\ reader \in [Readers -> ReaderType]
           /\ reader[r].at # "idle" =>
                /\ reader[r] \in Protected
                /\ reader[r].version \in Versions /\ reader[r].kind \in Preparations
                /\ reader[r].seen \in BOOLEAN
                /\ <<reader[r].version, reader[r].kind>> \in Things
<1>1. reader \in [Readers -> ReaderType] /\ reader[r] \in ReaderType
  BY DEF PlacesOK, ReaderType
<1>2. reader[r].at # "idle" => reader[r] \in Protected
  BY <1>1 DEF ReaderType, Idle
<1>. QED
  BY <1>1, <1>2 DEF Protected, Things

LEMMA ReadTyped ==
    ASSUME NEW at \in ReadAt, NEW v \in Versions, NEW k \in Preparations, NEW seen \in BOOLEAN
    PROVE  [at |-> at, version |-> v, kind |-> k, seen |-> seen] \in Protected
BY DEF Protected

LEMMA ReadGoes ==
    ASSUME NEW h \in Protected, NEW at \in ReadAt
    PROVE  /\ [h EXCEPT !.at = at] \in Protected /\ [h EXCEPT !.at = at].at = at
           /\ [h EXCEPT !.at = at].version = h.version /\ [h EXCEPT !.at = at].kind = h.kind
           /\ [h EXCEPT !.at = at].seen = h.seen
BY DEF Protected

\* Only what is not retired can be selected, and it has a job and a version.
LEMMA SelectableIsFresh ==
    ASSUME SourcesTypeOK, RevisionsKept, NEW v \in Versions, NEW k \in Preparations,
           Selectable(v, k)
    PROVE  /\ <<v, k>> \in Things /\ <<v, k>> \notin Retired
           /\ version[v].there /\ job[<<v, k>>].state # "absent"
<1>1. <<v, k>> \in Things /\ <<v, k>> \in Versions \X JobKinds
  BY DEF Things, JobKinds
<1>2. <<v, k>> \notin Retired
  BY DEF Selectable, Retired
<1>3. job[<<v, k>>].state # "absent"
  BY DEF Selectable
<1>4. version[<<v, k>>[1]].there
  BY <1>1, <1>3 DEF RevisionsKept
<1>. QED
  BY <1>1, <1>2, <1>3, <1>4

LEMMA MissedIsRetired ==
    ASSUME SourcesTypeOK, RevisionsKept, NEW v \in Versions, NEW k \in Preparations,
           version[v].there, job[<<v, k>>].state # "absent",
           ~(/\ source.deletion = "active" /\ source.current = v
             /\ source.revision = job[<<v, k>>].revision)
    PROVE  <<v, k>> \in Retired
<1>1. <<v, k>> \in Things /\ <<v, k>> \in Versions \X JobKinds
  BY DEF Things, JobKinds
<1>2. source.deletion # "active" => job[<<v, k>>].revision < source.revision
  BY <1>1 DEF RevisionsKept
<1>3. job[<<v, k>>].revision \in Nat /\ source.revision \in Nat
  <2>1. job[<<v, k>>] \in JobType
    BY <1>1 DEF SourcesTypeOK
  <2>. QED
    BY <2>1 DEF SourcesTypeOK, JobType, SourceRow
<1>4. source.deletion # "active" => job[<<v, k>>].revision # source.revision
  BY <1>2, <1>3
<1>. QED
  BY <1>1, <1>4 DEF Retired

LEMMA RetiredSame ==
    ASSUME UNCHANGED <<source, version, job>>
    PROVE  Retired' = Retired
BY DEF Retired

\* Reads go on as they were while everything else moves.
LEMMA ReadsStay ==
    ASSUME SourcesTypeOK, PlacesOK, ReadsKept, UNCHANGED reader,
           \A p \in Things :
              /\ p \in Retired => p \in Retired'
              /\ version[p[1]].there /\ job[p].state # "absent" =>
                   p \in Retired' \/ (version'[p[1]].there /\ job'[p].state # "absent")
    PROVE  ReadsKept'
<1> SUFFICES ASSUME NEW r \in Readers
             PROVE  Reads(r)'
  BY DEF ReadsKept
<1>1. Reads(r) /\ reader'[r] = reader[r]
  BY DEF ReadsKept
<1>2. reader[r].at # "idle" => <<reader[r].version, reader[r].kind>> \in Things
  BY ReaderPlaces
<1>. QED
  BY <1>1, <1>2 DEF Reads

LEMMA ReadEffects ==
    ASSUME SourcesTypeOK, PlacesOK, RevisionsKept, NEW r \in Readers, ReadStep(r)
    PROVE  /\ reader' \in [Readers -> ReaderType]
           /\ SameStores /\ UNCHANGED grants
           /\ ReadsKept => ReadsKept'
<1>1. SameStores /\ UNCHANGED grants
  BY DEF ReadStep, StartRead, Authorize, ReadBytes, LookAgain, EndRead
<1>2. Retired' = Retired /\ UNCHANGED <<source, version, job>>
  BY <1>1, RetiredSame DEF SameStores
<1>3. reader \in [Readers -> ReaderType]
  BY ReaderPlaces
<1>4. reader[r].at # "idle" =>
        /\ reader[r] \in Protected
        /\ reader[r].version \in Versions /\ reader[r].kind \in Preparations
        /\ <<reader[r].version, reader[r].kind>> \in Things
  BY ReaderPlaces
<1>5. ASSUME NEW new \in ReaderType, reader' = [reader EXCEPT ![r] = new],
             ReadsKept => Reads(r)'
      PROVE  reader' \in [Readers -> ReaderType] /\ (ReadsKept => ReadsKept')
  <2>1. reader' \in [Readers -> ReaderType] /\ \A q \in Readers \ {r} : reader'[q] = reader[q]
    BY <1>3, <1>5
  <2>2. ASSUME ReadsKept, NEW q \in Readers \ {r}
        PROVE  Reads(q)'
    <3>1. Reads(q) /\ reader'[q] = reader[q]
      BY <2>1, <2>2 DEF ReadsKept
    <3>. QED
      BY <1>2, <3>1 DEF Reads
  <2>. QED
    BY <1>5, <2>1, <2>2 DEF ReadsKept
<1>6. Idle \in ReaderType /\ Idle.at = "idle"
  BY DEF ReaderType, Idle
<1>7. ASSUME Refuse(r)
      PROVE  reader' \in [Readers -> ReaderType] /\ (ReadsKept => ReadsKept')
  <2>1. reader' = [reader EXCEPT ![r] = Idle]
    BY <1>7 DEF Refuse
  <2>2. Reads(r)'
    BY <1>3, <1>6, <2>1 DEF Reads
  <2>. QED
    BY <1>5, <1>6, <2>1, <2>2
<1>8. CASE StartRead(r)
  <2>1. PICK p \in Things : Selectable(p[1], p[2]) /\ Reading(r, "authorize", p[1], p[2], FALSE)
    BY <1>8 DEF StartRead
  <2>2. p[1] \in Versions /\ p[2] \in Preparations /\ p = <<p[1], p[2]>>
    BY DEF Things
  <2>3. version[p[1]].there /\ job[<<p[1], p[2]>>].state # "absent"
    BY <2>1, <2>2, SelectableIsFresh
  <2> DEFINE new == [at |-> "authorize", version |-> p[1], kind |-> p[2], seen |-> FALSE]
  <2>4. new \in ReaderType
    BY <2>2, ReadTyped DEF ReaderType, ReadAt
  <2>5. reader' = [reader EXCEPT ![r] = new]
    BY <2>1 DEF Reading
  <2>6. new.at = "authorize" /\ new.version = p[1] /\ new.kind = p[2]
    OBVIOUS
  <2> HIDE DEF new
  <2>7. reader'[r] = new
    BY <1>3, <2>5
  <2>8. Reads(r)'
    BY <1>2, <2>3, <2>6, <2>7 DEF Reads
  <2>. QED
    BY <1>1, <1>5, <2>4, <2>5, <2>8
<1>9. ASSUME NEW next \in ReadAt, reader[r].at # "idle",
             reader' = [reader EXCEPT ![r].at = next],
             next # "relook",
             ReadsKept /\ next \in {"reauthorize", "answered"} => reader[r].seen
      PROVE  reader' \in [Readers -> ReaderType] /\ (ReadsKept => ReadsKept')
  <2> DEFINE new == [reader[r] EXCEPT !.at = next]
  <2>1. /\ new \in Protected /\ new.at = next /\ new.version = reader[r].version
        /\ new.kind = reader[r].kind /\ new.seen = reader[r].seen
    BY <1>4, <1>9, ReadGoes
  <2>2. reader' = [reader EXCEPT ![r] = new]
    BY <1>9
  <2> HIDE DEF new
  <2>3. new \in ReaderType
    BY <2>1 DEF ReaderType
  <2>4. reader'[r] = new
    BY <1>3, <2>2
  <2>5. ReadsKept => Reads(r)'
    BY <1>2, <1>9, <2>1, <2>4 DEF Reads, ReadsKept
  <2>. QED
    BY <1>5, <2>2, <2>3, <2>5
<1>10. CASE Authorize(r, "authorize", "read") \/ Authorize(r, "reauthorize", "answered")
  <2>1. ReadsKept /\ reader[r].at = "reauthorize" => reader[r].seen
    BY DEF ReadsKept, Reads
  <2>2. {"read", "authorize", "reauthorize", "answered"} \subseteq ReadAt
    BY DEF ReadAt
  <2>3. CASE Authorize(r, "authorize", "read")
    BY <1>7, <1>9, <2>2, <2>3 DEF Authorize, ReaderAt
  <2>4. CASE Authorize(r, "reauthorize", "answered")
    BY <1>7, <1>9, <2>1, <2>2, <2>4 DEF Authorize, ReaderAt
  <2>. QED
    BY <1>10, <2>3, <2>4
<1>11. CASE ReadBytes(r)
  <2> DEFINE v == reader[r].version
             k == reader[r].kind
             seen == /\ source.deletion = "active" /\ source.current = v
                     /\ source.revision = job[<<v, k>>].revision
             new == [at |-> "relook", version |-> v, kind |-> k, seen |-> seen]
  <2>1. reader[r].at = "read" /\ (Refuse(r) \/ reader' = [reader EXCEPT ![r] = new])
    BY <1>11 DEF ReadBytes, ReaderAt, Reading
  <2>2. v \in Versions /\ k \in Preparations /\ seen \in BOOLEAN
    BY <1>4, <2>1
  <2>3. new \in ReaderType
    BY <2>2, ReadTyped DEF ReaderType, ReadAt
  <2>4. new.at = "relook" /\ new.version = v /\ new.kind = k /\ new.seen = seen
    OBVIOUS
  <2>5. CASE reader' = [reader EXCEPT ![r] = new]
    <3>1. ReadsKept => <<v, k>> \in Retired \/ (version[v].there /\ job[<<v, k>>].state # "absent")
      BY <2>1 DEF ReadsKept, Reads
    <3>2. ReadsKept /\ ~seen => <<v, k>> \in Retired
      BY <2>2, <3>1, MissedIsRetired
    <3> HIDE DEF new, seen, v, k
    <3>3. reader'[r] = new
      BY <1>3, <2>5
    <3>4. ReadsKept => Reads(r)'
      BY <1>2, <2>4, <3>1, <3>2, <3>3 DEF Reads
    <3>. QED
      BY <1>1, <1>5, <2>3, <2>5, <3>4
  <2>. QED
    BY <1>1, <1>7, <2>1, <2>5
<1>12. CASE LookAgain(r)
  <2>1. reader[r].at = "relook"
    BY <1>12 DEF LookAgain, ReaderAt
  <2>2. CASE /\ Selectable(reader[r].version, reader[r].kind)
             /\ reader' = [reader EXCEPT ![r].at = "reauthorize"]
    <3>1. <<reader[r].version, reader[r].kind>> \notin Retired
      BY <1>4, <2>1, <2>2, SelectableIsFresh
    <3>2. ReadsKept => reader[r].seen
      BY <2>1, <3>1 DEF ReadsKept, Reads
    <3>3. "relook" \in ReadAt /\ "reauthorize" \in ReadAt
      BY DEF ReadAt
    <3>. QED
      BY <1>1, <1>9, <2>1, <2>2, <3>2, <3>3
  <2>. QED
    BY <1>7, <1>12, <2>2 DEF LookAgain
<1>13. CASE EndRead(r)
  BY <1>7, <1>13 DEF EndRead
<1>. QED
  BY <1>1, <1>8, <1>10, <1>11, <1>12, <1>13 DEF ReadStep

-----------------------------------------------------------------------------
(* What every kind of step means for the life of the source *)

\* Job steps, refused uploads, reads and restarts: nothing is retired by them.
LEMMA RetiredCarried ==
    ASSUME SourcesTypeOK, Reboots
    PROVE  Retired' = Retired
<1>1. CASE source.deletion \in {"deleting", "partially_deleted", "deleted"}
  <2>1. source'.deletion \in {"deleting", "partially_deleted", "deleted"}
    BY <1>1 DEF Reboots
  <2>. QED
    BY <1>1, <2>1 DEF Retired
<1>2. CASE source.deletion \notin {"deleting", "partially_deleted", "deleted"}
  <2>1. source'.deletion = source.deletion
    BY <1>2 DEF Reboots
  <2>2. ASSUME NEW p \in Things
        PROVE  /\ (version'[p[1]].there /\ p[1] # source'.current)
                    <=> (version[p[1]].there /\ p[1] # source.current)
               /\ (job'[p].state # "absent" /\ job'[p].revision # source'.revision)
                    <=> (job[p].state # "absent" /\ job[p].revision # source.revision)
    <3>1. p[1] \in Versions /\ p \in Versions \X JobKinds
      BY DEF Things, JobKinds
    <3>2. version'[p[1]].there = version[p[1]].there /\ source'.current = source.current
      BY <3>1 DEF Reboots
    <3>3. /\ job[p].state # "absent" =>
               job'[p].state # "absent" /\ job'[p].revision = job[p].revision
          /\ job[p].state = "absent" /\ job'[p].state # "absent" =>
               job'[p].revision = source.revision
          /\ source'.revision = source.revision
      BY <3>1 DEF Reboots, RowsKept
    <3>. QED
      BY <3>2, <3>3
  <2>3. Retired' = {p \in Things : \/ version'[p[1]].there /\ p[1] # source'.current
                                   \/ /\ job'[p].state # "absent"
                                      /\ job'[p].revision # source'.revision}
    BY <1>2, <2>1 DEF Retired
  <2>4. Retired = {p \in Things : \/ version[p[1]].there /\ p[1] # source.current
                                  \/ /\ job[p].state # "absent"
                                     /\ job[p].revision # source.revision}
    BY <1>2 DEF Retired
  <2>. QED
    BY <2>2, <2>3, <2>4
<1>. QED
  BY <1>1, <1>2

LEMMA ReadsCarried ==
    ASSUME SourcesTypeOK, PlacesOK, ReadsKept, Reboots, UNCHANGED reader
    PROVE  ReadsKept'
<1>1. Retired' = Retired
  BY RetiredCarried
<1>2. ASSUME NEW p \in Things, version[p[1]].there, job[p].state # "absent"
      PROVE  version'[p[1]].there /\ job'[p].state # "absent"
  <2>1. p[1] \in Versions /\ p \in Versions \X JobKinds
    BY DEF Things, JobKinds
  <2>2. version'[p[1]].there = version[p[1]].there
    BY <2>1 DEF Reboots
  <2>. QED
    BY <1>2, <2>1, <2>2 DEF Reboots, RowsKept
<1>. QED
  BY <1>1, <1>2, ReadsStay

LEMMA RevisionsCarried ==
    ASSUME SourcesTypeOK, RevisionsKept, Reboots,
           \A v \in Versions :
              upload'[v].state \in {"open", "completing"} \/ handler'[v].at \in CompleteAt =>
                  ~version[v].there,
           Kept => \A v \in Versions : upload'[v].state = "absent" => handler'[v].at = "idle"
    PROVE  RevisionsKept'
<1>1. source'.current \in Versions => version'[source'.current].there
  BY DEF RevisionsKept, Reboots
<1>2. \A v \in Versions :
        upload'[v].state \in {"open", "completing"} \/ handler'[v].at \in CompleteAt =>
            ~version'[v].there
  BY DEF Reboots
<1>3. Kept' => \A v \in Versions : upload'[v].state = "absent" => handler'[v].at = "idle"
  BY DEF Kept, Reboots
<1>4. ASSUME NEW j \in Versions \X JobKinds, job'[j].state # "absent"
      PROVE  /\ version'[j[1]].there
             /\ job'[j].revision <= source'.revision
             /\ source'.deletion # "active" => job'[j].revision < source'.revision
  <2>1. j[1] \in Versions
    OBVIOUS
  <2>2. source'.revision = source.revision /\ version'[j[1]].there = version[j[1]].there
    BY <2>1 DEF Reboots
  <2>3. source.revision \in Nat
    BY DEF SourcesTypeOK, SourceRow
  <2>4. CASE job[j].state # "absent"
    <3>1. job'[j].revision = job[j].revision
      BY <2>4 DEF Reboots, RowsKept
    <3>2. /\ version[j[1]].there /\ job[j].revision <= source.revision
          /\ source.deletion # "active" => job[j].revision < source.revision
      BY <2>4 DEF RevisionsKept
    <3>3. source'.deletion # "active" => source.deletion # "active"
      BY DEF Reboots
    <3>. QED
      BY <2>2, <3>1, <3>2, <3>3
  <2>5. CASE job[j].state = "absent"
    <3>1. /\ job'[j].revision = source.revision
          /\ source.deletion = "active" /\ version[j[1]].there
      BY <1>4, <2>5 DEF Reboots, RowsKept
    <3>2. source'.deletion = "active"
      BY <3>1 DEF Reboots
    <3>. QED
      BY <2>2, <2>3, <3>1, <3>2
  <2>. QED
    BY <2>4, <2>5
<1>. QED
  BY <1>1, <1>2, <1>3, <1>4 DEF RevisionsKept

LEMMA SameRows ==
    ASSUME SourcesTypeOK, UNCHANGED <<source, version, job>>
    PROVE  Reboots
<1>1. job' \in [Versions \X JobKinds -> JobType]
  BY DEF SourcesTypeOK
<1>2. RowsKept
  BY <1>1 DEF RowsKept
<1>. QED
  BY <1>2 DEF Reboots, SourcesTypeOK

\* Nothing of an upload changes with what the other actors do.
LEMMA BytesStay ==
    ASSUME BytesKept, UNCHANGED <<upload, handler, staged>>
    PROVE  BytesKept'
<1> SUFFICES ASSUME NEW v \in Versions
             PROVE  Bytes(v)'
  BY DEF BytesKept
<1>1. Bytes(v)
  BY DEF BytesKept
<1>. QED
  BY <1>1 DEF Bytes, Prefix

LEMMA QuietBytes ==
    ASSUME Quieted'
    PROVE  BytesKept'
<1> SUFFICES ASSUME NEW v \in Versions
             PROVE  Bytes(v)'
  BY DEF BytesKept
<1>1. upload'[v].state # "open"
  BY DEF Quieted
<1>. QED
  BY <1>1 DEF Bytes

-----------------------------------------------------------------------------
(* The invariant is kept by every kind of step *)

\* The types of all tables and places after a step, which the lemmas above give
\* in parts.
LEMMA Typed ==
    ASSUME source' \in SourceRow, version' \in [Versions -> VersionRow],
           job' \in [Versions \X JobKinds -> JobType], product' \in ProductType,
           upload' \in [Versions -> UploadType],
           quar' \subseteq Versions, art' \subseteq Versions,
           staged' \in StagedType, object' \in ObjectType,
           del' \in DeletionRow,
           inv' \in [DOMAIN inv' -> ArtifactStates], DOMAIN inv' \subseteq Artifacts,
           grants' \subseteq Things, faults' \in FaultType,
           handler' \in [Versions -> HandlerType],
           worker' \in {Idle} \cup AtWork, worker'.at = "cleanup" => worker'.kind = "view",
           eraser' \in EraserType, reader' \in [Readers -> ReaderType]
    PROVE  SourcesTypeOK' /\ PlacesOK'
<1>1. \A a \in DOMAIN inv' : inv'[a] \in {"pending", "removed", "verified_absent", "failed"}
  BY DEF ArtifactStates
<1>2. SourcesTypeOK'
  BY <1>1 DEF SourcesTypeOK, ProductType, StagedType, ObjectType
<1>3. PlacesOK'
  BY DEF PlacesOK, HandlerType, EraserType, ReaderType, ArtifactStates
<1>. QED
  BY <1>2, <1>3

LEMMA TypesBefore ==
    ASSUME SourcesTypeOK, PlacesOK
    PROVE  /\ source \in SourceRow /\ version \in [Versions -> VersionRow]
           /\ job \in [Versions \X JobKinds -> JobType] /\ product \in ProductType
           /\ upload \in [Versions -> UploadType]
           /\ quar \subseteq Versions /\ art \subseteq Versions
           /\ staged \in StagedType /\ object \in ObjectType
           /\ del \in DeletionRow
           /\ inv \in [DOMAIN inv -> ArtifactStates] /\ DOMAIN inv \subseteq Artifacts
           /\ grants \subseteq Things /\ faults \in FaultType
           /\ handler \in [Versions -> HandlerType]
           /\ worker \in {Idle} \cup AtWork /\ (worker.at = "cleanup" => worker.kind = "view")
           /\ eraser \in EraserType /\ reader \in [Readers -> ReaderType]
<1>1. handler \in [Versions -> HandlerType] /\ reader \in [Readers -> ReaderType]
  BY DEF PlacesOK, HandlerType, ReaderType
<1>2. worker \in {Idle} \cup AtWork /\ (worker.at = "cleanup" => worker.kind = "view")
  BY DEF PlacesOK
<1>. QED
  BY <1>1, <1>2, DeletionTypesBefore

\* The phase agrees with the deletion as long as neither changes and no upload
\* or job starts in a source that is not active.
LEMMA PhaseCarried ==
    ASSUME PhaseKept, UNCHANGED <<del, inv, eraser>>, source'.deletion = source.deletion,
           Quieted /\ source.deletion # "active" => Quieted'
    PROVE  PhaseKept'
BY DEF PhaseKept

LEMMA JobStepKeeps ==
    ASSUME SourcesInv, JobNext
    PROVE  SourcesInv' /\ Reboots
<1> USE DEF SourcesInv
<1>1. JobEffect
  BY JobEffects
<1>2. RowsKept /\ SameLife /\ SameOutside
  BY <1>1, JobKeptRows DEF JobEffect
<1>3. UNCHANGED <<upload, handler, quar, staged, object, del, inv, eraser, grants, reader>>
  BY <1>2 DEF SameOutside
<1>4. Reboots
  BY <1>2 DEF SameLife, Reboots
<1>5. SourcesTypeOK' /\ PlacesOK'
  <2>1. worker'.at = "cleanup" => worker'.kind = "view"
    BY CleansViews
  <2>2. /\ product' \in ProductType /\ art' \subseteq Versions
        /\ worker' \in {Idle} \cup AtWork /\ faults' \in FaultType
        /\ source' \in SourceRow /\ version' \in [Versions -> VersionRow]
        /\ job' \in [Versions \X JobKinds -> JobType]
    BY <1>1, <1>2 DEF JobEffect, SameLife, RowsKept
  <2>3. /\ upload' \in [Versions -> UploadType]
        /\ quar' \subseteq Versions
        /\ staged' \in StagedType /\ object' \in ObjectType
        /\ del' \in DeletionRow
        /\ inv' \in [DOMAIN inv' -> ArtifactStates] /\ DOMAIN inv' \subseteq Artifacts
        /\ grants' \subseteq Things
        /\ handler' \in [Versions -> HandlerType]
        /\ eraser' \in EraserType /\ reader' \in [Readers -> ReaderType]
    BY <1>3, TypesBefore
  <2>. QED
    BY <2>1, <2>2, <2>3, Typed
<1>6. PhaseKept'
  <2>1. Quieted /\ source.deletion # "active" => Quieted'
    BY <1>2, <1>3 DEF Quieted, RowsKept
  <2>. QED
    BY <1>2, <1>3, <2>1, PhaseCarried DEF SameLife
<1>7. RevisionsKept'
  <2>1. \A v \in Versions :
          upload'[v].state \in {"open", "completing"} \/ handler'[v].at \in CompleteAt =>
              ~version[v].there
    BY <1>3 DEF RevisionsKept
  <2>2. Kept => \A v \in Versions : upload'[v].state = "absent" => handler'[v].at = "idle"
    BY <1>3 DEF RevisionsKept
  <2>. QED
    BY <1>4, <2>1, <2>2, RevisionsCarried
<1>8. ReadsKept'
  BY <1>3, <1>4, ReadsCarried
<1>9. BytesKept'
  BY <1>3, BytesStay
<1>. QED
  BY <1>4, <1>5, <1>6, <1>7, <1>8, <1>9

\* Grants and reads change no row of the source.
LEMMA OutsideKeeps ==
    ASSUME SourcesInv, SameStores, grants' \subseteq Things,
           reader' \in [Readers -> ReaderType], ReadsKept'
    PROVE  SourcesInv' /\ Reboots
<1> USE DEF SourcesInv
<1>1. UNCHANGED <<source, version, job, product, upload, del, inv, quar, staged, object, art,
                  handler, worker, eraser, faults>>
  BY DEF SameStores, byteVars
<1>2. Reboots
  BY <1>1, SameRows
<1>3. SourcesTypeOK' /\ PlacesOK'
  <2>1. /\ source' \in SourceRow /\ version' \in [Versions -> VersionRow]
        /\ job' \in [Versions \X JobKinds -> JobType] /\ product' \in ProductType
        /\ upload' \in [Versions -> UploadType]
        /\ quar' \subseteq Versions /\ art' \subseteq Versions
        /\ staged' \in StagedType /\ object' \in ObjectType
        /\ del' \in DeletionRow
        /\ inv' \in [DOMAIN inv' -> ArtifactStates] /\ DOMAIN inv' \subseteq Artifacts
        /\ faults' \in FaultType
        /\ handler' \in [Versions -> HandlerType]
        /\ worker' \in {Idle} \cup AtWork /\ (worker'.at = "cleanup" => worker'.kind = "view")
        /\ eraser' \in EraserType
    BY <1>1, TypesBefore
  <2>. QED
    BY <2>1, Typed
<1>4. PhaseKept'
  BY <1>1, PhaseCarried DEF Quieted
<1>5. RevisionsKept'
  BY <1>1 DEF RevisionsKept, Kept
<1>6. BytesKept'
  BY <1>1, BytesStay
<1>. QED
  BY <1>2, <1>3, <1>4, <1>5, <1>6

LEMMA GrantKeeps ==
    ASSUME SourcesInv, NEW v \in Versions, NEW k \in Preparations, Grant(v, k) \/ Revoke(v, k)
    PROVE  SourcesInv' /\ Reboots
<1>1. SameStores /\ UNCHANGED reader /\ grants' \subseteq Things
  BY DEF Grant, Revoke, Things, SourcesInv, SourcesTypeOK
<1>2. reader' \in [Readers -> ReaderType]
  BY <1>1, TypesBefore DEF SourcesInv
<1>3. Reboots
  BY <1>1, SameRows DEF SourcesInv, SameStores
<1>4. ReadsKept'
  BY <1>1, <1>3, ReadsCarried DEF SourcesInv
<1>. QED
  BY <1>1, <1>2, <1>4, OutsideKeeps

LEMMA ReadKeeps ==
    ASSUME SourcesInv, NEW r \in Readers, ReadStep(r)
    PROVE  SourcesInv' /\ Reboots
<1>1. /\ reader' \in [Readers -> ReaderType] /\ SameStores /\ UNCHANGED grants
      /\ ReadsKept'
  BY ReadEffects DEF SourcesInv
<1>2. grants' \subseteq Things
  BY <1>1 DEF SourcesInv, SourcesTypeOK
<1>. QED
  BY <1>1, <1>2, OutsideKeeps

LEMMA RestartKeeps ==
    ASSUME SourcesInv, Restart
    PROVE  SourcesInv' /\ Reboots
<1> USE DEF SourcesInv
<1>1. Reboots /\ PhaseKept' /\ del' \in DeletionRow
  BY RestartRows
<1>2. UNCHANGED <<product, upload, inv, grants, quar, object, art>>
  BY DEF Restart
<1>3. /\ staged' \in StagedType /\ faults' \in FaultType
      /\ handler' \in [Versions -> HandlerType] /\ \A v \in Versions : handler'[v].at = "idle"
      /\ \A r \in Readers : reader'[r].at = "idle"
      /\ reader' \in [Readers -> ReaderType]
      /\ worker' = Idle /\ eraser' = Idle
      /\ BytesKept'
  BY RestartPlaces DEF ReaderType
<1>4. SourcesTypeOK' /\ PlacesOK'
  <2>1. /\ product' \in ProductType /\ upload' \in [Versions -> UploadType]
        /\ quar' \subseteq Versions /\ art' \subseteq Versions /\ object' \in ObjectType
        /\ inv' \in [DOMAIN inv' -> ArtifactStates] /\ DOMAIN inv' \subseteq Artifacts
        /\ grants' \subseteq Things
    BY <1>2, TypesBefore
  <2>2. /\ worker' \in {Idle} \cup AtWork /\ (worker'.at = "cleanup" => worker'.kind = "view")
        /\ eraser' \in EraserType
    BY <1>3 DEF Idle, EraserType
  <2>3. /\ source' \in SourceRow /\ version' \in [Versions -> VersionRow]
        /\ job' \in [Versions \X JobKinds -> JobType]
    BY <1>1 DEF Reboots, RowsKept
  <2>. QED
    BY <1>1, <1>3, <2>1, <2>2, <2>3, Typed
<1>5. RevisionsKept'
  <2>1. \A v \in Versions :
          upload'[v].state \in {"open", "completing"} \/ handler'[v].at \in CompleteAt =>
              ~version[v].there
    BY <1>2, <1>3 DEF RevisionsKept, CompleteAt, Placing
  <2>2. Kept => \A v \in Versions : upload'[v].state = "absent" => handler'[v].at = "idle"
    BY <1>3
  <2>. QED
    BY <1>1, <2>1, <2>2, RevisionsCarried
<1>6. ReadsKept'
  BY <1>3 DEF ReadsKept, Reads
<1>. QED
  BY <1>1, <1>3, <1>4, <1>5, <1>6

LEMMA ThingPlaces ==
    ASSUME NEW p \in Things
    PROVE  p[1] \in Versions /\ p[2] \in Preparations /\ p \in Versions \X JobKinds /\ p = <<p[1], p[2]>>
BY DEF Things, JobKinds

LEMMA RetiredIs ==
    ASSUME NEW p \in Things
    PROVE  p \in Retired <=>
             \/ source.deletion \in {"deleting", "partially_deleted", "deleted"}
             \/ version[p[1]].there /\ p[1] # source.current
             \/ job[p].state # "absent" /\ job[p].revision # source.revision
BY DEF Retired

LEMMA RetiredIsAfter ==
    ASSUME NEW p \in Things
    PROVE  p \in Retired' <=>
             \/ source'.deletion \in {"deleting", "partially_deleted", "deleted"}
             \/ version'[p[1]].there /\ p[1] # source'.current
             \/ job'[p].state # "absent" /\ job'[p].revision # source'.revision
BY DEF Retired

\* A new version retires all that is there.
LEMMA RefreshRetires ==
    ASSUME SourcesTypeOK, PlacesOK, RevisionsKept, NEW v \in Versions, Refreshes(v),
           UNCHANGED job, NEW p \in Things
    PROVE  /\ ~version[v].there
           /\ version[p[1]].there <=> p[1] # v /\ version'[p[1]].there
           /\ p \in Retired' <=> version[p[1]].there
           /\ p \in Retired => p \in Retired'
           /\ job[p].state # "absent" => version[p[1]].there
<1>1. ~version[v].there
  BY DEF RevisionsKept, Refreshes, CompleteAt, Placing
<1>2. p[1] \in Versions /\ p \in Versions \X JobKinds
  BY ThingPlaces
<1>3. job[p].state # "absent" => version[p[1]].there
  BY <1>2 DEF RevisionsKept
<1>4. version[p[1]].there <=> p[1] # v /\ version'[p[1]].there
  BY <1>1, <1>2 DEF Refreshes
<1>5. /\ source.deletion = "active" /\ source'.deletion = "active" /\ source'.current = v
      /\ job'[p] = job[p]
  BY DEF Refreshes
<1>. QED
  BY <1>1, <1>3, <1>4, <1>5, RetiredIs, RetiredIsAfter

LEMMA UploadStepKeeps ==
    ASSUME SourcesInv, UploadNext
    PROVE  /\ SourcesInv' /\ UNCHANGED job
           /\ Reboots \/ \E v \in Versions : Refreshes(v)
<1> USE DEF SourcesInv
<1>1. /\ UploadEffect /\ BytesKept'
      /\ SourceStays \/ \E v \in Versions : Refreshes(v)
  BY UploadEffects
<1>2. UNCHANGED <<job, worker, del, inv, eraser, grants, reader, art>>
  BY <1>1 DEF UploadEffect, SameJobs
<1>3. /\ upload' \in [Versions -> UploadType] /\ handler' \in [Versions -> HandlerType]
      /\ quar' \subseteq Versions
      /\ staged' \in StagedType /\ object' \in ObjectType
      /\ faults' \in FaultType
  BY <1>1 DEF UploadEffect
<1>4. ASSUME NEW w \in Versions
      PROVE  /\ upload'[w].state \in {"open", "completing"} =>
                  \/ upload[w].state \in {"open", "completing"}
                  \/ source.deletion = "active" /\ ~version[w].there
             /\ upload'[w].state \in {"open", "completing"} \/ handler'[w].at \in CompleteAt =>
                  ~version[w].there
             /\ upload'[w].state = "absent" /\ handler'[w].at # "idle" =>
                  upload[w].state = "absent" /\ handler[w].at # "idle"
  BY <1>1 DEF UploadEffect, RevisionsKept
<1>5. Kept => \A v \in Versions : upload'[v].state = "absent" => handler'[v].at = "idle"
  BY <1>4 DEF RevisionsKept
<1>6. ASSUME source' \in SourceRow, version' \in [Versions -> VersionRow], product' \in ProductType
      PROVE  SourcesTypeOK' /\ PlacesOK'
  <2>1. /\ job' \in [Versions \X JobKinds -> JobType] /\ art' \subseteq Versions
        /\ del' \in DeletionRow
        /\ inv' \in [DOMAIN inv' -> ArtifactStates] /\ DOMAIN inv' \subseteq Artifacts
        /\ grants' \subseteq Things
        /\ worker' \in {Idle} \cup AtWork /\ (worker'.at = "cleanup" => worker'.kind = "view")
        /\ eraser' \in EraserType /\ reader' \in [Readers -> ReaderType]
    BY <1>2, TypesBefore
  <2>. QED
    BY <1>3, <1>6, <2>1, Typed
<1>7. ASSUME source'.deletion = source.deletion
      PROVE  PhaseKept'
  <2>1. Quieted /\ source.deletion # "active" => Quieted'
    BY <1>2, <1>4 DEF Quieted
  <2>. QED
    BY <1>2, <1>7, <2>1, PhaseCarried
<1>8. CASE SourceStays
  <2>1. UNCHANGED <<source, version, product, job>>
    BY <1>2, <1>8 DEF SourceStays
  <2>2. Reboots
    BY <2>1, SameRows
  <2>3. SourcesTypeOK' /\ PlacesOK'
    BY <1>6, <2>1, TypesBefore
  <2>4. PhaseKept'
    BY <1>7, <2>1
  <2>5. RevisionsKept'
    BY <1>4, <1>5, <2>2, RevisionsCarried
  <2>6. ReadsKept'
    BY <1>2, <2>2, ReadsCarried
  <2>. QED
    BY <1>1, <1>2, <2>2, <2>3, <2>4, <2>5, <2>6
<1>9. ASSUME NEW v \in Versions, Refreshes(v)
      PROVE  SourcesInv'
  <2>1. SourcesTypeOK' /\ PlacesOK'
    BY <1>6, <1>9 DEF Refreshes
  <2>2. PhaseKept'
    BY <1>7, <1>9 DEF Refreshes
  <2>3. ReadsKept'
    BY <1>2, <1>9, RefreshRetires, ReadsStay
  <2>4. RevisionsKept'
    <3>1. source'.current \in Versions => version'[source'.current].there
      BY <1>9 DEF Refreshes
    <3>2. ASSUME NEW w \in Versions
          PROVE  upload'[w].state \in {"open", "completing"} \/ handler'[w].at \in CompleteAt =>
                     ~version'[w].there
      <4>1. CASE w = v
        BY <1>9, <4>1 DEF Refreshes, CompleteAt, Placing
      <4>2. CASE w # v
        <5>1. version'[w].there = version[w].there
          BY <1>9, <4>2 DEF Refreshes
        <5>. QED
          BY <1>4, <5>1
      <4>. QED
        BY <4>1, <4>2
    <3>3. Kept' => \A w \in Versions : upload'[w].state = "absent" => handler'[w].at = "idle"
      BY <1>5, <1>9 DEF Refreshes, Kept
    <3>4. ASSUME NEW j \in Versions \X JobKinds, job'[j].state # "absent"
          PROVE  /\ version'[j[1]].there
                 /\ job'[j].revision <= source'.revision
                 /\ source'.deletion # "active" => job'[j].revision < source'.revision
      <4>1. job[j].state # "absent" /\ job'[j] = job[j] /\ job[j] \in JobType
        BY <1>2, <3>4 DEF SourcesTypeOK
      <4>2. version[j[1]].there /\ job[j].revision <= source.revision
        BY <4>1 DEF RevisionsKept
      <4>3. version'[j[1]].there
        BY <1>9, <4>2 DEF Refreshes
      <4>4. source.revision \in Nat /\ job[j].revision \in Nat
        BY <4>1 DEF SourcesTypeOK, SourceRow, JobType
      <4>5. source'.revision = source.revision + 1 /\ source'.deletion = "active"
        BY <1>9 DEF Refreshes
      <4>. QED
        BY <4>1, <4>2, <4>3, <4>4, <4>5
    <3>. QED
      BY <3>1, <3>2, <3>3, <3>4 DEF RevisionsKept
  <2>. QED
    BY <1>1, <2>1, <2>2, <2>3, <2>4
<1>. QED
  BY <1>1, <1>2, <1>8, <1>9

\* A new revision retires all that was begun; what was retired stays so.
LEMMA RenewRetires ==
    ASSUME SourcesTypeOK, RevisionsKept, NEW from \in {"active", "frozen"}, NEW to \in {"active", "frozen"},
           Renews(from, to), NEW p \in Things
    PROVE  /\ p \in Retired => p \in Retired'
           /\ job[p].state # "absent" => p \in Retired'
           /\ p \in Retired' => p \in Retired \/ job[p].state # "absent"
<1>1. p[1] \in Versions /\ p \in Versions \X JobKinds
  BY ThingPlaces
<1>2. /\ job'[p].revision = job[p].revision
      /\ job'[p].state = "absent" <=> job[p].state = "absent"
      /\ source'.revision = source.revision + 1
      /\ source'.current = source.current /\ version' = version
  BY <1>1 DEF Renews
<1>3. source.revision \in Nat /\ job[p].revision \in Nat
  <2>1. job[p] \in JobType
    BY <1>1 DEF SourcesTypeOK
  <2>. QED
    BY <2>1 DEF SourcesTypeOK, JobType, SourceRow
<1>4. job[p].state # "absent" => job[p].revision <= source.revision
  BY <1>1 DEF RevisionsKept
<1>5. job[p].state # "absent" => job'[p].revision # source'.revision
  BY <1>2, <1>3, <1>4
<1>6. /\ source.deletion \notin {"deleting", "partially_deleted", "deleted"}
      /\ source'.deletion \notin {"deleting", "partially_deleted", "deleted"}
  BY DEF Renews
<1>. QED
  BY <1>2, <1>5, <1>6, RetiredIs, RetiredIsAfter

Dead == {"deleting", "partially_deleted", "deleted"}

\* Once destruction has started all is retired.
LEMMA DeadRetires ==
    ASSUME source'.deletion \in Dead
    PROVE  Retired' = Things
BY DEF Retired, Dead

LEMMA DeletionRetires ==
    ASSUME SourcesTypeOK, RevisionsKept, DeletionLife, NEW p \in Things
    PROVE  /\ p \in Retired => p \in Retired'
           /\ version[p[1]].there /\ job[p].state # "absent" =>
                p \in Retired' \/ (version'[p[1]].there /\ job'[p].state # "absent")
<1>1. CASE Quiet
  <2>1. UNCHANGED <<source, version, job>>
    BY <1>1 DEF Quiet
  <2>. QED
    BY <2>1, RetiredSame
<1>2. CASE Renews("active", "frozen") \/ Renews("frozen", "active")
  BY <1>2, RenewRetires
<1>3. CASE \/ Sweeps \/ Erases \/ Moves("frozen", "deleting")
           \/ Moves("deleting", "partially_deleted") \/ Moves("partially_deleted", "deleting")
  <2>1. source'.deletion \in Dead
    BY <1>3 DEF Sweeps, Erases, Moves, Dead
  <2>. QED
    BY <2>1, DeadRetires
<1>. QED
  BY <1>1, <1>2, <1>3 DEF DeletionLife

LEMMA DeletionRevisions ==
    ASSUME SourcesTypeOK, RevisionsKept, DeletionLife, UNCHANGED handler, Quieted'
    PROVE  RevisionsKept'
<1>1. /\ version' = version \/ \A v \in Versions : ~version'[v].there
      /\ source'.current = source.current \/ source'.current = NoVersion
      /\ version' = version \/ source'.current = NoVersion
  BY DEF DeletionLife, Quiet, Sweeps, Erases, Renews, Moves
<1>2. source'.current \in Versions => version'[source'.current].there
  BY <1>1, SourceAssumption DEF RevisionsKept
<1>3. \A v \in Versions :
        upload'[v].state \in {"open", "completing"} \/ handler'[v].at \in CompleteAt =>
            ~version'[v].there
  BY <1>1 DEF RevisionsKept, Quieted
<1>4. Kept' => Kept /\ SameSessions
  BY DEF DeletionLife, Quiet, Sweeps, Erases, Renews, Moves, Kept
<1>5. Kept' => \A v \in Versions : upload'[v].state = "absent" => handler'[v].at = "idle"
  BY <1>4 DEF SameSessions, RevisionsKept
<1>6. ASSUME NEW j \in Versions \X JobKinds, job'[j].state # "absent"
      PROVE  /\ version'[j[1]].there
             /\ job'[j].revision <= source'.revision
             /\ source'.deletion # "active" => job'[j].revision < source'.revision
  <2>1. version' = version
    BY <1>6 DEF DeletionLife, Quiet, Sweeps, Erases, Renews, Moves
  <2>2. job[j].state # "absent" /\ job'[j].revision = job[j].revision
    BY <1>6 DEF DeletionLife, Quiet, Sweeps, Erases, Renews, Moves
  <2>3. /\ version[j[1]].there
        /\ job[j].revision <= source.revision
        /\ source.deletion # "active" => job[j].revision < source.revision
    BY <2>2 DEF RevisionsKept
  <2>4. source.revision \in Nat /\ job[j].revision \in Nat
    <3>1. job[j] \in JobType
      BY DEF SourcesTypeOK
    <3>. QED
      BY <3>1 DEF SourcesTypeOK, JobType, SourceRow
  <2>5. \/ source'.revision = source.revision + 1
        \/ /\ source'.revision = source.revision
           /\ source'.deletion # "active" => source.deletion # "active"
    BY DEF DeletionLife, Quiet, Sweeps, Erases, Renews, Moves
  <2>. QED
    BY <2>1, <2>2, <2>3, <2>4, <2>5
<1>. QED
  BY <1>2, <1>3, <1>5, <1>6 DEF RevisionsKept

LEMMA DeletionStepKeeps ==
    ASSUME SourcesInv, DeletionNext
    PROVE  SourcesInv' /\ DeletionLife
<1> USE DEF SourcesInv
<1>1. DeletionTypes /\ PhaseKept' /\ DeletionLife /\ SameUploads
  BY DeletionEffects
<1>2. UNCHANGED <<handler, worker, reader>>
  BY <1>1 DEF SameUploads
<1>3. Quieted'
  BY DeletionQuiets
<1>4. SourcesTypeOK' /\ PlacesOK'
  <2>1. /\ handler' \in [Versions -> HandlerType]
        /\ worker' \in {Idle} \cup AtWork /\ (worker'.at = "cleanup" => worker'.kind = "view")
        /\ reader' \in [Readers -> ReaderType]
    BY <1>2, TypesBefore
  <2>. QED
    BY <1>1, <2>1, Typed DEF DeletionTypes
<1>5. RevisionsKept'
  BY <1>1, <1>2, <1>3, DeletionRevisions
<1>6. ReadsKept'
  BY <1>1, <1>2, DeletionRetires, ReadsStay
<1>7. BytesKept'
  BY <1>3, QuietBytes
<1>. QED
  BY <1>1, <1>4, <1>5, <1>6, <1>7

-----------------------------------------------------------------------------
(* The theorems *)

LEMMA SourcesInvInit ==
    ASSUME SourceInit
    PROVE  SourcesInv
<1> USE DEF SourceInit
<1>1. NoUpload \in UploadType /\ NoJob \in JobType /\ NoDeletion \in DeletionRow
  BY NoUploadTyped, NoJobTyped, NoDeletionTyped
<1>2. source \in SourceRow
  BY DEF SourceRow, Phases, Health
<1>3. version \in [Versions -> VersionRow]
  BY DEF VersionRow, Health
<1>4. faults \in FaultType
  BY SourceAssumption DEF FaultType
<1>5. staged \in [Versions -> Seq(1..Chunks)]
  <2>1. <<>> \in Seq(1..Chunks)
    OBVIOUS
  <2>. QED
    BY <2>1
<1>6. DOMAIN inv = {}
  OBVIOUS
<1>7. SourcesTypeOK
  BY <1>1, <1>2, <1>3, <1>4, <1>5, <1>6 DEF SourcesTypeOK
<1>8. PlacesOK
  BY <1>6 DEF PlacesOK, Idle
<1>9. PhaseKept
  BY DEF PhaseKept, Idle
<1>10. RevisionsKept
  BY SourceAssumption DEF RevisionsKept, NoUpload, NoJob, Idle, CompleteAt, Placing
<1>11. ReadsKept
  BY DEF ReadsKept, Reads, Idle
<1>12. BytesKept
  BY DEF BytesKept, Bytes, NoUpload
<1>. QED
  BY <1>7, <1>8, <1>9, <1>10, <1>11, <1>12 DEF SourcesInv

LEMMA SourcesInvStutters ==
    ASSUME SourcesInv, UNCHANGED sourceVars
    PROVE  SourcesInv'
BY DEF SourcesInv, SourcesTypeOK, PlacesOK, PhaseKept, Quieted, RevisionsKept, Kept, ReadsKept, Reads,
       Retired, BytesKept, Bytes, Prefix, sourceVars, rowVars, byteVars

LEMMA SourcesInvStep ==
    ASSUME SourcesInv, [SourcesNext]_sourceVars
    PROVE  SourcesInv'
<1>1. CASE JobNext
  BY <1>1, JobStepKeeps
<1>2. CASE UploadNext
  BY <1>2, UploadStepKeeps
<1>3. CASE DeletionNext
  BY <1>3, DeletionStepKeeps
<1>4. ASSUME NEW v \in Versions, NEW k \in Preparations, Grant(v, k) \/ Revoke(v, k)
      PROVE  SourcesInv'
  BY <1>4, GrantKeeps
<1>5. ASSUME NEW r \in Readers, ReadStep(r)
      PROVE  SourcesInv'
  BY <1>5, ReadKeeps
<1>6. CASE Restart
  BY <1>6, RestartKeeps
<1>7. CASE UNCHANGED sourceVars
  BY <1>7, SourcesInvStutters
<1>. QED
  BY <1>1, <1>2, <1>3, <1>4, <1>5, <1>6, <1>7 DEF SourcesNext

\* The rows, the files and the places of handlers, workers and readers of a
\* source agree in every reachable state, whatever interleaves with its uploads,
\* jobs, deletion and restarts.
THEOREM SourcesInvariant == SourcesSpec => []SourcesInv
<1>1. SourceInit => SourcesInv
  BY SourcesInvInit
<1>2. SourcesInv /\ [SourcesNext]_sourceVars => SourcesInv'
  BY SourcesInvStep
<1>. QED
  BY <1>1, <1>2, PTL DEF SourcesSpec

\* The tables keep their types: the stores write only the states, offsets,
\* attempts and checkpoints their columns allow, and a staging file holds only
\* chunks of its upload.
THEOREM SourcesTypes == SourcesSpec => []SourcesTypeOK
<1>1. SourcesInv => SourcesTypeOK
  BY DEF SourcesInv
<1>. QED
  BY <1>1, SourcesInvariant, PTL

\* A protected read that answers took its bytes while the source was active at
\* the version and the revision the thing was prepared from: the second lookup of
\* protected-source-read.ts refuses what a refresh or a freeze overtook.
THEOREM AnswersWereOffered == SourcesSpec => []AnswerWasOffered
<1>1. ASSUME SourcesInv
      PROVE  AnswerWasOffered
  <2> SUFFICES ASSUME NEW r \in Readers, reader[r].at = "answered"
               PROVE  reader[r].seen
    BY DEF AnswerWasOffered, ReaderAt
  <2>1. Reads(r)
    BY <1>1 DEF SourcesInv, ReadsKept
  <2>. QED
    BY <2>1 DEF Reads
<1>. QED
  BY <1>1, SourcesInvariant, PTL

\* The bytes an upload acknowledged are in its staging file: the checkpoint of
\* advanceChunk never runs ahead of the append, and the append it repeats after
\* a crash starts where the checkpoint is.
THEOREM AcceptedBytes == SourcesSpec => []AcceptedBytesIntact
<1>1. ASSUME SourcesInv
      PROVE  AcceptedBytesIntact
  <2> SUFFICES ASSUME NEW v \in Versions, upload[v].state = "open"
               PROVE  /\ Len(staged[v]) >= upload[v].offset
                      /\ SubSeq(staged[v], 1, upload[v].offset) = SubSeq(Whole, 1, upload[v].offset)
    BY DEF AcceptedBytesIntact
  <2> DEFINE n == upload[v].offset
  <2>1. Prefix(v, n)
    BY <1>1 DEF SourcesInv, BytesKept, Bytes
  <2>2. n \in 0..Chunks /\ staged[v] \in Seq(1..Chunks)
    <3>1. upload[v] \in UploadType
      BY <1>1 DEF SourcesInv, SourcesTypeOK
    <3>. QED
      BY <1>1, <3>1 DEF SourcesInv, SourcesTypeOK, UploadType
  <2>3. Whole \in Seq(1..Chunks) /\ Len(Whole) = Chunks /\ \A i \in 1..Chunks : Whole[i] = i
    BY SourceAssumption DEF Whole
  <2>4. Len(staged[v]) >= n /\ \A i \in 1..n : staged[v][i] = i
    BY <2>1 DEF Prefix
  <2> HIDE DEF n
  <2>5. Len(staged[v]) \in Nat /\ Chunks \in Nat
    BY <2>2, SourceAssumption
  <2>6. /\ SubSeq(staged[v], 1, n) \in Seq(1..Chunks) /\ Len(SubSeq(staged[v], 1, n)) = n
        /\ \A i \in 1..n : SubSeq(staged[v], 1, n)[i] = staged[v][i]
    BY <2>2, <2>4, <2>5
  <2>7. /\ SubSeq(Whole, 1, n) \in Seq(1..Chunks) /\ Len(SubSeq(Whole, 1, n)) = n
        /\ \A i \in 1..n : SubSeq(Whole, 1, n)[i] = Whole[i]
    BY <2>2, <2>3, <2>5
  <2>8. \A i \in 1..n : SubSeq(staged[v], 1, n)[i] = SubSeq(Whole, 1, n)[i]
    BY <2>2, <2>3, <2>4, <2>6, <2>7
  <2>9. SubSeq(staged[v], 1, n) = SubSeq(Whole, 1, n)
    BY <2>6, <2>7, <2>8, SeqEqual
  <2>. QED
    BY <2>4, <2>9 DEF n
<1>. QED
  BY <1>1, SourcesInvariant, PTL

-----------------------------------------------------------------------------
(* The source implements SourceLifecycle *)

Offered == {p \in Things : Selectable(p[1], p[2])}

LEMMA OfferedIs ==
    ASSUME SourcesTypeOK, RevisionsKept, NEW p \in Things, p \in Offered
    PROVE  /\ source.deletion = "active" /\ p[1] = source.current
           /\ job[p].state # "absent" /\ p \notin Retired
<1>1. p = <<p[1], p[2]>> /\ p[1] \in Versions /\ p[2] \in Preparations
  BY ThingPlaces
<1>2. Selectable(p[1], p[2])
  BY DEF Offered
<1>3. p \notin Retired /\ job[p].state # "absent"
  BY <1>1, <1>2, SelectableIsFresh
<1>. QED
  BY <1>2, <1>3 DEF Selectable

LEMMA OfferedIsAfter ==
    ASSUME NEW p \in Things, p \in Offered'
    PROVE  /\ source'.deletion = "active" /\ p[1] = source'.current
           /\ source'.inspection = "done"
           /\ job'[p].state # "absent" /\ p \notin Retired'
<1>1. p = <<p[1], p[2]>>
  BY ThingPlaces
<1>2. Selectable(p[1], p[2])'
  BY DEF Offered
<1>3. /\ source'.deletion = "active" /\ p[1] = source'.current
      /\ source'.inspection = "done"
      /\ job'[p].state # "absent" /\ job'[p].revision = source'.revision
  BY <1>1, <1>2 DEF Selectable
<1>. QED
  BY <1>3, RetiredIsAfter

\* Jobs, uploads that do not complete, grants, reads and restarts.
LEMMA CarriedImplements ==
    ASSUME SourcesInv, Reboots
    PROVE  [Lifecycle!LifecycleNext]_(Lifecycle!lifecycleVars)
<1>1. Retired' = Retired /\ source'.current = source.current
  BY RetiredCarried DEF SourcesInv, Reboots
<1>2. CASE source.deletion = "active"
  <2>1. source'.deletion = "active"
    BY <1>2 DEF Reboots
  <2>2. Offered' \subseteq (({source.current} \X Preparations) \ Retired)
    <3> SUFFICES ASSUME NEW p \in Offered'
                 PROVE  p \in ({source.current} \X Preparations) \ Retired
      OBVIOUS
    <3>1. p \in Things
      BY DEF Offered
    <3>. QED
      BY <1>1, <3>1, OfferedIsAfter, ThingPlaces
  <2>. QED
    BY <1>1, <1>2, <2>1, <2>2 DEF Lifecycle!LifecycleNext, Lifecycle!Offer, Offered
<1>3. CASE source.deletion # "active"
  <2>1. Offered = {}
    BY <1>3 DEF Offered, Selectable
  <2>2. source'.deletion # "active"
    BY <1>3 DEF Reboots
  <2>3. Offered' = {}
    BY <2>2 DEF Offered, Selectable
  <2>4. CASE source'.deletion = source.deletion
    BY <1>1, <2>1, <2>3, <2>4 DEF Lifecycle!lifecycleVars, Offered
  <2>5. CASE source.deletion = "deleting" /\ source'.deletion = "partially_deleted"
    BY <1>1, <2>1, <2>3, <2>5 DEF Lifecycle!LifecycleNext, Lifecycle!GiveUp, Offered
  <2>. QED
    BY <2>4, <2>5 DEF Reboots
<1>. QED
  BY <1>2, <1>3

LEMMA RefreshImplements ==
    ASSUME SourcesInv, NEW v \in Versions, Refreshes(v), UNCHANGED job
    PROVE  Lifecycle!Refresh
<1> USE DEF SourcesInv
<1>1. \A p \in Things :
        /\ version[p[1]].there <=> p[1] # v /\ version'[p[1]].there
        /\ p \in Retired' <=> version[p[1]].there
        /\ p \in Retired => p \in Retired'
  BY RefreshRetires
<1>2. ~version[v].there
  BY DEF RevisionsKept, Refreshes, CompleteAt, Placing
<1>3. v # source.current
  BY <1>2 DEF RevisionsKept
<1>4. \A k \in Preparations : <<v, k>> \notin Retired
  <2> SUFFICES ASSUME NEW k \in Preparations
               PROVE  <<v, k>> \notin Retired
    OBVIOUS
  <2>1. <<v, k>> \in Things /\ <<v, k>>[1] = v
    BY DEF Things
  <2>. QED
    BY <1>1, <1>2, <2>1
<1>5. Offered' = {}
  <2>1. source'.inspection # "done"
    BY DEF Refreshes
  <2>. QED
    BY <2>1 DEF Offered, Selectable
<1>6. Retired' = Retired \cup (({source.current} \cap Versions) \X Preparations)
  <2>1. Retired \subseteq Things /\ Retired' \subseteq Things
    BY DEF Retired
  <2>2. ({source.current} \cap Versions) \X Preparations \subseteq Things
    BY DEF Things
  <2>3. ASSUME NEW p \in Things
        PROVE  p \in Retired' <=>
                 p \in Retired \/ p \in ({source.current} \cap Versions) \X Preparations
    <3>1. p[1] \in Versions /\ p[2] \in Preparations /\ p = <<p[1], p[2]>>
      BY ThingPlaces
    <3>2. p \in ({source.current} \cap Versions) \X Preparations <=> p[1] = source.current
      BY <3>1
    <3>3. p[1] = source.current => version[p[1]].there
      BY <3>1 DEF RevisionsKept
    <3>4. version[p[1]].there /\ p[1] # source.current => p \in Retired
      BY RetiredIs
    <3>. QED
      BY <1>1, <3>2, <3>3, <3>4
  <2>. QED
    BY <2>1, <2>2, <2>3
<1>7. source.deletion = "active" /\ source'.deletion = "active" /\ source'.current = v
  BY DEF Refreshes
<1>. QED
  BY <1>3, <1>4, <1>5, <1>6, <1>7 DEF Lifecycle!Refresh, Offered

LEMMA FreezeImplements ==
    ASSUME SourcesInv, Renews("active", "frozen")
    PROVE  Lifecycle!Freeze
<1> USE DEF SourcesInv
<1> DEFINE begun == {p \in Things : job[p].state # "absent" /\ p[1] = source.current}
<1>1. /\ source.deletion = "active" /\ source'.deletion = "frozen"
      /\ source'.current = source.current
  BY DEF Renews
<1>2. begun \subseteq {source.current} \X Preparations /\ begun \subseteq Things
  BY ThingPlaces
<1>3. Offered \subseteq begun
  <2> SUFFICES ASSUME NEW p \in Offered
               PROVE  p \in begun
    OBVIOUS
  <2>1. p \in Things
    BY DEF Offered
  <2>. QED
    BY <2>1, OfferedIs
<1>4. Offered' = {}
  BY <1>1 DEF Offered, Selectable
<1>5. Retired' = Retired \cup (begun \cap (Versions \X Preparations))
  <2>1. Retired \subseteq Things /\ Retired' \subseteq Things
    BY DEF Retired
  <2>2. ASSUME NEW p \in Things
        PROVE  p \in Retired' <=> p \in Retired \/ p \in begun
    <3>1. /\ p \in Retired => p \in Retired'
          /\ job[p].state # "absent" => p \in Retired'
          /\ p \in Retired' => p \in Retired \/ job[p].state # "absent"
      BY RenewRetires
    <3>2. job[p].state # "absent" /\ p[1] # source.current => p \in Retired
      <4>1. p \in Versions \X JobKinds
        BY ThingPlaces
      <4>2. job[p].state # "absent" => version[p[1]].there
        BY <4>1 DEF RevisionsKept
      <4>. QED
        BY <4>2, RetiredIs
    <3>. QED
      BY <3>1, <3>2
  <2>. QED
    BY <1>2, <2>1, <2>2 DEF Things
<1> HIDE DEF begun
<1>. QED
  BY <1>1, <1>2, <1>3, <1>4, <1>5 DEF Lifecycle!Freeze, Lifecycle!Things, Offered

LEMMA ThawImplements ==
    ASSUME SourcesInv, Renews("frozen", "active")
    PROVE  Lifecycle!Thaw
<1> USE DEF SourcesInv
<1>1. /\ source.deletion = "frozen" /\ source'.deletion = "active"
      /\ source'.current = source.current
  BY DEF Renews
<1>2. ASSUME NEW p \in Things
      PROVE  /\ p \in Retired' <=> p \in Retired
             /\ p \notin Offered'
  <2>1. /\ p \in Retired => p \in Retired'
        /\ job[p].state # "absent" => p \in Retired'
        /\ p \in Retired' => p \in Retired \/ job[p].state # "absent"
    BY RenewRetires
  <2>2. p \in Versions \X JobKinds
    BY ThingPlaces
  <2>3. job[p].state # "absent" => p \in Retired
    <3>1. job[p] \in JobType
      BY <2>2 DEF SourcesTypeOK
    <3>2. job[p].revision \in Nat /\ source.revision \in Nat
      BY <3>1 DEF SourcesTypeOK, JobType, SourceRow
    <3>3. job[p].state # "absent" => job[p].revision < source.revision
      BY <1>1, <2>2 DEF RevisionsKept
    <3>. QED
      BY <3>2, <3>3, RetiredIs
  <2>4. job'[p].state # "absent" => job[p].state # "absent"
    BY <2>2 DEF Renews
  <2>. QED
    BY <2>1, <2>3, <2>4, OfferedIsAfter
<1>3. Retired \subseteq Things /\ Retired' \subseteq Things
  BY DEF Retired
<1>4. Retired' = Retired
  BY <1>2, <1>3
<1>5. Offered = {}
  BY <1>1 DEF Offered, Selectable
<1>6. Offered' = {}
  <2>1. Offered' \subseteq Things
    BY DEF Offered
  <2>. QED
    BY <1>2, <2>1
<1>. QED
  BY <1>1, <1>4, <1>5, <1>6 DEF Lifecycle!Thaw, Offered

LEMMA DeletionImplements ==
    ASSUME SourcesInv, DeletionLife
    PROVE  [Lifecycle!LifecycleNext]_(Lifecycle!lifecycleVars)
<1>1. CASE Quiet
  <2>1. Reboots
    BY <1>1, SameRows DEF Quiet, SourcesInv
  <2>. QED
    BY <2>1, CarriedImplements
<1>2. CASE Renews("active", "frozen")
  BY <1>2, FreezeImplements DEF Lifecycle!LifecycleNext
<1>3. CASE Renews("frozen", "active")
  BY <1>3, ThawImplements DEF Lifecycle!LifecycleNext
<1>4. ASSUME source.deletion # "active", source'.deletion \in Dead
      PROVE  Offered = {} /\ Offered' = {} /\ Retired' = Things
  BY <1>4, DeadRetires DEF Offered, Selectable, Dead
<1>5. ASSUME source.deletion \in Dead
      PROVE  Retired = Things
  BY <1>5 DEF Retired, Dead
<1>6. CASE Moves("frozen", "deleting")
  <2>1. /\ source.deletion = "frozen" /\ source'.deletion = "deleting"
        /\ source'.current = source.current
    BY <1>6 DEF Moves
  <2>2. Offered = {} /\ Offered' = {} /\ Retired' = Things
    BY <1>4, <2>1 DEF Dead
  <2>. QED
    BY <2>1, <2>2 DEF Lifecycle!LifecycleNext, Lifecycle!Destroy, Lifecycle!Things, Things, Offered
<1>7. CASE Moves("deleting", "partially_deleted")
  <2>1. /\ source.deletion = "deleting" /\ source'.deletion = "partially_deleted"
        /\ source'.current = source.current
    BY <1>7 DEF Moves
  <2>2. Offered = {} /\ Offered' = {} /\ Retired' = Retired
    BY <1>4, <1>5, <2>1 DEF Dead
  <2>. QED
    BY <2>1, <2>2 DEF Lifecycle!LifecycleNext, Lifecycle!GiveUp, Offered
<1>8. CASE Moves("partially_deleted", "deleting")
  <2>1. /\ source.deletion = "partially_deleted" /\ source'.deletion = "deleting"
        /\ source'.current = source.current
    BY <1>8 DEF Moves
  <2>2. Offered = {} /\ Offered' = {} /\ Retired' = Retired
    BY <1>4, <1>5, <2>1 DEF Dead
  <2>. QED
    BY <2>1, <2>2 DEF Lifecycle!LifecycleNext, Lifecycle!Retry, Offered
<1>9. CASE Erases
  <2>1. /\ source.deletion = "deleting" /\ source'.deletion = "deleted"
        /\ source'.current = NoVersion
    BY <1>9 DEF Erases
  <2>2. Offered = {} /\ Offered' = {} /\ Retired' = Retired
    BY <1>4, <1>5, <2>1 DEF Dead
  <2>. QED
    BY <2>1, <2>2 DEF Lifecycle!LifecycleNext, Lifecycle!Erase, Offered
<1>10. CASE Sweeps
  <2>1. source.deletion = "deleting" /\ source' = source
    BY <1>10 DEF Sweeps
  <2>2. Offered = {} /\ Offered' = {} /\ Retired' = Retired
    BY <1>4, <1>5, <2>1 DEF Dead
  <2>. QED
    BY <2>1, <2>2 DEF Lifecycle!lifecycleVars, Offered
<1>. QED
  BY <1>1, <1>2, <1>3, <1>6, <1>7, <1>8, <1>9, <1>10 DEF DeletionLife

LEMMA InitImplements ==
    ASSUME SourceInit
    PROVE  Lifecycle!LifecycleInit
<1>1. source.deletion = "active" /\ source.current = NoVersion /\ source.inspection = "none"
  BY DEF SourceInit
<1>2. Offered = {}
  BY <1>1 DEF Offered, Selectable
<1>3. ASSUME NEW p \in Things
      PROVE  p \notin Retired
  <2>1. p[1] \in Versions /\ p \in Versions \X JobKinds
    BY ThingPlaces
  <2>2. ~version[p[1]].there /\ job[p].state = "absent"
    BY <2>1 DEF SourceInit, NoJob
  <2>. QED
    BY <1>1, <2>2, RetiredIs
<1>4. Retired = {}
  BY <1>3 DEF Retired
<1>. QED
  BY <1>1, <1>2, <1>4 DEF Lifecycle!LifecycleInit, Offered

LEMMA StepImplements ==
    ASSUME SourcesInv, [SourcesNext]_sourceVars
    PROVE  [Lifecycle!LifecycleNext]_(Lifecycle!lifecycleVars)
<1>1. CASE JobNext
  BY <1>1, JobStepKeeps, CarriedImplements
<1>2. CASE UploadNext
  <2>1. UNCHANGED job /\ (Reboots \/ \E v \in Versions : Refreshes(v))
    BY <1>2, UploadStepKeeps
  <2>. QED
    BY <2>1, CarriedImplements, RefreshImplements DEF Lifecycle!LifecycleNext
<1>3. CASE DeletionNext
  BY <1>3, DeletionStepKeeps, DeletionImplements
<1>4. ASSUME NEW v \in Versions, NEW k \in Preparations, Grant(v, k) \/ Revoke(v, k)
      PROVE  Reboots
  BY <1>4, GrantKeeps
<1>5. ASSUME NEW r \in Readers, ReadStep(r)
      PROVE  Reboots
  BY <1>5, ReadKeeps
<1>6. CASE Restart
  BY <1>6, RestartKeeps, CarriedImplements
<1>7. CASE UNCHANGED sourceVars
  <2>1. Reboots
    BY <1>7, SameRows DEF sourceVars, rowVars, SourcesInv
  <2>. QED
    BY <2>1, CarriedImplements
<1>. QED
  BY <1>1, <1>2, <1>3, <1>4, <1>5, <1>6, <1>7, CarriedImplements DEF SourcesNext

\* Uploads, jobs, the deletion, leases, reads and restarts of the gateway
\* together implement the abstract life of a source, for any number of versions,
\* preparations and faults: a refresh, plan, confirmCancellation,
\* startDestruction, retryPartial and finish are its steps, everything else only
\* offers what is fresh or takes it back.
THEOREM SourcesRefinement == SourcesSpec => ImplementsLifecycle
<1>1. SourceInit => Lifecycle!LifecycleInit
  BY InitImplements
<1>2. SourcesInv /\ [SourcesNext]_sourceVars =>
        [Lifecycle!LifecycleNext]_(Lifecycle!lifecycleVars)
  BY StepImplements
<1>. QED
  BY <1>1, <1>2, SourcesInvariant, PTL DEF SourcesSpec, ImplementsLifecycle, Lifecycle!LifecycleSpec

=============================================================================
