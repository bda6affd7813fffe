--------------------------- MODULE SourceUploads ---------------------------
(***************************************************************************)
(* Uploads of a source: SourceUploadStore, the chunk and completion        *)
(* handlers (handlers/source-uploads.ts) and the files they move through   *)
(* (SourceByteStore): a chunk is received into quarantine, appended to the *)
(* staging file, checkpointed in the session row; a complete upload is     *)
(* verified, renamed to its place and made the current version.            *)
(*                                                                         *)
(* withUploadLock serialises the requests of one upload, except that a     *)
(* chunk is received before the lock; one request at a time with any       *)
(* offset stands for them.  Nothing here takes a lock against deletion.    *)
(***************************************************************************)
EXTENDS SourceRecord

SameJobs == UNCHANGED <<job, worker, del, inv, eraser, grants, reader>>

Serve(v, new) == handler' = [handler EXCEPT ![v] = new]
Step(v, at) == Serve(v, [handler[v] EXCEPT !.at = at])
Done(v) == Serve(v, Idle)
SetUpload(v, new) == upload' = [upload EXCEPT ![v] = new]

\* reconcile: what the staging file holds past the durable offset is cut off.
\* A shorter file is left as it is.
Short(v, offset) == Len(staged[v]) < offset

\* Mutant of Reconciled: the staging file is not cut back.
KeepResidue(v, offset) == staged[v]

Reconciled(v, offset) == IF Short(v, offset) THEN staged[v] ELSE SubSeq(staged[v], 1, offset)

\* SourceUploadStore.create
CreateUpload(v) ==
    /\ source.deletion = "active"
    /\ upload[v].state = "absent" /\ ~version[v].there
    /\ SetUpload(v, [NoUpload EXCEPT !.state = "open", !.revision = source.revision,
                                     !.base = source.current])
    /\ UNCHANGED <<source, version, product, handler, byteVars, faults>> /\ SameJobs

\* getScoped finds the session past its time.
ExpireUpload(v) ==
    /\ upload[v].state = "open" /\ handler[v].at = "idle"
    /\ SetUpload(v, [upload[v] EXCEPT !.state = "expired"])
    /\ UNCHANGED <<source, version, product, handler, byteVars, faults>> /\ SameJobs

-----------------------------------------------------------------------------
(* createWriteSourceUploadChunkHandler *)

\* Mutant of BeginChunk: the offset is not compared with the size.
BeginAnyChunk(v) ==
    /\ handler[v].at = "idle" /\ upload[v].state = "open"
    /\ \E offset \in 0..Chunks : Serve(v, [at |-> "receive", offset |-> offset])
    /\ UNCHANGED <<source, version, product, upload, byteVars, faults>> /\ SameJobs

\* The session is looked at once before the body is received ...
BeginChunk(v) ==
    /\ handler[v].at = "idle" /\ upload[v].state = "open"
    /\ \E offset \in 0..(Chunks - 1) : Serve(v, [at |-> "receive", offset |-> offset])
    /\ UNCHANGED <<source, version, product, upload, byteVars, faults>> /\ SameJobs

\* receive; the body may also break off, and then leaves nothing.
Receive(v) ==
    /\ handler[v].at = "receive"
    /\ \/ quar' = quar \cup {v} /\ Step(v, "locked")
       \/ Done(v) /\ UNCHANGED quar
    /\ UNCHANGED <<source, version, product, upload, staged, object, art, faults>> /\ SameJobs

\* ... and again under the lock: a closed session, a replayed or conflicting
\* offset and a staging file shorter than the checkpoint end the request.
EnterChunk(v) ==
    /\ handler[v].at = "locked"
    /\ LET u == upload[v] IN
       IF u.state = "open" /\ handler[v].offset = u.offset /\ ~Short(v, u.offset)
       THEN /\ staged' = [staged EXCEPT ![v] = Reconciled(v, u.offset)]
            /\ Step(v, "append")
       ELSE Step(v, "discard") /\ UNCHANGED staged
    /\ UNCHANGED <<source, version, product, upload, quar, object, art, faults>> /\ SameJobs

\* append copies the quarantined chunk; it fails once the chunk is gone.
AppendChunk(v) ==
    /\ handler[v].at = "append"
    /\ IF v \in quar
       THEN /\ staged' = [staged EXCEPT ![v] = Append(@, handler[v].offset + 1)]
            /\ Step(v, "advance")
       ELSE Step(v, "discard") /\ UNCHANGED staged
    /\ UNCHANGED <<source, version, product, upload, quar, object, art, faults>> /\ SameJobs

\* advanceChunk; when it throws the append is undone.
AdvanceChunk(v) ==
    /\ handler[v].at = "advance"
    /\ LET u == upload[v] IN
       \/ /\ u.state = "open" /\ u.offset = handler[v].offset
          /\ SetUpload(v, [u EXCEPT !.offset = @ + 1])
          /\ UNCHANGED <<staged, faults>>
       \/ /\ IF u.state = "open" THEN Fault ELSE UNCHANGED faults
          /\ staged' = [staged EXCEPT ![v] = Reconciled(v, handler[v].offset)]
          /\ UNCHANGED upload
    /\ Step(v, "discard")
    /\ UNCHANGED <<source, version, product, quar, object, art>> /\ SameJobs

Discard(v) ==
    /\ handler[v].at = "discard"
    /\ quar' = quar \ {v}
    /\ Done(v)
    /\ UNCHANGED <<source, version, product, upload, staged, object, art, faults>> /\ SameJobs

-----------------------------------------------------------------------------
(* createCompleteSourceUploadHandler *)

Complete(at, fresh) == [at |-> at, fresh |-> fresh]

MarkFailed(v) == SetUpload(v, [upload[v] EXCEPT !.state = "failed"])

\* An open session with all its bytes is reconciled and inspected; one left
\* completing by a crash is taken up again at its placement.  The bytes may
\* also fail the declared checksum or format.
BeginComplete(v) ==
    /\ handler[v].at = "idle"
    /\ LET u == upload[v] IN
       \/ /\ u.state = "open" /\ u.offset = Chunks
          /\ staged' = [staged EXCEPT ![v] = Reconciled(v, Chunks)]
          /\ \/ staged'[v] = Whole /\ Serve(v, Complete("begin", TRUE)) /\ UNCHANGED upload
             \/ MarkFailed(v) /\ UNCHANGED handler
       \/ /\ u.state = "completing"
          /\ Serve(v, Complete("directory", FALSE))
          /\ UNCHANGED <<upload, staged>>
    /\ UNCHANGED <<source, version, product, quar, object, art, faults>> /\ SameJobs

\* beginCompletion chooses the version's id; it throws when the session was
\* closed meanwhile.
BeginCompletion(v) ==
    /\ handler[v].at = "begin"
    /\ IF upload[v].state = "open" /\ upload[v].offset = Chunks
       THEN /\ SetUpload(v, [upload[v] EXCEPT !.state = "completing", !.pending = TRUE])
            /\ Step(v, "directory")
       ELSE Done(v) /\ UNCHANGED upload
    /\ UNCHANGED <<source, version, product, byteVars, faults>> /\ SameJobs

\* place: the version's directory, then the rename unless the original is there.
PlaceDirectory(v) ==
    /\ handler[v].at = "directory"
    /\ object' = [object EXCEPT ![v] = IF @ = "none" THEN "empty" ELSE @]
    /\ Step(v, "rename")
    /\ UNCHANGED <<source, version, product, upload, quar, staged, art, faults>> /\ SameJobs

Original == {"whole", "torn"}

Rename(v) ==
    /\ handler[v].at = "rename"
    /\ IF object[v] \in Original
       THEN Step(v, "inspect") /\ UNCHANGED <<staged, object>>
       ELSE IF object[v] = "empty" /\ staged[v] # <<>>
       THEN /\ object' = [object EXCEPT ![v] = IF staged[v] = Whole THEN "whole" ELSE "torn"]
            /\ staged' = [staged EXCEPT ![v] = <<>>]
            /\ Step(v, "inspect")
       ELSE Done(v) /\ UNCHANGED <<staged, object>>
    /\ UNCHANGED <<source, version, product, upload, quar, art, faults>> /\ SameJobs

\* A completion that was taken up again inspects what it finds in place.
InspectPlaced(v) ==
    /\ handler[v].at = "inspect"
    /\ IF handler[v].fresh \/ object[v] = "whole"
       THEN Step(v, "finish") /\ UNCHANGED upload
       ELSE /\ IF upload[v].state \in {"open", "completing"} THEN MarkFailed(v) ELSE UNCHANGED upload
            /\ Done(v)
    /\ UNCHANGED <<source, version, product, byteVars, faults>> /\ SameJobs

\* finishCompletion: a compare and set on the source's revision and current
\* version, which also makes what was prepared from older versions stale.
FinishCompletion(v) ==
    /\ handler[v].at = "finish"
    /\ LET u == upload[v]
           unchanged == /\ source.deletion = "active"
                        /\ source.revision = u.revision /\ source.current = u.base
       IN IF u.state = "completing" /\ unchanged
          THEN /\ source' = [source EXCEPT !.revision = @ + 1, !.current = v,
                                           !.inspection = "none", !.preparation = "none"]
               /\ version' = [version EXCEPT ![v].there = TRUE]
               /\ product' = [p \in Things |-> IF p[1] # v /\ product[p] = "current"
                                               THEN "stale" ELSE product[p]]
               /\ SetUpload(v, [u EXCEPT !.state = "completed"])
               /\ Done(v)
          ELSE /\ IF u.state = "completing" /\ source.deletion = "active"
                  THEN Step(v, "withdraw") ELSE Done(v)
               /\ UNCHANGED <<source, version, product, upload>>
    /\ UNCHANGED <<byteVars, faults>> /\ SameJobs

\* The source moved on: discardPlaced, then markFailed either way.
Withdraw(v) ==
    /\ handler[v].at = "withdraw"
    /\ \/ object' = [object EXCEPT ![v] = "none"] /\ UNCHANGED faults
       \/ "placed_candidate" \in Stubborn /\ Fault /\ UNCHANGED object
    /\ Step(v, "fail")
    /\ UNCHANGED <<source, version, product, upload, quar, staged, art>> /\ SameJobs

FailUpload(v) ==
    /\ handler[v].at = "fail"
    /\ IF upload[v].state = "completing" THEN MarkFailed(v) ELSE UNCHANGED upload
    /\ Done(v)
    /\ UNCHANGED <<source, version, product, byteVars, faults>> /\ SameJobs

UploadNext ==
    \E v \in Versions :
        \/ CreateUpload(v) \/ ExpireUpload(v)
        \/ BeginChunk(v) \/ Receive(v) \/ EnterChunk(v) \/ AppendChunk(v) \/ AdvanceChunk(v) \/ Discard(v)
        \/ BeginComplete(v) \/ BeginCompletion(v) \/ PlaceDirectory(v) \/ Rename(v)
        \/ InspectPlaced(v) \/ FinishCompletion(v) \/ Withdraw(v) \/ FailUpload(v)

============================================================================
