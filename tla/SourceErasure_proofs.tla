------------------------ MODULE SourceErasure_proofs ------------------------
(***************************************************************************)
(* What becomes of the bytes of a runtime source, for any versions,        *)
(* chunks, preparations, attempts and faults: nothing is lost before       *)
(* destruction starts, nothing escapes the inventory of the deletion, and  *)
(* what was erased stays erased.                                           *)
(***************************************************************************)
EXTENDS Sources_proofs

-----------------------------------------------------------------------------
(* The inductive invariant, beside SourcesInv *)

\* One version's bytes, from the first chunk to the original in its place.  A
\* completion that verified the staging file itself is "fresh", and nothing
\* touches that file or the place it goes to before the rename.
Placed(v) ==
    /\ upload[v].state = "open" => object[v] = "none"
    /\ handler[v].at = "begin" => handler[v].fresh = TRUE
    /\ upload[v].state = "open" /\ handler[v].at = "begin" => staged[v] = Whole
    /\ upload[v].state = "completing" =>
         /\ upload[v].pending = TRUE
         /\ handler[v].at \in {"directory", "rename"} /\ handler[v].fresh = TRUE =>
              staged[v] = Whole /\ object[v] \in {"none", "empty"}
         /\ handler[v].at = "inspect" /\ handler[v].fresh = TRUE => object[v] = "whole"
         /\ handler[v].at = "finish" => object[v] = "whole"

\* ... and the rows that account for them until destruction starts.
Accounted(v) ==
    /\ version[v].there => object[v] = "whole"
    /\ upload[v].state = "absent" => object[v] = "none" /\ v \notin quar /\ staged[v] = <<>>
    /\ handler[v].at \in Placing \/ object[v] \in Original => upload[v].pending = TRUE

OriginalsKept == \A v \in Versions : Placed(v) /\ (Kept => Accounted(v))

Viewing == {"check", "record", "finish"}

\* The job row behind everything the worker has in hand and has published,
\* until destruction starts.
ViewsKept ==
    Kept =>
      /\ worker.at # "idle" => job[<<worker.version, worker.kind>>].state # "absent"
      /\ worker.at \in Viewing /\ worker.kind = "view" => worker.version \in art
      /\ \A p \in Things : product[p] # "none" => job[p].state # "absent"
      /\ \A v \in Versions : <<v, "view">> \in Things /\ product[<<v, "view">>] # "none" => v \in art
      /\ \A v \in art : <<v, "view">> \in Things /\ job[<<v, "view">>].state # "absent"

\* Everything there is, and everything that those still under way could bring
\* about, is among the artifacts.
Listed(artifacts) ==
    /\ Covered(artifacts)
    /\ \A v \in Versions :
         /\ handler[v].at # "idle" => <<"upload_staging", v>> \in artifacts
         /\ handler[v].at \in Placing => <<"placed_candidate", v>> \in artifacts
         /\ <<v, "view">> \in Things /\ job[<<v, "view">>].state # "absent" =>
              <<"data_view", v>> \in artifacts
    /\ worker.at # "idle" /\ worker.kind = "view" => <<"data_view", worker.version>> \in artifacts

Dying == source.deletion \in {"deleting", "partially_deleted"}

ListKept ==
    /\ source.deletion = "frozen" => DOMAIN inv = Inventory
    /\ Dying => Listed(DOMAIN inv)

ErasureInv == SourcesInv /\ OriginalsKept /\ ViewsKept /\ ListKept

-----------------------------------------------------------------------------
(* Originals: what an upload step does *)

Away(v) ==
    \A w \in Versions \ {v} :
        /\ upload'[w] = upload[w] /\ handler'[w] = handler[w]
        /\ staged'[w] = staged[w] /\ object'[w] = object[w]
        /\ w \in quar' <=> w \in quar
        /\ version'[w].there = version[w].there

LEMMA OriginalsAway ==
    ASSUME OriginalsKept, NEW v \in Versions, Away(v), Kept' <=> Kept,
           Placed(v)', Kept' => Accounted(v)'
    PROVE  OriginalsKept'
<1> SUFFICES ASSUME NEW w \in Versions \ {v}
             PROVE  Placed(w)' /\ (Kept' => Accounted(w)')
  BY DEF OriginalsKept
<1>1. /\ upload'[w] = upload[w] /\ handler'[w] = handler[w]
      /\ staged'[w] = staged[w] /\ object'[w] = object[w]
      /\ w \in quar' <=> w \in quar
      /\ version'[w].there = version[w].there
  BY DEF Away
<1>2. Placed(w) /\ (Kept => Accounted(w))
  BY DEF OriginalsKept
<1>3. Placed(w)'
  BY <1>1, <1>2 DEF Placed
<1>4. Accounted(w) => Accounted(w)'
  BY <1>1 DEF Accounted
<1>. QED
  BY <1>2, <1>3, <1>4

LEMMA PendingStays ==
    ASSUME NEW u \in UploadType, NEW state \in UploadStates
    PROVE  [u EXCEPT !.state = state].pending = u.pending
BY DEF UploadType

\* Requests that serve chunks, and what ends without having placed anything.
LEMMA ChunkKeeps ==
    ASSUME SourcesInv, OriginalsKept, NEW v \in Versions,
           handler'[v].at \in ChunkAt \cup {"idle"},
           upload'[v].state = upload[v].state, upload'[v].pending = upload[v].pending,
           UNCHANGED <<source, version, object>>,
           Kept => upload[v].state # "absent"
    PROVE  Placed(v)' /\ (Kept' => Accounted(v)')
<1>1. Placed(v) /\ (Kept => Accounted(v))
  BY DEF OriginalsKept
<1>2. handler'[v].at \notin {"begin", "directory", "rename", "inspect", "finish"}
  BY DEF ChunkAt
<1>3. handler'[v].at \notin Placing
  BY DEF ChunkAt, Placing
<1>4. Placed(v)'
  BY <1>1, <1>2 DEF Placed
<1>5. Kept' = Kept
  BY DEF Kept
<1>6. Kept => Accounted(v)'
  BY <1>1, <1>3 DEF Accounted
<1>. QED
  BY <1>4, <1>5, <1>6

\* An upload that fails or expires has nothing to be placed any more.
LEMMA ClosedKeeps ==
    ASSUME SourcesInv, OriginalsKept, NEW v \in Versions,
           handler'[v].at = "idle",
           upload'[v].state \in {"failed", "expired"}, upload'[v].pending = upload[v].pending,
           UNCHANGED <<source, version, object>>
    PROVE  Placed(v)' /\ (Kept' => Accounted(v)')
<1>1. Placed(v) /\ (Kept => Accounted(v))
  BY DEF OriginalsKept
<1>2. Placed(v)'
  BY DEF Placed
<1>3. Kept' = Kept
  BY DEF Kept
<1>4. Kept => Accounted(v)'
  BY <1>1 DEF Accounted, Placing
<1>. QED
  BY <1>2, <1>3, <1>4

\* A request under way belongs to an upload that is there.
LEMMA ServedIsThere ==
    ASSUME SourcesInv, NEW v \in Versions, handler[v].at # "idle"
    PROVE  Kept => upload[v].state # "absent"
BY DEF SourcesInv, RevisionsKept

LEMMA CreateOriginals ==
    ASSUME SourcesInv, OriginalsKept, NEW v \in Versions, CreateUpload(v)
    PROVE  OriginalsKept'
<1> USE TypesBefore DEF SourcesInv
<1>1. UNCHANGED <<source, version, handler, quar, staged, object>>
  BY DEF CreateUpload, byteVars
<1>2. source.deletion = "active" /\ upload[v].state = "absent" /\ ~version[v].there
  BY DEF CreateUpload
<1>3. /\ upload'[v].state = "open"
      /\ \A w \in Versions \ {v} : upload'[w] = upload[w]
  BY DEF CreateUpload, SetUpload, NoUpload
<1>4. Kept /\ Kept'
  BY <1>1, <1>2 DEF Kept
<1>5. handler[v].at = "idle"
  BY <1>2, <1>4 DEF RevisionsKept
<1>6. object[v] = "none"
  BY <1>2, <1>4 DEF OriginalsKept, Accounted
<1>7. Placed(v)'
  BY <1>1, <1>3, <1>5, <1>6 DEF Placed
<1>8. Accounted(v)'
  BY <1>1, <1>2, <1>3, <1>5, <1>6 DEF Accounted, Placing, Original
<1>9. Away(v)
  BY <1>1, <1>3 DEF Away
<1>. QED
  BY <1>4, <1>7, <1>8, <1>9, OriginalsAway

LEMMA ExpireOriginals ==
    ASSUME SourcesInv, OriginalsKept, NEW v \in Versions, ExpireUpload(v)
    PROVE  OriginalsKept'
<1> USE TypesBefore DEF SourcesInv
<1>1. UNCHANGED <<source, version, handler, quar, staged, object>> /\ handler[v].at = "idle"
  BY DEF ExpireUpload, byteVars
<1>2. /\ upload'[v] = [upload[v] EXCEPT !.state = "expired"]
      /\ \A w \in Versions \ {v} : upload'[w] = upload[w]
  BY DEF ExpireUpload, SetUpload
<1>3. upload[v] \in UploadType /\ "expired" \in UploadStates
  BY DEF UploadStates
<1>4. upload'[v].state = "expired" /\ upload'[v].pending = upload[v].pending
  BY <1>2, <1>3, PendingStays, UploadStateSet
<1>5. Away(v) /\ (Kept' <=> Kept)
  BY <1>1, <1>2 DEF Away, Kept
<1>. QED
  BY <1>1, <1>4, <1>5, ClosedKeeps, OriginalsAway

LEMMA ChunkOriginals ==
    ASSUME SourcesInv, OriginalsKept, NEW v \in Versions,
           BeginChunk(v) \/ Receive(v) \/ EnterChunk(v) \/ AppendChunk(v) \/ AdvanceChunk(v) \/ Discard(v)
    PROVE  OriginalsKept'
<1> USE TypesBefore DEF SourcesInv
<1>1. UNCHANGED <<source, version, object>> /\ (Kept' <=> Kept)
  BY DEF BeginChunk, Receive, EnterChunk, AppendChunk, AdvanceChunk, Discard, byteVars, Kept
<1>2. Kept => upload[v].state # "absent"
  <2>1. handler[v].at # "idle" \/ upload[v].state = "open"
    BY DEF BeginChunk, Receive, EnterChunk, AppendChunk, AdvanceChunk, Discard
  <2>. QED
    BY <2>1, ServedIsThere
<1>3. ASSUME NEW at \in ChunkAt, Step(v, at), handler[v].at \in ChunkAt
      PROVE  /\ handler'[v].at \in ChunkAt
             /\ \A w \in Versions \ {v} : handler'[w] = handler[w]
  BY <1>3, ChunkGoes
<1>4. ASSUME Done(v)
      PROVE  handler'[v].at = "idle" /\ \A w \in Versions \ {v} : handler'[w] = handler[w]
  BY <1>4, HandlerEnds DEF Idle
<1>5. {"receive", "locked", "append", "advance", "discard"} \subseteq ChunkAt
  BY DEF ChunkAt
<1>6. /\ handler'[v].at \in ChunkAt \cup {"idle"}
      /\ \A w \in Versions \ {v} : handler'[w] = handler[w]
  <2>1. CASE BeginChunk(v)
    BY <1>5, <2>1 DEF BeginChunk, Serve
  <2>2. CASE Receive(v)
    BY <1>3, <1>4, <1>5, <2>2 DEF Receive
  <2>3. CASE EnterChunk(v)
    BY <1>3, <1>5, <2>3 DEF EnterChunk
  <2>4. CASE AppendChunk(v)
    BY <1>3, <1>5, <2>4 DEF AppendChunk
  <2>5. CASE AdvanceChunk(v)
    BY <1>3, <1>5, <2>5 DEF AdvanceChunk
  <2>6. CASE Discard(v)
    BY <1>4, <2>6 DEF Discard
  <2>. QED
    BY <2>1, <2>2, <2>3, <2>4, <2>5, <2>6
<1>7. /\ upload'[v].state = upload[v].state /\ upload'[v].pending = upload[v].pending
      /\ \A w \in Versions \ {v} : upload'[w] = upload[w]
  <2>1. CASE BeginChunk(v) \/ Receive(v) \/ EnterChunk(v) \/ AppendChunk(v) \/ Discard(v)
    BY <2>1 DEF BeginChunk, Receive, EnterChunk, AppendChunk, Discard
  <2>2. CASE AdvanceChunk(v)
    <3>1. CASE UNCHANGED upload
      BY <3>1
    <3>2. CASE SetUpload(v, [upload[v] EXCEPT !.offset = @ + 1])
      <4>1. upload[v] \in UploadType
        OBVIOUS
      <4>2. /\ [upload[v] EXCEPT !.offset = @ + 1].state = upload[v].state
            /\ [upload[v] EXCEPT !.offset = @ + 1].pending = upload[v].pending
        BY <4>1 DEF UploadType
      <4>. QED
        BY <3>2, <4>2 DEF SetUpload
    <3>. QED
      BY <2>2, <3>1, <3>2 DEF AdvanceChunk
  <2>. QED
    BY <2>1, <2>2
<1>8. \A w \in Versions \ {v} : staged'[w] = staged[w] /\ (w \in quar' <=> w \in quar)
  BY DEF BeginChunk, Receive, EnterChunk, AppendChunk, AdvanceChunk, Discard, byteVars, StagedType
<1>9. Away(v)
  BY <1>1, <1>6, <1>7, <1>8 DEF Away
<1>. QED
  BY <1>1, <1>2, <1>6, <1>7, <1>9, ChunkKeeps, OriginalsAway

LEMMA BeginCompleteOriginals ==
    ASSUME SourcesInv, OriginalsKept, NEW v \in Versions, BeginComplete(v)
    PROVE  OriginalsKept'
<1> USE TypesBefore DEF SourcesInv
<1>1. UNCHANGED <<source, version, quar, object>> /\ handler[v].at = "idle" /\ (Kept' <=> Kept)
  BY DEF BeginComplete, Kept
<1>2. Placed(v) /\ (Kept => Accounted(v))
  BY DEF OriginalsKept
<1>3. \A w \in Versions \ {v} : staged'[w] = staged[w]
  BY DEF BeginComplete, StagedType
<1>4. CASE /\ upload[v].state = "open" /\ staged'[v] = Whole
           /\ Serve(v, Complete("begin", TRUE)) /\ UNCHANGED upload
  <2>1. /\ handler'[v] = Complete("begin", TRUE)
        /\ \A w \in Versions \ {v} : handler'[w] = handler[w]
    BY <1>4 DEF Serve
  <2>2. handler'[v].at = "begin" /\ handler'[v].fresh = TRUE
    BY <2>1 DEF Complete
  <2>3. Placed(v)'
    BY <1>1, <1>2, <1>4, <2>2 DEF Placed
  <2>4. Kept => Accounted(v)'
    BY <1>1, <1>2, <1>4, <2>2 DEF Accounted, Placing
  <2>5. Away(v)
    BY <1>1, <1>3, <1>4, <2>1 DEF Away
  <2>. QED
    BY <1>1, <2>3, <2>4, <2>5, OriginalsAway
<1>5. CASE MarkFailed(v) /\ UNCHANGED handler
  <2>1. /\ upload'[v] = [upload[v] EXCEPT !.state = "failed"]
        /\ \A w \in Versions \ {v} : upload'[w] = upload[w]
    BY <1>5 DEF MarkFailed, SetUpload
  <2>2. upload[v] \in UploadType /\ "failed" \in UploadStates
    BY DEF UploadStates
  <2>3. upload'[v].state = "failed" /\ upload'[v].pending = upload[v].pending
    BY <2>1, <2>2, PendingStays, UploadStateSet
  <2>4. Away(v)
    BY <1>1, <1>3, <1>5, <2>1 DEF Away
  <2>. QED
    BY <1>1, <1>5, <2>3, <2>4, ClosedKeeps, OriginalsAway
<1>6. CASE /\ upload[v].state = "completing"
           /\ Serve(v, Complete("directory", FALSE))
           /\ UNCHANGED <<upload, staged>>
  <2>1. /\ handler'[v] = Complete("directory", FALSE)
        /\ \A w \in Versions \ {v} : handler'[w] = handler[w]
    BY <1>6 DEF Serve
  <2>2. handler'[v].at = "directory" /\ handler'[v].fresh = FALSE
    BY <2>1 DEF Complete
  <2>3. Placed(v)'
    BY <1>1, <1>2, <1>6, <2>2 DEF Placed
  <2>4. Kept => Accounted(v)'
    BY <1>1, <1>2, <1>6, <2>2 DEF Accounted, Placed
  <2>5. Away(v)
    BY <1>1, <1>3, <1>6, <2>1 DEF Away
  <2>. QED
    BY <1>1, <2>3, <2>4, <2>5, OriginalsAway
<1>. QED
  BY <1>4, <1>5, <1>6 DEF BeginComplete

LEMMA BeginCompletionOriginals ==
    ASSUME SourcesInv, OriginalsKept, NEW v \in Versions, BeginCompletion(v)
    PROVE  OriginalsKept'
<1> USE TypesBefore DEF SourcesInv
<1>1. /\ UNCHANGED <<source, version, quar, staged, object>> /\ handler[v].at = "begin"
      /\ Kept' <=> Kept
  BY DEF BeginCompletion, byteVars, Kept
<1>2. Placed(v) /\ (Kept => Accounted(v))
  BY DEF OriginalsKept
<1>3. Kept => upload[v].state # "absent"
  BY <1>1, ServedIsThere
<1>4. handler[v].at \in CompleteAt /\ "directory" \in CompleteAt
  BY <1>1 DEF CompleteAt, Placing
<1>5. CASE /\ upload[v].state = "open"
           /\ SetUpload(v, [upload[v] EXCEPT !.state = "completing", !.pending = TRUE])
           /\ Step(v, "directory")
  <2>1. /\ handler'[v].at = "directory" /\ handler'[v].fresh = handler[v].fresh
        /\ \A w \in Versions \ {v} : handler'[w] = handler[w]
    BY <1>4, <1>5, CompletionGoes
  <2>2. /\ upload'[v] = [upload[v] EXCEPT !.state = "completing", !.pending = TRUE]
        /\ \A w \in Versions \ {v} : upload'[w] = upload[w]
    BY <1>5 DEF SetUpload
  <2>3. upload'[v].state = "completing" /\ upload'[v].pending = TRUE
    <3>1. upload[v] \in UploadType
      OBVIOUS
    <3>. QED
      BY <2>2, <3>1 DEF UploadType
  <2>4. staged[v] = Whole /\ object[v] = "none"
    BY <1>1, <1>2, <1>5 DEF Placed
  <2>5. Placed(v)'
    BY <1>1, <2>1, <2>3, <2>4 DEF Placed
  <2>6. Kept => Accounted(v)'
    BY <1>1, <1>2, <2>3, <2>4 DEF Accounted
  <2>7. Away(v)
    BY <1>1, <2>1, <2>2 DEF Away
  <2>. QED
    BY <1>1, <2>5, <2>6, <2>7, OriginalsAway
<1>6. CASE Done(v) /\ UNCHANGED upload
  <2>1. handler'[v].at = "idle" /\ \A w \in Versions \ {v} : handler'[w] = handler[w]
    BY <1>6, HandlerEnds DEF Idle
  <2>2. Away(v)
    BY <1>1, <1>6, <2>1 DEF Away
  <2>. QED
    BY <1>1, <1>3, <1>6, <2>1, <2>2, ChunkKeeps, OriginalsAway
<1>. QED
  BY <1>5, <1>6 DEF BeginCompletion

LEMMA PlaceOriginals ==
    ASSUME SourcesInv, OriginalsKept, NEW v \in Versions, PlaceDirectory(v)
    PROVE  OriginalsKept'
<1> USE TypesBefore DEF SourcesInv
<1>1. /\ UNCHANGED <<source, version, upload, quar, staged>> /\ handler[v].at = "directory"
      /\ Kept' <=> Kept
  BY DEF PlaceDirectory, Kept
<1>2. Placed(v) /\ (Kept => Accounted(v))
  BY DEF OriginalsKept
<1>3. handler[v].at \in CompleteAt /\ "rename" \in CompleteAt
  BY <1>1 DEF CompleteAt, Placing
<1>4. ~version[v].there /\ (Kept => upload[v].state # "absent")
  BY <1>1, <1>3, ServedIsThere DEF RevisionsKept
<1>5. /\ handler'[v].at = "rename" /\ handler'[v].fresh = handler[v].fresh
      /\ \A w \in Versions \ {v} : handler'[w] = handler[w]
  BY <1>3, CompletionGoes DEF PlaceDirectory
<1>6. /\ object'[v] = IF object[v] = "none" THEN "empty" ELSE object[v]
      /\ \A w \in Versions \ {v} : object'[w] = object[w]
  BY DEF PlaceDirectory, ObjectType
<1>7. upload[v].state # "open"
  BY <1>1 DEF BytesKept, Bytes, Placing
<1>8. Placed(v)'
  BY <1>1, <1>2, <1>5, <1>6, <1>7 DEF Placed
<1>9. Kept => Accounted(v)'
  BY <1>1, <1>2, <1>4, <1>5, <1>6 DEF Accounted, Placing, Original
<1>10. Away(v)
  BY <1>1, <1>5, <1>6 DEF Away
<1>. QED
  BY <1>1, <1>8, <1>9, <1>10, OriginalsAway

LEMMA RenameOriginals ==
    ASSUME SourcesInv, OriginalsKept, NEW v \in Versions, Rename(v)
    PROVE  OriginalsKept'
<1> USE TypesBefore DEF SourcesInv
<1>1. /\ UNCHANGED <<source, version, upload, quar>> /\ handler[v].at = "rename"
      /\ Kept' <=> Kept
  BY DEF Rename, Kept
<1>2. Placed(v) /\ (Kept => Accounted(v))
  BY DEF OriginalsKept
<1>3. handler[v].at \in CompleteAt /\ "inspect" \in CompleteAt
  BY <1>1 DEF CompleteAt, Placing
<1>4. ~version[v].there /\ (Kept => upload[v].state # "absent")
  BY <1>1, <1>3, ServedIsThere DEF RevisionsKept
<1>5. upload[v].state # "open"
  BY <1>1 DEF BytesKept, Bytes, Placing
<1>6. Kept => upload[v].pending = TRUE
  BY <1>1, <1>2 DEF Accounted, Placing
<1>7. Kept => Accounted(v)'
  BY <1>1, <1>4, <1>6 DEF Accounted
<1>8. CASE object[v] \in Original /\ Step(v, "inspect") /\ UNCHANGED <<staged, object>>
  <2>1. /\ handler'[v].at = "inspect" /\ handler'[v].fresh = handler[v].fresh
        /\ \A w \in Versions \ {v} : handler'[w] = handler[w]
    BY <1>3, <1>8, CompletionGoes
  <2>2. Placed(v)'
    BY <1>1, <1>2, <1>5, <1>8, <2>1 DEF Placed, Original
  <2>3. Away(v)
    BY <1>1, <1>8, <2>1 DEF Away
  <2>. QED
    BY <1>1, <1>7, <2>2, <2>3, OriginalsAway
<1>9. CASE /\ object' = [object EXCEPT ![v] = IF staged[v] = Whole THEN "whole" ELSE "torn"]
           /\ staged' = [staged EXCEPT ![v] = <<>>]
           /\ Step(v, "inspect")
  <2>1. /\ handler'[v].at = "inspect" /\ handler'[v].fresh = handler[v].fresh
        /\ \A w \in Versions \ {v} : handler'[w] = handler[w]
    BY <1>3, <1>9, CompletionGoes
  <2>2. object'[v] = IF staged[v] = Whole THEN "whole" ELSE "torn"
    BY <1>9 DEF ObjectType
  <2>3. Placed(v)'
    BY <1>1, <1>2, <1>5, <2>1, <2>2 DEF Placed
  <2>4. Away(v)
    BY <1>1, <1>9, <2>1 DEF Away, ObjectType, StagedType
  <2>. QED
    BY <1>1, <1>7, <2>3, <2>4, OriginalsAway
<1>10. CASE Done(v) /\ UNCHANGED <<staged, object>>
  <2>1. handler'[v].at = "idle" /\ \A w \in Versions \ {v} : handler'[w] = handler[w]
    BY <1>10, HandlerEnds DEF Idle
  <2>2. Away(v)
    BY <1>1, <1>10, <2>1 DEF Away
  <2>. QED
    BY <1>1, <1>4, <1>10, <2>1, <2>2, ChunkKeeps, OriginalsAway
<1>. QED
  BY <1>8, <1>9, <1>10 DEF Rename

LEMMA InspectOriginals ==
    ASSUME SourcesInv, OriginalsKept, NEW v \in Versions, InspectPlaced(v)
    PROVE  OriginalsKept'
<1> USE TypesBefore DEF SourcesInv
<1>1. /\ UNCHANGED <<source, version, quar, staged, object>> /\ handler[v].at = "inspect"
      /\ Kept' <=> Kept
  BY DEF InspectPlaced, byteVars, Kept
<1>2. Placed(v) /\ (Kept => Accounted(v))
  BY DEF OriginalsKept
<1>3. handler[v].at \in CompleteAt /\ "finish" \in CompleteAt
  BY <1>1 DEF CompleteAt, Placing
<1>4. ~version[v].there /\ (Kept => upload[v].state # "absent")
  BY <1>1, <1>3, ServedIsThere DEF RevisionsKept
<1>5. upload[v].state # "open"
  BY <1>1 DEF BytesKept, Bytes, Placing
<1>6. CASE (handler[v].fresh \/ object[v] = "whole") /\ Step(v, "finish") /\ UNCHANGED upload
  <2>1. /\ handler'[v].at = "finish"
        /\ \A w \in Versions \ {v} : handler'[w] = handler[w]
    BY <1>3, <1>6, CompletionGoes
  <2>2. handler[v].fresh => handler[v].fresh = TRUE
    <3>1. handler[v] \in Completing
      BY <1>3, HandlerPlaces
    <3>2. handler[v].fresh \in BOOLEAN
      BY <3>1 DEF Completing
    <3>. QED
      BY <3>2
  <2>3. upload[v].state = "completing" => object[v] = "whole"
    BY <1>1, <1>2, <1>6, <2>2 DEF Placed
  <2>4. Placed(v)'
    BY <1>1, <1>2, <1>5, <1>6, <2>1, <2>3 DEF Placed
  <2>5. Kept => Accounted(v)'
    BY <1>1, <1>2, <1>4, <1>6 DEF Accounted, Placing
  <2>6. Away(v)
    BY <1>1, <1>6, <2>1 DEF Away
  <2>. QED
    BY <1>1, <2>4, <2>5, <2>6, OriginalsAway
<1>7. ASSUME Done(v)
      PROVE  handler'[v].at = "idle" /\ \A w \in Versions \ {v} : handler'[w] = handler[w]
  BY <1>7, HandlerEnds DEF Idle
<1>8. CASE MarkFailed(v) /\ Done(v)
  <2>1. /\ upload'[v] = [upload[v] EXCEPT !.state = "failed"]
        /\ \A w \in Versions \ {v} : upload'[w] = upload[w]
    BY <1>8 DEF MarkFailed, SetUpload
  <2>2. upload[v] \in UploadType /\ "failed" \in UploadStates
    BY DEF UploadStates
  <2>3. upload'[v].state = "failed" /\ upload'[v].pending = upload[v].pending
    BY <2>1, <2>2, PendingStays, UploadStateSet
  <2>4. Away(v)
    BY <1>1, <1>7, <1>8, <2>1 DEF Away
  <2>. QED
    BY <1>1, <1>7, <1>8, <2>3, <2>4, ClosedKeeps, OriginalsAway
<1>9. CASE UNCHANGED upload /\ Done(v)
  <2>1. Away(v)
    BY <1>1, <1>7, <1>9 DEF Away
  <2>. QED
    BY <1>1, <1>4, <1>7, <1>9, <2>1, ChunkKeeps, OriginalsAway
<1>. QED
  BY <1>6, <1>8, <1>9 DEF InspectPlaced

LEMMA FinishOriginals ==
    ASSUME SourcesInv, OriginalsKept, NEW v \in Versions, FinishCompletion(v)
    PROVE  OriginalsKept'
<1> USE TypesBefore DEF SourcesInv
<1>1. UNCHANGED <<quar, staged, object>> /\ handler[v].at = "finish"
  BY DEF FinishCompletion, byteVars
<1>2. Placed(v) /\ (Kept => Accounted(v))
  BY DEF OriginalsKept
<1>3. handler[v].at \in CompleteAt /\ "withdraw" \in CompleteAt
  BY <1>1 DEF CompleteAt, Placing
<1>4. ~version[v].there /\ (Kept => upload[v].state # "absent")
  BY <1>1, <1>3, ServedIsThere DEF RevisionsKept
<1>5. upload[v].state # "open"
  BY <1>1 DEF BytesKept, Bytes, Placing
<1>6. CASE UNCHANGED <<source, version, product, upload>>
  <2>1. Kept' <=> Kept
    BY <1>6 DEF Kept
  <2>2. CASE Step(v, "withdraw")
    <3>1. /\ handler'[v].at = "withdraw"
          /\ \A w \in Versions \ {v} : handler'[w] = handler[w]
      BY <1>3, <2>2, CompletionGoes
    <3>2. Placed(v)'
      BY <1>1, <1>2, <1>5, <1>6, <3>1 DEF Placed
    <3>3. Kept => Accounted(v)'
      BY <1>1, <1>2, <1>4, <1>6 DEF Accounted, Placing
    <3>4. Away(v)
      BY <1>1, <1>6, <3>1 DEF Away
    <3>. QED
      BY <2>1, <3>2, <3>3, <3>4, OriginalsAway
  <2>3. CASE Done(v)
    <3>1. handler'[v].at = "idle" /\ \A w \in Versions \ {v} : handler'[w] = handler[w]
      BY <2>3, HandlerEnds DEF Idle
    <3>2. Away(v)
      BY <1>1, <1>6, <3>1 DEF Away
    <3>. QED
      BY <1>1, <1>4, <1>6, <2>1, <3>1, <3>2, ChunkKeeps, OriginalsAway
  <2>4. Step(v, "withdraw") \/ Done(v)
    BY DEF FinishCompletion
  <2>. QED
    BY <2>2, <2>3, <2>4
<1>7. CASE /\ upload[v].state = "completing"
           /\ version' = [version EXCEPT ![v].there = TRUE]
           /\ SetUpload(v, [upload[v] EXCEPT !.state = "completed"])
           /\ Done(v)
           /\ ~UNCHANGED <<source, version, product, upload>>
  <2>1. object[v] = "whole" /\ upload[v].pending = TRUE
    BY <1>1, <1>2, <1>7 DEF Placed
  <2>2. handler'[v].at = "idle" /\ \A w \in Versions \ {v} : handler'[w] = handler[w]
    BY <1>7, HandlerEnds DEF Idle
  <2>3. /\ upload'[v] = [upload[v] EXCEPT !.state = "completed"]
        /\ \A w \in Versions \ {v} : upload'[w] = upload[w]
    BY <1>7 DEF SetUpload
  <2>4. upload[v] \in UploadType /\ "completed" \in UploadStates
    BY DEF UploadStates
  <2>5. upload'[v].state = "completed" /\ upload'[v].pending = TRUE
    BY <2>1, <2>3, <2>4, PendingStays, UploadStateSet
  <2>6. \A w \in Versions \ {v} : version'[w].there = version[w].there
    BY <1>7
  <2>7. Placed(v)'
    BY <2>2, <2>5 DEF Placed
  <2>8. Accounted(v)'
    BY <1>1, <2>1, <2>5 DEF Accounted
  <2>9. Away(v)
    BY <1>1, <2>2, <2>3, <2>6 DEF Away
  <2>10. Kept' <=> Kept
    BY <1>7, FinishCompletionEffect DEF SourceStays, Refreshes, Kept
  <2>. QED
    BY <2>7, <2>8, <2>9, <2>10, OriginalsAway
<1>. QED
  BY <1>6, <1>7 DEF FinishCompletion

LEMMA WithdrawOriginals ==
    ASSUME SourcesInv, OriginalsKept, NEW v \in Versions, Withdraw(v)
    PROVE  OriginalsKept'
<1> USE TypesBefore DEF SourcesInv
<1>1. /\ UNCHANGED <<source, version, upload, quar, staged>> /\ handler[v].at = "withdraw"
      /\ Kept' <=> Kept
  BY DEF Withdraw, Kept
<1>2. Placed(v) /\ (Kept => Accounted(v))
  BY DEF OriginalsKept
<1>3. handler[v].at \in CompleteAt /\ "fail" \in CompleteAt
  BY <1>1 DEF CompleteAt, Placing
<1>4. ~version[v].there /\ (Kept => upload[v].state # "absent")
  BY <1>1, <1>3, ServedIsThere DEF RevisionsKept
<1>5. upload[v].state # "open"
  BY <1>1 DEF BytesKept, Bytes, Placing
<1>6. /\ handler'[v].at = "fail"
      /\ \A w \in Versions \ {v} : handler'[w] = handler[w]
  BY <1>3, CompletionGoes DEF Withdraw
<1>7. \A w \in Versions \ {v} : object'[w] = object[w]
  BY DEF Withdraw, ObjectType
<1>8. Placed(v)'
  BY <1>1, <1>2, <1>5, <1>6 DEF Placed
<1>9. Kept => Accounted(v)'
  BY <1>1, <1>2, <1>4 DEF Accounted, Placing
<1>10. Away(v)
  BY <1>1, <1>6, <1>7 DEF Away
<1>. QED
  BY <1>1, <1>8, <1>9, <1>10, OriginalsAway

LEMMA FailOriginals ==
    ASSUME SourcesInv, OriginalsKept, NEW v \in Versions, FailUpload(v)
    PROVE  OriginalsKept'
<1> USE TypesBefore DEF SourcesInv
<1>1. /\ UNCHANGED <<source, version, quar, staged, object>> /\ handler[v].at = "fail"
      /\ Kept' <=> Kept
  BY DEF FailUpload, byteVars, Kept
<1>2. Kept => upload[v].state # "absent"
  BY <1>1, ServedIsThere
<1>3. handler'[v].at = "idle" /\ \A w \in Versions \ {v} : handler'[w] = handler[w]
  BY HandlerEnds DEF FailUpload, Idle
<1>4. CASE MarkFailed(v)
  <2>1. /\ upload'[v] = [upload[v] EXCEPT !.state = "failed"]
        /\ \A w \in Versions \ {v} : upload'[w] = upload[w]
    BY <1>4 DEF MarkFailed, SetUpload
  <2>2. upload[v] \in UploadType /\ "failed" \in UploadStates
    BY DEF UploadStates
  <2>3. upload'[v].state = "failed" /\ upload'[v].pending = upload[v].pending
    BY <2>1, <2>2, PendingStays, UploadStateSet
  <2>4. Away(v)
    BY <1>1, <1>3, <2>1 DEF Away
  <2>. QED
    BY <1>1, <1>3, <2>3, <2>4, ClosedKeeps, OriginalsAway
<1>5. CASE UNCHANGED upload
  <2>1. Away(v)
    BY <1>1, <1>3, <1>5 DEF Away
  <2>. QED
    BY <1>1, <1>2, <1>3, <1>5, <2>1, ChunkKeeps, OriginalsAway
<1>. QED
  BY <1>4, <1>5 DEF FailUpload

LEMMA UploadOriginals ==
    ASSUME SourcesInv, OriginalsKept, UploadNext
    PROVE  OriginalsKept'
BY CreateOriginals, ExpireOriginals, ChunkOriginals, BeginCompleteOriginals, BeginCompletionOriginals,
   PlaceOriginals, RenameOriginals, InspectOriginals, FinishOriginals, WithdrawOriginals, FailOriginals
   DEF UploadNext

\* Everyone else leaves uploads and originals alone, until destruction.
LEMMA OriginalsStay ==
    ASSUME OriginalsKept, UNCHANGED <<upload, handler, staged, object, quar>>,
           \A v \in Versions : version'[v].there = version[v].there,
           Kept' => Kept
    PROVE  OriginalsKept'
<1> SUFFICES ASSUME NEW v \in Versions
             PROVE  Placed(v)' /\ (Kept' => Accounted(v)')
  BY DEF OriginalsKept
<1>1. Placed(v) /\ (Kept => Accounted(v))
  BY DEF OriginalsKept
<1>2. Placed(v)'
  BY <1>1 DEF Placed
<1>3. Accounted(v) => Accounted(v)'
  BY DEF Accounted
<1>. QED
  BY <1>1, <1>2, <1>3

\* A request of a source that is not active any more is served to its end only.
LEMMA QuietOriginals ==
    ASSUME Quieted', UNCHANGED handler, OriginalsKept,
           Kept' => /\ Kept /\ UNCHANGED <<version, staged, object, quar>>
                    /\ \A v \in Versions :
                         /\ upload'[v].state = "absent" => upload[v].state = "absent"
                         /\ upload'[v].pending = upload[v].pending
    PROVE  OriginalsKept'
<1> SUFFICES ASSUME NEW v \in Versions
             PROVE  Placed(v)' /\ (Kept' => Accounted(v)')
  BY DEF OriginalsKept
<1>1. Placed(v) /\ (Kept => Accounted(v))
  BY DEF OriginalsKept
<1>2. upload'[v].state \notin {"open", "completing"}
  BY DEF Quieted
<1>3. Placed(v)'
  BY <1>1, <1>2 DEF Placed
<1>4. ASSUME Kept'
      PROVE  Accounted(v)'
  BY <1>1, <1>4 DEF Accounted
<1>. QED
  BY <1>3, <1>4

\* While the bytes are still kept a step of the deletion touches none of them.
LEMMA DeletionSpares ==
    ASSUME SourcesInv, DeletionNext, Kept'
    PROVE  /\ Kept /\ UNCHANGED <<version, product, staged, object, quar, art>>
           /\ \A v \in Versions :
                /\ upload'[v].state = "absent" <=> upload[v].state = "absent"
                /\ upload'[v].pending = upload[v].pending
           /\ \A j \in Versions \X JobKinds : job'[j].state = "absent" <=> job[j].state = "absent"
<1> USE TypesBefore DEF SourcesInv
<1>1. DeletionLife
  BY DeletionStepKeeps
<1>2. /\ Kept /\ UNCHANGED <<version, product>> /\ SameSessions
      /\ \A j \in Versions \X JobKinds : job'[j].state = "absent" <=> job[j].state = "absent"
  BY <1>1 DEF DeletionLife, Quiet, Sweeps, Erases, Renews, Moves, Kept
<1>3. ~RemoveArtifact /\ ~VerifyArtifact
  BY <1>2 DEF RemoveArtifact, VerifyArtifact, PhaseKept, Kept
<1>4. UNCHANGED <<staged, object, quar, art>>
  BY <1>3 DEF DeletionNext, EraserStep, Plan, CancelDeletion, RetryPartial, RunOneDeletion,
     StartDestruction, AdvancePass, FinishDeletion, EraserThrows, DeletionLease, byteVars
<1>5. UNCHANGED upload \/ Plan
  BY <1>3 DEF DeletionNext, EraserStep, CancelDeletion, RetryPartial, RunOneDeletion,
     StartDestruction, AdvancePass, FinishDeletion, EraserThrows, DeletionLease
<1>6. ASSUME NEW v \in Versions
      PROVE  upload'[v].pending = upload[v].pending
  <2>1. CASE UNCHANGED upload
    BY <2>1
  <2>2. CASE Plan
    <3>1. upload'[v] = [upload[v] EXCEPT !.state = "failed"] \/ upload'[v] = upload[v]
      BY <2>2 DEF Plan
    <3>2. upload[v] \in UploadType /\ "failed" \in UploadStates
      BY DEF UploadStates
    <3>3. [upload[v] EXCEPT !.state = "failed"].pending = upload[v].pending
      BY <3>2, PendingStays
    <3>. QED
      BY <3>1, <3>3
  <2>. QED
    BY <1>5, <2>1, <2>2
<1>. QED
  BY <1>2, <1>4, <1>6 DEF SameSessions

LEMMA DeletionOriginals ==
    ASSUME SourcesInv, OriginalsKept, DeletionNext
    PROVE  OriginalsKept'
<1>1. Quieted' /\ UNCHANGED handler
  BY DeletionQuiets, DeletionEffects DEF SourcesInv, SameUploads
<1>. QED
  BY <1>1, DeletionSpares, QuietOriginals

LEMMA RestartOriginals ==
    ASSUME SourcesInv, OriginalsKept, Restart
    PROVE  OriginalsKept'
<1> SUFFICES ASSUME NEW v \in Versions
             PROVE  Placed(v)' /\ (Kept' => Accounted(v)')
  BY DEF OriginalsKept
<1>1. Placed(v) /\ (Kept => Accounted(v))
  BY DEF OriginalsKept
<1>2. handler'[v].at = "idle"
  BY RestartPlaces DEF SourcesInv
<1>3. UNCHANGED <<upload, quar, object>>
  BY DEF Restart
<1>4. version'[v].there = version[v].there /\ (Kept' => Kept)
  BY RestartKeeps DEF Reboots, Kept
<1>5. upload[v].state = "absent" => staged'[v] = staged[v]
  BY DEF Restart
<1>6. Placed(v)'
  BY <1>1, <1>2, <1>3 DEF Placed
<1>7. Accounted(v) => Accounted(v)'
  BY <1>2, <1>3, <1>4, <1>5 DEF Accounted, Placing
<1>. QED
  BY <1>1, <1>4, <1>6, <1>7

-----------------------------------------------------------------------------
(* Views: what a job step does *)

\* The worker rests, goes on with the job in its hand, or takes up one that is
\* there.  It has the artifact of a view to publish only after a read.
WorkerMove ==
    \/ UNCHANGED worker
    \/ worker' = Idle
    \/ /\ worker.at # "idle"
       /\ worker'.version = worker.version /\ worker'.kind = worker.kind
       /\ worker'.at \in Viewing => worker.at \in Viewing \/ Read
    \/ /\ worker.at = "idle" /\ worker'.at \notin Viewing
       /\ \E j \in Versions \X JobKinds :
            /\ worker'.version = j[1] /\ worker'.kind = j[2]
            /\ job[j].state # "absent"

LEMMA WorkerMovesOn ==
    ASSUME SourcesTypeOK, PlacesOK, JobNext
    PROVE  WorkerMove
<1>1. worker.at # "idle" => worker \in AtWork
  BY AtWorkRow
<1>2. Finished => WorkerMove
  BY DEF Finished, WorkerMove
<1>3. ASSUME NEW at, worker.at # "idle", Goto(at), at \in Viewing => worker.at \in Viewing \/ Read
      PROVE  WorkerMove
  BY <1>1, <1>3 DEF Goto, AtWork, WorkerMove
<1>4. ASSUME NEW at, worker.at # "idle", Lost(at)
      PROVE  WorkerMove
  BY <1>2, <1>3, <1>4 DEF Lost, Viewing
<1>5. CASE RunOne
  <2>1. ASSUME NEW j \in Versions \X JobKinds, NEW at, Working(at, j[1], j[2], "stop"),
               at \notin Viewing, job[j].state # "absent", worker.at = "idle"
        PROVE  WorkerMove
    BY <2>1 DEF Working, WorkerMove
  <2>2. CASE ConfirmUnclaimed
    BY <2>2 DEF ConfirmUnclaimed, WorkerMove
  <2>3. ASSUME NEW kinds, ClaimNext(kinds)
        PROVE  WorkerMove
    <3>1. PICK j \in Claimable(kinds) : Working("target", j[1], j[2], "stop")
      BY <2>3 DEF ClaimNext
    <3>2. j \in Versions \X JobKinds /\ job[j].state # "absent"
      BY DEF Claimable
    <3>. QED
      BY <1>5, <2>1, <3>1, <3>2 DEF RunOne, Viewing
  <2>4. CASE ClaimNextCancellation
    <3>1. PICK j \in LapsedCancellations : Working("cleanup", j[1], j[2], "stop")
      BY <2>4 DEF ClaimNextCancellation
    <3>2. j \in Versions \X JobKinds /\ job[j].state # "absent"
      BY DEF LapsedCancellations
    <3>. QED
      BY <1>5, <2>1, <3>1, <3>2 DEF RunOne, Viewing
  <2>. QED
    BY <1>5, <2>2, <2>3, <2>4 DEF RunOne
<1>6. CASE GetTarget
  BY <1>3, <1>4, <1>6 DEF GetTarget, Viewing
<1>7. CASE Advance
  <2>1. ASSUME NEW at, NEW checkpoint, NEW next, at # "idle",
               next \in Viewing => at \in Viewing, AdvanceTo(at, checkpoint, next)
        PROVE  WorkerMove
    <3>1. worker.at = at /\ worker \in AtWork
      BY <1>1, <2>1 DEF AdvanceTo
    <3>2. CASE worker' = [worker EXCEPT !.at = next, !.checkpoint = checkpoint]
      BY <2>1, <3>1, <3>2 DEF AtWork, WorkerMove
    <3>. QED
      BY <1>3, <1>4, <2>1, <3>1, <3>2 DEF AdvanceTo
  <2>. QED
    BY <1>7, <2>1 DEF Advance, Viewing
<1>8. CASE Read
  BY <1>3, <1>8 DEF Read
<1>9. ASSUME NEW recurs, ReadFails(recurs)
      PROVE  WorkerMove
  <2>1. worker.at # "idle" /\ worker \in AtWork
    BY <1>1, <1>9 DEF ReadFails
  <2>2. PICK verdict \in {"fail", "defer"} :
            \/ worker' = [worker EXCEPT !.at = "cleanup", !.then = verdict]
            \/ worker' = [worker EXCEPT !.at = verdict]
    BY <1>9 DEF ReadFails
  <2>. QED
    BY <2>1, <2>2 DEF AtWork, WorkerMove, Viewing
<1>10. CASE Finish
  <2>1. worker.at # "idle" /\ worker \in AtWork
    BY <1>1, <1>10 DEF Finish
  <2>2. \/ Finished \/ Goto("confirm")
        \/ worker' = [worker EXCEPT !.at = "cleanup", !.then = "fail"]
    BY <1>10 DEF Finish
  <2>3. CASE worker' = [worker EXCEPT !.at = "cleanup", !.then = "fail"]
    BY <2>1, <2>3 DEF AtWork, WorkerMove, Viewing
  <2>. QED
    BY <1>2, <1>3, <2>1, <2>2, <2>3 DEF Viewing
<1>11. CASE Cleanup \/ CleanupFails
  BY <1>2, <1>3, <1>11 DEF Cleanup, CleanupFails, Viewing
<1>12. CASE Confirm
  <2>1. worker.at # "idle" /\ worker \in AtWork /\ worker.then \notin Viewing
    BY <1>1, <1>12 DEF Confirm, AtWork, Verdicts, Viewing
  <2>. QED
    BY <1>2, <1>3, <1>12, <2>1 DEF Confirm
<1>13. CASE FinishFailed \/ DeferUntil
  BY <1>2, <1>3, <1>13 DEF FinishFailed, DeferUntil, Settle, Viewing
<1>14. CASE WorkerThrows
  BY <1>2, <1>14 DEF WorkerThrows
<1>15. ASSUME NEW v \in Versions, NEW k \in JobKinds,
              Enqueue(v, k) \/ RequestCancel(v, k) \/ LeaseRunsOut(v, k) \/ LeaseStalls(v, k)
       PROVE  WorkerMove
  BY <1>15 DEF Enqueue, RequestCancel, LeaseRunsOut, LeaseStalls, WorkerMove
<1>. QED
  BY <1>5, <1>6, <1>7, <1>8, <1>9, <1>10, <1>11, <1>12, <1>13, <1>14, <1>15 DEF JobNext, WorkerStep

\* What a worker publishes, it has just finished under its claim; an artifact
\* comes with a read and goes with a cleanup.
Publishes ==
    /\ worker.at = "finish" /\ Held(Row)
    /\ View => source.deletion = "active"
    /\ UNCHANGED art /\ worker' = Idle
    /\ product' \in ProductType
    /\ \A p \in Things : p # <<worker.version, worker.kind>> => product'[p] = product[p]

LEMMA ArtifactMoves ==
    ASSUME SourcesTypeOK, PlacesOK, JobNext
    PROVE  \/ UNCHANGED <<art, product>> /\ ~Read
           \/ Read /\ UNCHANGED product
           \/ Cleanup /\ UNCHANGED product
           \/ Publishes
<1>1. CASE Finish
  <2>1. CASE UNCHANGED product
    BY <1>1, <2>1 DEF Finish, Read
  <2>2. CASE /\ Held(Row) /\ (View => source.deletion = "active")
             /\ product' = IF worker.kind = "inspect" THEN product
                           ELSE [product EXCEPT ![<<worker.version, worker.kind>>] =
                                    IF IF View
                                       THEN source.current = worker.version
                                              /\ source.revision = Row.revision
                                       ELSE source.current = worker.version
                                    THEN "current" ELSE "stale"]
             /\ Finished
    <3>1. product \in ProductType
      BY DEF SourcesTypeOK, ProductType
    <3>2. product' \in ProductType
      BY <2>2, <3>1 DEF ProductType
    <3>3. \A p \in Things : p # <<worker.version, worker.kind>> => product'[p] = product[p]
      BY <2>2, <3>1 DEF ProductType
    <3>. QED
      BY <1>1, <2>2, <3>2, <3>3 DEF Finish, Publishes, Finished
  <2>. QED
    BY <1>1, <2>1, <2>2 DEF Finish, jobVars
<1>2. CASE Read
  BY <1>2 DEF Read, jobVars
<1>3. CASE Cleanup
  BY <1>3 DEF Cleanup, jobVars
<1>4. CASE ~Finish /\ ~Read /\ ~Cleanup
  <2>1. UNCHANGED <<art, product>>
    BY <1>4 DEF JobNext, WorkerStep, RunOne, GetTarget, Advance, AdvanceTo, ReadFails, CleanupFails,
       Confirm, FinishFailed, DeferUntil, Settle, WorkerThrows, Enqueue, RequestCancel, LeaseRunsOut,
       LeaseStalls, jobVars
  <2>. QED
    BY <1>4, <2>1
<1>. QED
  BY <1>1, <1>2, <1>3, <1>4

LEMMA JobViews ==
    ASSUME SourcesInv, ViewsKept, JobNext
    PROVE  ViewsKept'
<1> USE DEF SourcesInv
<1>1. /\ RowsKept /\ Kept' = Kept
      /\ job' \in [Versions \X JobKinds -> JobType]
  <2>1. JobEffect
    BY JobEffects
  <2>2. RowsKept /\ SameLife
    BY <2>1, JobKeptRows DEF JobEffect
  <2>. QED
    BY <2>2 DEF RowsKept, SameLife, Kept
<1> SUFFICES ASSUME Kept
             PROVE  /\ worker'.at # "idle" => job'[<<worker'.version, worker'.kind>>].state # "absent"
                    /\ worker'.at \in Viewing /\ worker'.kind = "view" => worker'.version \in art'
                    /\ \A p \in Things : product'[p] # "none" => job'[p].state # "absent"
                    /\ \A v \in Versions :
                         <<v, "view">> \in Things /\ product'[<<v, "view">>] # "none" => v \in art'
                    /\ \A v \in art' :
                         <<v, "view">> \in Things /\ job'[<<v, "view">>].state # "absent"
  BY <1>1 DEF ViewsKept
<1>2. /\ worker.at # "idle" => job[<<worker.version, worker.kind>>].state # "absent"
      /\ worker.at \in Viewing /\ worker.kind = "view" => worker.version \in art
      /\ \A p \in Things : product[p] # "none" => job[p].state # "absent"
      /\ \A v \in Versions : <<v, "view">> \in Things /\ product[<<v, "view">>] # "none" => v \in art
      /\ \A v \in art : <<v, "view">> \in Things /\ job[<<v, "view">>].state # "absent"
  BY DEF ViewsKept
<1>3. \A j \in Versions \X JobKinds : job[j].state # "absent" => job'[j].state # "absent"
  BY <1>1 DEF RowsKept
<1>4. \A p \in Things : p \in Versions \X JobKinds
  BY ThingPlaces
<1>5. /\ worker.at # "idle" =>
           /\ worker.version \in Versions /\ worker.kind \in JobKinds
           /\ <<worker.version, worker.kind>> \in Versions \X JobKinds
  BY AtWorkRow
<1>6. WorkerMove
  BY WorkerMovesOn
<1>7. worker'.at # "idle" => job'[<<worker'.version, worker'.kind>>].state # "absent"
  <2>1. CASE UNCHANGED worker
    BY <1>2, <1>3, <1>5, <2>1
  <2>2. CASE worker' = Idle
    BY <2>2 DEF Idle
  <2>3. CASE /\ worker.at # "idle"
             /\ worker'.version = worker.version /\ worker'.kind = worker.kind
    BY <1>2, <1>3, <1>5, <2>3
  <2>4. ASSUME NEW j \in Versions \X JobKinds, worker'.version = j[1], worker'.kind = j[2],
               job[j].state # "absent"
        PROVE  job'[<<worker'.version, worker'.kind>>].state # "absent"
    <3>1. j = <<j[1], j[2]>>
      OBVIOUS
    <3>. QED
      BY <1>3, <2>4, <3>1
  <2>. QED
    BY <1>6, <2>1, <2>2, <2>3, <2>4 DEF WorkerMove
<1>8. CASE UNCHANGED <<art, product>> /\ ~Read
  <2>1. worker'.at \in Viewing /\ worker'.kind = "view" => worker'.version \in art'
    BY <1>2, <1>6, <1>8 DEF WorkerMove, Idle, Viewing
  <2>. QED
    BY <1>2, <1>3, <1>4, <1>7, <1>8, <2>1
<1>9. CASE Read /\ UNCHANGED product
  <2>1. /\ worker.at = "read" /\ worker \in AtWork
        /\ worker' = [worker EXCEPT !.at = "check"]
        /\ art' = IF worker.kind = "view" THEN art \cup {worker.version} ELSE art
    BY <1>9, AtWorkRow DEF Read, Goto, View
  <2>2. worker'.version = worker.version /\ worker'.kind = worker.kind
    BY <2>1 DEF AtWork
  <2>3. worker'.kind = "view" => worker'.version \in art'
    BY <2>1, <2>2
  <2>4. \A v \in art' : <<v, "view">> \in Things /\ job'[<<v, "view">>].state # "absent"
    <3>1. \A v \in art : <<v, "view">> \in Things /\ job'[<<v, "view">>].state # "absent"
      BY <1>2, <1>3, <1>4
    <3>2. CASE worker.kind = "view"
      <4>1. <<worker.version, "view">> \in Things
        BY <1>5, <2>1, <3>2 DEF Things, JobKinds
      <4>2. job'[<<worker.version, "view">>].state # "absent"
        BY <1>2, <1>3, <1>5, <2>1, <3>2
      <4>. QED
        BY <2>1, <3>1, <3>2, <4>1, <4>2
    <3>3. CASE worker.kind # "view"
      BY <2>1, <3>1, <3>3
    <3>. QED
      BY <3>2, <3>3
  <2>5. art \subseteq art'
    BY <2>1
  <2>. QED
    BY <1>2, <1>3, <1>4, <1>7, <1>9, <2>3, <2>4, <2>5
<1>10. CASE Cleanup /\ UNCHANGED product
  <2>1. /\ worker.at = "cleanup" /\ worker \in AtWork
        /\ \/ /\ product[<<worker.version, "view">>] = "none"
              /\ art' = art \ {worker.version}
           \/ UNCHANGED art
        /\ Goto("confirm") \/ Finished
    BY <1>10, AtWorkRow DEF Cleanup
  <2>2. worker'.at \notin Viewing
    BY <2>1 DEF Goto, Finished, Idle, AtWork, Viewing
  <2>3. \A v \in Versions : <<v, "view">> \in Things /\ product'[<<v, "view">>] # "none" => v \in art'
    BY <1>2, <1>10, <2>1
  <2>4. art' \subseteq art
    BY <2>1
  <2>. QED
    BY <1>2, <1>3, <1>4, <1>7, <1>10, <2>2, <2>3, <2>4
<1>11. CASE Publishes
  <2>1. /\ worker.at = "finish" /\ worker.at # "idle" /\ UNCHANGED art /\ worker' = Idle
        /\ \A p \in Things : p # <<worker.version, worker.kind>> => product'[p] = product[p]
    BY <1>11 DEF Publishes
  <2>2. worker'.at = "idle"
    BY <2>1 DEF Idle
  <2>3. ASSUME NEW p \in Things, product'[p] # "none"
        PROVE  job'[p].state # "absent"
    BY <1>2, <1>3, <1>4, <2>1, <2>3
  <2>4. ASSUME NEW v \in Versions, <<v, "view">> \in Things, product'[<<v, "view">>] # "none"
        PROVE  v \in art'
    <3>1. CASE v = worker.version /\ worker.kind = "view"
      BY <1>2, <2>1, <3>1 DEF Viewing
    <3>2. CASE ~(v = worker.version /\ worker.kind = "view")
      <4>1. <<v, "view">> # <<worker.version, worker.kind>>
        BY <3>2
      <4>. QED
        BY <1>2, <2>1, <2>4, <4>1
    <3>. QED
      BY <3>1, <3>2
  <2>. QED
    BY <1>2, <1>3, <1>4, <2>1, <2>2, <2>3, <2>4 DEF Viewing
<1>. QED
  BY <1>8, <1>9, <1>10, <1>11, ArtifactMoves

-----------------------------------------------------------------------------
(* Views and originals: what everyone else does *)

LEMMA ViewsStay ==
    ASSUME SourcesInv, ViewsKept,
           Kept' =>
             /\ Kept /\ UNCHANGED art
             /\ worker' = worker \/ worker' = Idle
             /\ \A p \in Things : product'[p] # "none" => product[p] # "none"
             /\ \A j \in Versions \X JobKinds : job[j].state # "absent" => job'[j].state # "absent"
    PROVE  ViewsKept'
<1> SUFFICES ASSUME Kept'
             PROVE  /\ worker'.at # "idle" => job'[<<worker'.version, worker'.kind>>].state # "absent"
                    /\ worker'.at \in Viewing /\ worker'.kind = "view" => worker'.version \in art'
                    /\ \A p \in Things : product'[p] # "none" => job'[p].state # "absent"
                    /\ \A v \in Versions :
                         <<v, "view">> \in Things /\ product'[<<v, "view">>] # "none" => v \in art'
                    /\ \A v \in art' :
                         <<v, "view">> \in Things /\ job'[<<v, "view">>].state # "absent"
  BY DEF ViewsKept
<1>1. /\ worker.at # "idle" => job[<<worker.version, worker.kind>>].state # "absent"
      /\ worker.at \in Viewing /\ worker.kind = "view" => worker.version \in art
      /\ \A p \in Things : product[p] # "none" => job[p].state # "absent"
      /\ \A v \in Versions : <<v, "view">> \in Things /\ product[<<v, "view">>] # "none" => v \in art
      /\ \A v \in art : <<v, "view">> \in Things /\ job[<<v, "view">>].state # "absent"
  BY DEF ViewsKept
<1>2. \A p \in Things : p \in Versions \X JobKinds
  BY ThingPlaces
<1>3. worker.at # "idle" => <<worker.version, worker.kind>> \in Versions \X JobKinds
  BY AtWorkRow DEF SourcesInv
<1>4. /\ worker'.at # "idle" => job'[<<worker'.version, worker'.kind>>].state # "absent"
      /\ worker'.at \in Viewing /\ worker'.kind = "view" => worker'.version \in art'
  <2>1. CASE worker' = worker
    BY <1>1, <1>3, <2>1
  <2>2. CASE worker' = Idle
    BY <2>2 DEF Idle, Viewing
  <2>. QED
    BY <2>1, <2>2
<1>. QED
  BY <1>1, <1>2, <1>4

\* A refresh makes what was prepared stale; it neither makes nor removes it.
LEMMA UploadProducts ==
    ASSUME SourcesInv, UploadNext
    PROVE  /\ UNCHANGED <<worker, job, art>> /\ (Kept' <=> Kept)
           /\ \A p \in Things : product'[p] # "none" <=> product[p] # "none"
<1>1. UploadEffect /\ (SourceStays \/ \E v \in Versions : Refreshes(v))
  BY UploadEffects DEF SourcesInv
<1>2. UNCHANGED <<worker, job, art>>
  BY <1>1 DEF UploadEffect, SameJobs
<1>3. Kept' <=> Kept
  BY <1>1 DEF SourceStays, Refreshes, Kept
<1>4. PICK v \in Versions :
        \/ CreateUpload(v) \/ ExpireUpload(v)
        \/ BeginChunk(v) \/ Receive(v) \/ EnterChunk(v) \/ AppendChunk(v) \/ AdvanceChunk(v) \/ Discard(v)
        \/ BeginComplete(v) \/ BeginCompletion(v) \/ PlaceDirectory(v) \/ Rename(v)
        \/ InspectPlaced(v) \/ FinishCompletion(v) \/ Withdraw(v) \/ FailUpload(v)
  BY DEF UploadNext
<1>5. CASE FinishCompletion(v)
  BY <1>2, <1>3, <1>5 DEF FinishCompletion
<1>6. CASE ~FinishCompletion(v)
  <2>1. UNCHANGED product
    BY <1>4, <1>6 DEF CreateUpload, ExpireUpload, BeginChunk, Receive, EnterChunk,
       AppendChunk, AdvanceChunk, Discard, BeginComplete, BeginCompletion, PlaceDirectory, Rename,
       InspectPlaced, Withdraw, FailUpload
  <2>. QED
    BY <1>2, <1>3, <2>1
<1>. QED
  BY <1>5, <1>6

LEMMA UploadViews ==
    ASSUME SourcesInv, ViewsKept, UploadNext
    PROVE  ViewsKept'
BY UploadProducts, ViewsStay

LEMMA DeletionViews ==
    ASSUME SourcesInv, ViewsKept, DeletionNext
    PROVE  ViewsKept'
<1>1. UNCHANGED worker
  BY DeletionEffects DEF SourcesInv, SameUploads
<1>. QED
  BY <1>1, DeletionSpares, ViewsStay

LEMMA RestartViews ==
    ASSUME SourcesInv, ViewsKept, Restart
    PROVE  ViewsKept'
<1>1. UNCHANGED <<art, product>> /\ worker' = Idle
  BY DEF Restart
<1>2. Reboots
  BY RestartKeeps
<1>3. /\ Kept' => Kept
      /\ \A j \in Versions \X JobKinds : job[j].state # "absent" => job'[j].state # "absent"
  BY <1>2 DEF Reboots, RowsKept, Kept
<1>. QED
  BY <1>1, <1>3, ViewsStay

LEMMA JobOriginals ==
    ASSUME SourcesInv, OriginalsKept, JobNext
    PROVE  OriginalsKept'
<1>1. JobEffect
  BY JobEffects DEF SourcesInv
<1>. QED
  BY <1>1, OriginalsStay DEF JobEffect, SameOutside, SameLife, Kept

LEMMA OutsideOriginals ==
    ASSUME SourcesInv, OriginalsKept, ViewsKept, SameStores
    PROVE  OriginalsKept' /\ ViewsKept'
<1>1. UNCHANGED <<source, version, job, product, upload, handler, staged, object, quar, art, worker>>
  BY DEF SameStores, byteVars
<1>2. Kept' <=> Kept
  BY <1>1 DEF Kept
<1>. QED
  BY <1>1, <1>2, OriginalsStay, ViewsStay

-----------------------------------------------------------------------------
(* The inventory *)

\* What collectInventory lists.
LEMMA InventoryHas ==
    ASSUME SourcesInv, NEW v \in Versions
    PROVE  /\ version[v].there => <<"immutable_original", v>> \in Inventory
           /\ upload[v].state # "absent" => <<"upload_staging", v>> \in Inventory
           /\ upload[v].pending = TRUE => <<"placed_candidate", v>> \in Inventory
           /\ "extract" \in Preparations /\ product[<<v, "extract">>] # "none" =>
                <<"derived_resource", v>> \in Inventory
           /\ "view" \in Preparations /\ job[<<v, "view">>].state # "absent" =>
                <<"data_view", v>> \in Inventory
           /\ \A k \in JobKinds : job[<<v, k>>].state # "absent" => <<k, v>> \in Inventory
<1>1. DOMAIN job = Versions \X JobKinds
  BY TypesBefore DEF SourcesInv
<1>2. ASSUME NEW k \in JobKinds, job[<<v, k>>].state # "absent"
      PROVE  <<k, v>> \in Inventory
  <2>1. <<v, k>> \in {i \in DOMAIN job : job[i].state # "absent"}
    BY <1>1, <1>2
  <2>2. <<k, v>> \in {<<j[2], j[1]>> : j \in {i \in DOMAIN job : job[i].state # "absent"}}
    BY <2>1
  <2>. QED
    BY <2>2 DEF Inventory
<1>3. version[v].there => <<"immutable_original", v>> \in Inventory
  BY DEF Inventory
<1>4. upload[v].state # "absent" => <<"upload_staging", v>> \in Inventory
  BY DEF Inventory
<1>5. upload[v].pending = TRUE => <<"placed_candidate", v>> \in Inventory
  BY DEF Inventory
<1>6. "extract" \in Preparations /\ product[<<v, "extract">>] # "none" =>
        <<"derived_resource", v>> \in Inventory
  BY DEF Inventory
<1>7. "view" \in Preparations /\ job[<<v, "view">>].state # "absent" =>
        <<"data_view", v>> \in Inventory
  BY DEF Inventory
<1>. QED
  BY <1>2, <1>3, <1>4, <1>5, <1>6, <1>7

\* It depends on the rows that are there only.
LEMMA SameInventory ==
    ASSUME \A v \in Versions :
             /\ version'[v].there = version[v].there
             /\ upload'[v].state = "absent" <=> upload[v].state = "absent"
             /\ upload'[v].pending = upload[v].pending,
           \A p \in Things : product'[p] # "none" <=> product[p] # "none",
           DOMAIN job = Versions \X JobKinds, DOMAIN job' = Versions \X JobKinds,
           \A j \in Versions \X JobKinds : job'[j].state = "absent" <=> job[j].state = "absent"
    PROVE  Inventory' = Inventory
<1>1. {w \in Versions : version'[w].there} = {w \in Versions : version[w].there}
  BY Zenon
<1>2. {w \in Versions : upload'[w].state # "absent"} = {w \in Versions : upload[w].state # "absent"}
  OBVIOUS
<1>3. {w \in Versions : upload'[w].pending} = {w \in Versions : upload[w].pending}
  BY Zenon
<1>4. {w \in Versions : "extract" \in Preparations /\ product'[<<w, "extract">>] # "none"}
        = {w \in Versions : "extract" \in Preparations /\ product[<<w, "extract">>] # "none"}
  BY DEF Things
<1>5. {w \in Versions : "view" \in Preparations /\ job'[<<w, "view">>].state # "absent"}
        = {w \in Versions : "view" \in Preparations /\ job[<<w, "view">>].state # "absent"}
  BY DEF JobKinds
<1>6. {i \in DOMAIN job' : job'[i].state # "absent"} = {i \in DOMAIN job : job[i].state # "absent"}
  OBVIOUS
<1>. QED
  BY <1>1, <1>2, <1>3, <1>4, <1>5, <1>6, Zenon DEF Inventory

\* Until destruction starts the inventory lists all there is and all that those
\* under way could bring about.
LEMMA AllIsListed ==
    ASSUME SourcesInv, OriginalsKept, ViewsKept, Kept
    PROVE  Listed(Inventory)
<1> USE DEF SourcesInv
<1>1. ASSUME NEW v \in Versions
      PROVE  Accounted(v)
  BY DEF OriginalsKept
<1>2. /\ worker.at # "idle" => job[<<worker.version, worker.kind>>].state # "absent"
      /\ \A p \in Things : product[p] # "none" => job[p].state # "absent"
      /\ \A v \in art : <<v, "view">> \in Things /\ job[<<v, "view">>].state # "absent"
  BY DEF ViewsKept
<1>3. ASSUME NEW v \in Versions, NEW k \in Preparations
      PROVE  <<v, k>> \in Things
  BY DEF Things
<1>4. \A v \in Versions : <<v, "view">> \in Things => "view" \in Preparations
  BY DEF Things
<1>5. ASSUME NEW v \in Versions
      PROVE  /\ handler[v].at # "idle" => <<"upload_staging", v>> \in Inventory
             /\ handler[v].at \in Placing => <<"placed_candidate", v>> \in Inventory
             /\ <<v, "view">> \in Things /\ job[<<v, "view">>].state # "absent" =>
                  <<"data_view", v>> \in Inventory
  <2>1. handler[v].at # "idle" => upload[v].state # "absent"
    BY ServedIsThere
  <2>2. handler[v].at \in Placing => upload[v].pending = TRUE
    BY <1>1 DEF Accounted
  <2>. QED
    BY <1>4, <2>1, <2>2, InventoryHas
<1>6. ASSUME worker.at # "idle", worker.kind = "view"
      PROVE  <<"data_view", worker.version>> \in Inventory
  <2>1. worker.version \in Versions /\ "view" \in JobKinds
    BY <1>6, AtWorkRow
  <2>2. "view" \in Preparations
    BY <2>1 DEF JobKinds
  <2>3. job[<<worker.version, "view">>].state # "absent"
    BY <1>2, <1>6
  <2>. QED
    BY <2>1, <2>2, <2>3, InventoryHas
<1>7. ASSUME NEW v \in Versions
      PROVE  /\ object[v] \in Original => <<"placed_candidate", v>> \in Inventory
             /\ v \in quar \/ staged[v] # <<>> => <<"upload_staging", v>> \in Inventory
             /\ v \in art => <<"data_view", v>> \in Inventory
             /\ \A k \in Preparations :
                  product[<<v, k>>] # "none" =>
                    <<IF k = "view" THEN "data_view" ELSE "derived_resource", v>> \in Inventory
  <2>1. object[v] \in Original => upload[v].pending = TRUE
    BY <1>1 DEF Accounted
  <2>2. v \in quar \/ staged[v] # <<>> => upload[v].state # "absent"
    BY <1>1 DEF Accounted
  <2>3. v \in art => "view" \in Preparations /\ job[<<v, "view">>].state # "absent"
    BY <1>2, <1>4
  <2>4. ASSUME NEW k \in Preparations, product[<<v, k>>] # "none"
        PROVE  <<IF k = "view" THEN "data_view" ELSE "derived_resource", v>> \in Inventory
    <3>1. CASE k = "view"
      BY <1>2, <1>3, <2>4, <3>1, InventoryHas
    <3>2. CASE k # "view"
      <4>1. k = "extract"
        BY <3>2, SourceAssumption
      <4>. QED
        BY <2>4, <4>1, InventoryHas
    <3>. QED
      BY <3>1, <3>2
  <2>. QED
    BY <2>1, <2>2, <2>3, <2>4, InventoryHas
<1>8. Covered(Inventory)
  BY <1>7, InventoryHas DEF Covered
<1>. QED
  BY <1>5, <1>6, <1>8 DEF Listed

-----------------------------------------------------------------------------
(* The inventory stays complete *)

\* Nothing is new that was neither there nor under way.
Shrinks ==
    /\ \A v \in Versions :
         /\ version'[v].there => version[v].there
         /\ upload'[v].state # "absent" => upload[v].state # "absent"
         /\ object'[v] \in Original => object[v] \in Original \/ handler[v].at \in Placing
         /\ v \in quar' \/ staged'[v] # <<>> =>
              v \in quar \/ staged[v] # <<>> \/ handler[v].at # "idle"
         /\ handler'[v].at # "idle" => handler[v].at # "idle"
         /\ handler'[v].at \in Placing => handler[v].at \in Placing
         /\ v \in art' =>
              v \in art \/ (worker.at # "idle" /\ worker.kind = "view" /\ worker.version = v)
    /\ \A j \in Versions \X JobKinds : job'[j].state # "absent" => job[j].state # "absent"
    /\ \A p \in Things : product'[p] # "none" => product[p] # "none"
    /\ worker'.at # "idle" /\ worker'.kind = "view" =>
         \/ worker.at # "idle" /\ worker.kind = "view" /\ worker'.version = worker.version
         \/ /\ worker'.version \in Versions /\ <<worker'.version, "view">> \in Things
            /\ job[<<worker'.version, "view">>].state # "absent"

LEMMA ListedCarried ==
    ASSUME Listed(DOMAIN inv), DOMAIN inv' = DOMAIN inv, Shrinks
    PROVE  Listed(DOMAIN inv)'
<1>1. Covered(DOMAIN inv)
  BY DEF Listed
<1>2. ASSUME NEW v \in Versions
      PROVE  /\ handler[v].at # "idle" => <<"upload_staging", v>> \in DOMAIN inv
             /\ handler[v].at \in Placing => <<"placed_candidate", v>> \in DOMAIN inv
             /\ <<v, "view">> \in Things /\ job[<<v, "view">>].state # "absent" =>
                  <<"data_view", v>> \in DOMAIN inv
  BY DEF Listed
<1>3. worker.at # "idle" /\ worker.kind = "view" => <<"data_view", worker.version>> \in DOMAIN inv
  BY DEF Listed
<1>4. ASSUME NEW v \in Versions
      PROVE  /\ object'[v] \in Original =>
                  {<<"immutable_original", v>>, <<"placed_candidate", v>>} \cap DOMAIN inv # {}
             /\ v \in quar' \/ staged'[v] # <<>> => <<"upload_staging", v>> \in DOMAIN inv
             /\ v \in art' => <<"data_view", v>> \in DOMAIN inv
             /\ version'[v].there => <<"immutable_original", v>> \in DOMAIN inv
             /\ upload'[v].state # "absent" => <<"upload_staging", v>> \in DOMAIN inv
             /\ \A k \in JobKinds : job'[<<v, k>>].state # "absent" => <<k, v>> \in DOMAIN inv
             /\ \A k \in Preparations :
                  product'[<<v, k>>] # "none" =>
                    <<IF k = "view" THEN "data_view" ELSE "derived_resource", v>> \in DOMAIN inv
  <2>1. object'[v] \in Original =>
          {<<"immutable_original", v>>, <<"placed_candidate", v>>} \cap DOMAIN inv # {}
    BY <1>1, <1>2 DEF Covered, Shrinks
  <2>2. v \in quar' \/ staged'[v] # <<>> => <<"upload_staging", v>> \in DOMAIN inv
    BY <1>1, <1>2 DEF Covered, Shrinks
  <2>3. v \in art' => <<"data_view", v>> \in DOMAIN inv
    BY <1>1, <1>3 DEF Covered, Shrinks
  <2>4. /\ version'[v].there => <<"immutable_original", v>> \in DOMAIN inv
        /\ upload'[v].state # "absent" => <<"upload_staging", v>> \in DOMAIN inv
    BY <1>1 DEF Covered, Shrinks
  <2>5. \A k \in JobKinds : job'[<<v, k>>].state # "absent" => <<k, v>> \in DOMAIN inv
    BY <1>1 DEF Covered, Shrinks
  <2>6. \A k \in Preparations :
          product'[<<v, k>>] # "none" =>
            <<IF k = "view" THEN "data_view" ELSE "derived_resource", v>> \in DOMAIN inv
    <3>1. \A k \in Preparations : <<v, k>> \in Things
      BY DEF Things
    <3>. QED
      BY <1>1, <3>1 DEF Covered, Shrinks
  <2>. QED
    BY <2>1, <2>2, <2>3, <2>4, <2>5, <2>6
<1>5. Covered(DOMAIN inv)'
  BY <1>4 DEF Covered
<1>6. ASSUME NEW v \in Versions
      PROVE  /\ handler'[v].at # "idle" => <<"upload_staging", v>> \in DOMAIN inv
             /\ handler'[v].at \in Placing => <<"placed_candidate", v>> \in DOMAIN inv
             /\ <<v, "view">> \in Things /\ job'[<<v, "view">>].state # "absent" =>
                  <<"data_view", v>> \in DOMAIN inv
  <2>1. <<v, "view">> \in Things => <<v, "view">> \in Versions \X JobKinds
    BY ThingPlaces
  <2>. QED
    BY <1>2, <2>1 DEF Shrinks
<1>7. worker'.at # "idle" /\ worker'.kind = "view" => <<"data_view", worker'.version>> \in DOMAIN inv
  BY <1>2, <1>3 DEF Shrinks
<1>. QED
  BY <1>5, <1>6, <1>7 DEF Listed

\* An upload step of a source that is frozen or being deleted writes no row, and
\* takes up no request.
LEMMA ClosedRows ==
    ASSUME SourcesInv, source.deletion # "active", NEW v \in Versions,
           \/ CreateUpload(v) \/ ExpireUpload(v)
           \/ BeginChunk(v) \/ Receive(v) \/ EnterChunk(v) \/ AppendChunk(v) \/ AdvanceChunk(v) \/ Discard(v)
           \/ BeginComplete(v) \/ BeginCompletion(v) \/ PlaceDirectory(v) \/ Rename(v)
           \/ InspectPlaced(v) \/ FinishCompletion(v) \/ Withdraw(v) \/ FailUpload(v)
    PROVE  /\ UNCHANGED <<source, version, product, upload>>
           /\ handler[v].at # "idle"
           /\ Receive(v) \/ EnterChunk(v) \/ AppendChunk(v) \/ AdvanceChunk(v) \/ Discard(v)
              \/ BeginCompletion(v) \/ PlaceDirectory(v) \/ Rename(v)
              \/ InspectPlaced(v) \/ FinishCompletion(v) \/ Withdraw(v) \/ FailUpload(v)
<1>1. upload[v].state \notin {"open", "completing"}
  BY DEF SourcesInv, PhaseKept, Quieted
<1>2. ~CreateUpload(v) /\ ~ExpireUpload(v) /\ ~BeginChunk(v) /\ ~BeginComplete(v)
  BY <1>1 DEF CreateUpload, ExpireUpload, BeginChunk, BeginComplete
<1>3. CASE Receive(v) \/ EnterChunk(v) \/ AppendChunk(v) \/ Discard(v)
  BY <1>3 DEF Receive, EnterChunk, AppendChunk, Discard
<1>4. CASE AdvanceChunk(v)
  BY <1>1, <1>4 DEF AdvanceChunk
<1>5. CASE PlaceDirectory(v) \/ Rename(v) \/ Withdraw(v)
  BY <1>5 DEF PlaceDirectory, Rename, Withdraw
<1>6. CASE BeginCompletion(v)
  BY <1>1, <1>6 DEF BeginCompletion
<1>7. CASE InspectPlaced(v)
  BY <1>1, <1>7 DEF InspectPlaced
<1>8. CASE FinishCompletion(v)
  BY <1>1, <1>8 DEF FinishCompletion
<1>9. CASE FailUpload(v)
  BY <1>1, <1>9 DEF FailUpload
<1>. QED
  BY <1>2, <1>3, <1>4, <1>5, <1>6, <1>7, <1>8, <1>9

\* ... it only goes on with what was placing already.
LEMMA ClosedHandlers ==
    ASSUME SourcesInv, source.deletion # "active", NEW v \in Versions,
           Receive(v) \/ EnterChunk(v) \/ AppendChunk(v) \/ AdvanceChunk(v) \/ Discard(v)
           \/ BeginCompletion(v) \/ PlaceDirectory(v) \/ Rename(v)
           \/ InspectPlaced(v) \/ FinishCompletion(v) \/ Withdraw(v) \/ FailUpload(v)
    PROVE  /\ handler'[v].at \in Placing => handler[v].at \in Placing
           /\ \A w \in Versions \ {v} : handler'[w] = handler[w]
<1> USE DEF SourcesInv
<1>1. upload[v].state \notin {"open", "completing"}
  BY DEF PhaseKept, Quieted
<1>2. ASSUME NEW at \in ChunkAt, Step(v, at), handler[v].at \in ChunkAt
      PROVE  /\ handler'[v].at \notin Placing
             /\ \A w \in Versions \ {v} : handler'[w] = handler[w]
  BY <1>2, ChunkGoes DEF ChunkAt, Placing
<1>3. ASSUME Done(v)
      PROVE  /\ handler'[v].at \notin Placing
             /\ \A w \in Versions \ {v} : handler'[w] = handler[w]
  BY <1>3, HandlerEnds DEF Idle, Placing
<1>4. ASSUME NEW at \in Placing, Step(v, at), handler[v].at \in Placing
      PROVE  \A w \in Versions \ {v} : handler'[w] = handler[w]
  BY <1>4, CompletionGoes DEF CompleteAt
<1>5. {"receive", "locked", "append", "advance", "discard"} \subseteq ChunkAt
  BY DEF ChunkAt
<1>6. {"directory", "rename", "inspect", "finish", "withdraw", "fail"} \subseteq Placing
  BY DEF Placing
<1>7. CASE Receive(v)
  BY <1>2, <1>3, <1>5, <1>7 DEF Receive
<1>8. CASE EnterChunk(v)
  BY <1>2, <1>5, <1>8 DEF EnterChunk
<1>9. CASE AppendChunk(v)
  BY <1>2, <1>5, <1>9 DEF AppendChunk
<1>10. CASE AdvanceChunk(v)
  BY <1>2, <1>5, <1>10 DEF AdvanceChunk
<1>11. CASE Discard(v)
  BY <1>3, <1>11 DEF Discard
<1>12. CASE BeginCompletion(v)
  BY <1>1, <1>3, <1>12 DEF BeginCompletion
<1>13. CASE PlaceDirectory(v)
  BY <1>4, <1>6, <1>13 DEF PlaceDirectory
<1>14. CASE Rename(v)
  BY <1>3, <1>4, <1>6, <1>14 DEF Rename
<1>15. CASE InspectPlaced(v)
  BY <1>3, <1>4, <1>6, <1>15 DEF InspectPlaced
<1>16. CASE FinishCompletion(v)
  BY <1>3, <1>4, <1>6, <1>16 DEF FinishCompletion
<1>17. CASE Withdraw(v)
  BY <1>4, <1>6, <1>17 DEF Withdraw
<1>18. CASE FailUpload(v)
  BY <1>3, <1>18 DEF FailUpload
<1>. QED
  BY <1>7, <1>8, <1>9, <1>10, <1>11, <1>12, <1>13, <1>14, <1>15, <1>16, <1>17, <1>18

\* ... and touches only the files of its own version.
LEMMA ClosedFiles ==
    ASSUME SourcesInv, source.deletion # "active", NEW v \in Versions,
           Receive(v) \/ EnterChunk(v) \/ AppendChunk(v) \/ AdvanceChunk(v) \/ Discard(v)
           \/ BeginCompletion(v) \/ PlaceDirectory(v) \/ Rename(v)
           \/ InspectPlaced(v) \/ FinishCompletion(v) \/ Withdraw(v) \/ FailUpload(v)
    PROVE  /\ object'[v] \in Original => object[v] \in Original \/ handler[v].at \in Placing
           /\ \A w \in Versions \ {v} :
                /\ object'[w] = object[w] /\ staged'[w] = staged[w]
                /\ w \in quar' <=> w \in quar
<1> USE TypesBefore DEF SourcesInv
<1>1. staged \in StagedType /\ object \in ObjectType
  OBVIOUS
<1>2. CASE Receive(v) \/ Discard(v)
  BY <1>1, <1>2 DEF Receive, Discard
<1>3. CASE EnterChunk(v) \/ AppendChunk(v) \/ AdvanceChunk(v)
  <2>1. UNCHANGED <<quar, object>>
    BY <1>3 DEF EnterChunk, AppendChunk, AdvanceChunk
  <2>2. \A w \in Versions \ {v} : staged'[w] = staged[w]
    BY <1>1, <1>3 DEF EnterChunk, AppendChunk, AdvanceChunk, StagedType
  <2>. QED
    BY <2>1, <2>2
<1>4. CASE BeginCompletion(v) \/ InspectPlaced(v) \/ FinishCompletion(v) \/ FailUpload(v)
  BY <1>4 DEF BeginCompletion, InspectPlaced, FinishCompletion, FailUpload, byteVars
<1>5. CASE PlaceDirectory(v)
  BY <1>1, <1>5 DEF PlaceDirectory, ObjectType, Placing
<1>6. CASE Rename(v)
  BY <1>1, <1>6 DEF Rename, ObjectType, StagedType, Placing
<1>7. CASE Withdraw(v)
  BY <1>1, <1>7 DEF Withdraw, ObjectType, Placing
<1>. QED
  BY <1>2, <1>3, <1>4, <1>5, <1>6, <1>7

LEMMA UploadShrinks ==
    ASSUME SourcesInv, source.deletion # "active", UploadNext
    PROVE  /\ Shrinks
           /\ UNCHANGED <<source, version, product, upload, job, inv>>
<1>1. PICK v \in Versions :
        \/ CreateUpload(v) \/ ExpireUpload(v)
        \/ BeginChunk(v) \/ Receive(v) \/ EnterChunk(v) \/ AppendChunk(v) \/ AdvanceChunk(v) \/ Discard(v)
        \/ BeginComplete(v) \/ BeginCompletion(v) \/ PlaceDirectory(v) \/ Rename(v)
        \/ InspectPlaced(v) \/ FinishCompletion(v) \/ Withdraw(v) \/ FailUpload(v)
  BY DEF UploadNext
<1>2. /\ UNCHANGED <<source, version, product, upload>>
      /\ handler[v].at # "idle"
      /\ Receive(v) \/ EnterChunk(v) \/ AppendChunk(v) \/ AdvanceChunk(v) \/ Discard(v)
         \/ BeginCompletion(v) \/ PlaceDirectory(v) \/ Rename(v)
         \/ InspectPlaced(v) \/ FinishCompletion(v) \/ Withdraw(v) \/ FailUpload(v)
  BY <1>1, ClosedRows
<1>3. /\ handler'[v].at \in Placing => handler[v].at \in Placing
      /\ \A w \in Versions \ {v} : handler'[w] = handler[w]
  BY <1>2, ClosedHandlers
<1>4. /\ object'[v] \in Original => object[v] \in Original \/ handler[v].at \in Placing
      /\ \A w \in Versions \ {v} :
           /\ object'[w] = object[w] /\ staged'[w] = staged[w]
           /\ w \in quar' <=> w \in quar
  BY <1>2, ClosedFiles
<1>5. UploadEffect
  BY UploadEffects DEF SourcesInv
<1>6. UNCHANGED <<job, inv, worker, art>>
  BY <1>5 DEF UploadEffect, SameJobs
<1>7. ASSUME NEW w \in Versions
      PROVE  /\ object'[w] \in Original => object[w] \in Original \/ handler[w].at \in Placing
             /\ w \in quar' \/ staged'[w] # <<>> =>
                  w \in quar \/ staged[w] # <<>> \/ handler[w].at # "idle"
             /\ handler'[w].at # "idle" => handler[w].at # "idle"
             /\ handler'[w].at \in Placing => handler[w].at \in Placing
  <2>1. CASE w = v
    BY <1>2, <1>3, <1>4, <2>1
  <2>2. CASE w # v
    BY <1>3, <1>4, <2>2
  <2>. QED
    BY <2>1, <2>2
<1>8. worker'.at # "idle" /\ worker'.kind = "view" =>
        worker.at # "idle" /\ worker.kind = "view" /\ worker'.version = worker.version
  BY <1>6
<1>9. Shrinks
  BY <1>2, <1>6, <1>7, <1>8 DEF Shrinks
<1>. QED
  BY <1>2, <1>6, <1>9

\* No job of such a source is running: nothing more is published.
LEMMA JobShrinks ==
    ASSUME SourcesInv, source.deletion # "active", JobNext
    PROVE  /\ Shrinks
           /\ UNCHANGED <<upload, inv, product>> /\ source'.deletion = source.deletion
           /\ \A v \in Versions : version'[v].there = version[v].there
           /\ job' \in [Versions \X JobKinds -> JobType]
           /\ \A j \in Versions \X JobKinds : job'[j].state = "absent" <=> job[j].state = "absent"
<1> USE DEF SourcesInv
<1>1. JobEffect
  BY JobEffects
<1>2. /\ UNCHANGED <<upload, handler, quar, staged, object, inv>>
      /\ source'.deletion = source.deletion
      /\ \A v \in Versions : version'[v].there = version[v].there
  BY <1>1 DEF JobEffect, SameOutside, SameLife
<1>3. /\ job' \in [Versions \X JobKinds -> JobType]
      /\ \A j \in Versions \X JobKinds : job'[j].state = "absent" <=> job[j].state = "absent"
  BY <1>1, JobKeptRows DEF JobEffect, RowsKept
<1>4. ~Publishes
  <2>1. SUFFICES ASSUME Publishes
                 PROVE  FALSE
    OBVIOUS
  <2>2. worker.at # "idle" /\ Row.state = "running"
    BY <2>1 DEF Publishes, Held
  <2>3. <<worker.version, worker.kind>> \in Versions \X JobKinds
    BY <2>2, AtWorkRow
  <2>4. job[<<worker.version, worker.kind>>].state \notin JobPending
    BY <2>3 DEF PhaseKept, Quieted
  <2>. QED
    BY <2>2, <2>4 DEF Row, JobPending
<1>5. UNCHANGED product
  BY <1>4, ArtifactMoves
<1>6. ASSUME NEW v \in art', v \notin art
      PROVE  worker.at # "idle" /\ worker.kind = "view" /\ worker.version = v
  <2>1. CASE UNCHANGED art
    BY <1>6, <2>1
  <2>2. CASE Read
    BY <1>6, <2>2 DEF Read, View
  <2>3. CASE Cleanup
    BY <1>6, <2>3 DEF Cleanup
  <2>. QED
    BY <1>4, <2>1, <2>2, <2>3, ArtifactMoves
<1>7. ASSUME worker'.at # "idle", worker'.kind = "view"
      PROVE  \/ worker.at # "idle" /\ worker.kind = "view" /\ worker'.version = worker.version
             \/ /\ worker'.version \in Versions /\ <<worker'.version, "view">> \in Things
                /\ job[<<worker'.version, "view">>].state # "absent"
  <2>1. WorkerMove
    BY WorkerMovesOn
  <2>2. CASE UNCHANGED worker
    BY <1>7, <2>2
  <2>3. CASE worker' = Idle
    BY <1>7, <2>3 DEF Idle
  <2>4. CASE /\ worker.at # "idle"
             /\ worker'.version = worker.version /\ worker'.kind = worker.kind
    BY <1>7, <2>4
  <2>5. ASSUME NEW j \in Versions \X JobKinds, worker'.version = j[1], worker'.kind = j[2],
               job[j].state # "absent"
        PROVE  /\ worker'.version \in Versions /\ <<worker'.version, "view">> \in Things
               /\ job[<<worker'.version, "view">>].state # "absent"
    <3>1. j = <<j[1], j[2]>> /\ j[1] \in Versions /\ j[2] \in JobKinds
      OBVIOUS
    <3>2. j = <<worker'.version, "view">> /\ "view" \in JobKinds
      BY <1>7, <2>5, <3>1
    <3>. QED
      BY <2>5, <3>1, <3>2 DEF Things, JobKinds
  <2>. QED
    BY <2>1, <2>2, <2>3, <2>4, <2>5 DEF WorkerMove
<1>8. Shrinks
  BY <1>2, <1>3, <1>5, <1>6, <1>7 DEF Shrinks
<1>. QED
  BY <1>2, <1>3, <1>5, <1>8

\* Destruction only takes away, and marks what it took in the inventory.
LEMMA ErasureShrinks ==
    ASSUME SourcesInv, RemoveArtifact \/ VerifyArtifact
    PROVE  /\ DOMAIN inv' = DOMAIN inv
           /\ \A v \in Versions :
                /\ upload'[v].state # "absent" => upload[v].state # "absent"
                /\ object'[v] \in Original => object[v] \in Original
                /\ v \in quar' \/ staged'[v] # <<>> => v \in quar \/ staged[v] # <<>>
                /\ v \in art' => v \in art
           /\ \A p \in Things : product'[p] # "none" => product[p] # "none"
<1> USE TypesBefore DEF SourcesInv
<1>1. eraser.at # "idle"
  BY DEF RemoveArtifact, VerifyArtifact
<1>2. eraser.todo \subseteq Artifacts
  BY <1>1, EraserPlaces
<1>3. PICK a \in First(eraser.todo) :
        /\ \/ UNCHANGED <<upload, product, job, inv, quar, staged, object, art>>
           \/ EraseBytes(a) /\ EraseRows(a) /\ Marked(a, "removed")
           \/ EraseRows(a) /\ Marked(a, "verified_absent") /\ UNCHANGED <<quar, staged, object, art>>
           \/ Marked(a, "failed") /\ UNCHANGED <<upload, product, quar, staged, object, art>>
  BY DEF RemoveArtifact, VerifyArtifact, byteVars
<1>4. a \in Artifacts
  BY <1>2 DEF First
<1>5. ASSUME NEW state \in ArtifactStates, Marked(a, state)
      PROVE  DOMAIN inv' = DOMAIN inv
  BY <1>5, MarkTypes
<1>6. {"removed", "verified_absent", "failed"} \subseteq ArtifactStates
  BY DEF ArtifactStates
<1>7. ASSUME EraseRows(a)
      PROVE  /\ \A v \in Versions : upload'[v].state # "absent" => upload[v].state # "absent"
             /\ \A p \in Things : product'[p] # "none" => product[p] # "none"
  <2>1. upload' = upload \/ upload' = [upload EXCEPT ![a[2]] = NoUpload]
    BY <1>7 DEF EraseRows
  <2>2. \/ product' = product
        \/ product' = [product EXCEPT ![<<a[2], "extract">>] = "none"]
        \/ product' = [product EXCEPT ![<<a[2], "view">>] = "none"]
    BY <1>7 DEF EraseRows
  <2>3. \A v \in Versions : upload'[v].state # "absent" => upload[v].state # "absent"
    BY <2>1, NoUploadTyped
  <2>4. \A p \in Things : product'[p] # "none" => product[p] # "none"
    BY <2>2 DEF ProductType
  <2>. QED
    BY <2>3, <2>4
<1>8. ASSUME EraseBytes(a)
      PROVE  \A v \in Versions :
               /\ object'[v] \in Original => object[v] \in Original
               /\ v \in quar' \/ staged'[v] # <<>> => v \in quar \/ staged[v] # <<>>
               /\ v \in art' => v \in art
  <2>1. object' = object \/ object' = [object EXCEPT ![a[2]] = "none"]
    BY <1>8 DEF EraseBytes
  <2>2. art' \subseteq art /\ quar' \subseteq quar
    BY <1>8 DEF EraseBytes
  <2>3. staged' = staged \/ staged' = [staged EXCEPT ![a[2]] = <<>>]
    BY <1>8 DEF EraseBytes
  <2>4. \A v \in Versions : object'[v] \in Original => object[v] \in Original
    BY <2>1 DEF ObjectType, Original
  <2>5. \A v \in Versions : staged'[v] # <<>> => staged[v] # <<>>
    BY <2>3 DEF StagedType
  <2>. QED
    BY <2>2, <2>4, <2>5
<1>9. CASE UNCHANGED <<upload, product, job, inv, quar, staged, object, art>>
  BY <1>9
<1>10. CASE EraseBytes(a) /\ EraseRows(a) /\ Marked(a, "removed")
  BY <1>5, <1>6, <1>7, <1>8, <1>10
<1>11. CASE EraseRows(a) /\ Marked(a, "verified_absent") /\ UNCHANGED <<quar, staged, object, art>>
  BY <1>5, <1>6, <1>7, <1>11
<1>12. CASE Marked(a, "failed") /\ UNCHANGED <<upload, product, quar, staged, object, art>>
  BY <1>5, <1>6, <1>12
<1>. QED
  BY <1>3, <1>9, <1>10, <1>11, <1>12

LEMMA DeletionShrinks ==
    ASSUME SourcesInv, DeletionNext, Dying'
    PROVE  /\ Shrinks /\ DOMAIN inv' = DOMAIN inv
           /\ source.deletion = "frozen" \/ Dying
<1> USE DEF SourcesInv
<1>1. DeletionLife
  BY DeletionStepKeeps
<1>2. UNCHANGED <<handler, worker>>
  BY DeletionEffects DEF SameUploads
<1>3. /\ UNCHANGED version /\ (source.deletion = "frozen" \/ Dying)
      /\ \A j \in Versions \X JobKinds : job'[j].state # "absent" => job[j].state # "absent"
  BY <1>1 DEF DeletionLife, Quiet, Sweeps, Erases, Renews, Moves, Dying
<1>4. /\ DOMAIN inv' = DOMAIN inv
      /\ \A v \in Versions :
           /\ upload'[v].state # "absent" => upload[v].state # "absent"
           /\ object'[v] \in Original => object[v] \in Original
           /\ v \in quar' \/ staged'[v] # <<>> => v \in quar \/ staged[v] # <<>>
           /\ v \in art' => v \in art
      /\ \A p \in Things : product'[p] # "none" => product[p] # "none"
  <2>1. CASE RemoveArtifact \/ VerifyArtifact
    BY <2>1, ErasureShrinks
  <2>2. CASE ~RemoveArtifact /\ ~VerifyArtifact
    <3>1. ~Plan
      <4>1. source' = [source EXCEPT !.deletion = "frozen", !.revision = @ + 1] => source'.deletion = "frozen"
        BY TypesBefore DEF SourceRow
      <4>. QED
        BY <4>1 DEF Plan, Dying
    <3>2. UNCHANGED <<upload, product, quar, staged, object, art>>
      BY <2>2, <3>1 DEF DeletionNext, EraserStep, CancelDeletion, RetryPartial, RunOneDeletion,
         StartDestruction, AdvancePass, FinishDeletion, EraserThrows, DeletionLease, byteVars, jobVars
    <3>3. DOMAIN inv' = DOMAIN inv
      <4>1. CASE RetryPartial
        BY <4>1 DEF RetryPartial
      <4>2. CASE RunOneDeletion
        <5>1. ~ConfirmCancellation
          <6>1. source' = [source EXCEPT !.deletion = "active", !.revision = @ + 1] =>
                  source'.deletion = "active"
            BY TypesBefore DEF SourceRow
          <6>. QED
            BY <6>1 DEF ConfirmCancellation, Dying
        <5>. QED
          BY <4>2, <5>1 DEF RunOneDeletion, RecoverDeletion, ClaimDeletion
      <4>3. CASE FinishDeletion
        <5>1. ~(source' = [source EXCEPT !.deletion = "deleted", !.current = NoVersion,
                                         !.inspection = "none", !.preparation = "none"])
          <6>1. SUFFICES ASSUME source' = [source EXCEPT !.deletion = "deleted", !.current = NoVersion,
                                                         !.inspection = "none", !.preparation = "none"]
                         PROVE  source'.deletion = "deleted"
            BY DEF Dying
          <6>. QED
            BY <6>1, TypesBefore DEF SourceRow
        <5>. QED
          BY <4>3, <5>1 DEF FinishDeletion
      <4>4. CASE CancelDeletion \/ StartDestruction \/ EraserThrows
                 \/ AdvancePass("remove", 2, "verify") \/ AdvancePass("verify", 3, "finish")
                 \/ DeletionLease(TRUE) \/ DeletionLease(FALSE)
        BY <4>4 DEF CancelDeletion, StartDestruction, EraserThrows, AdvancePass, DeletionLease
      <4>. QED
        BY <2>2, <3>1, <4>1, <4>2, <4>3, <4>4 DEF DeletionNext, EraserStep
    <3>. QED
      BY <3>2, <3>3
  <2>. QED
    BY <2>1, <2>2
<1>5. worker'.at # "idle" /\ worker'.kind = "view" =>
        worker.at # "idle" /\ worker.kind = "view" /\ worker'.version = worker.version
  BY <1>2
<1>6. Shrinks
  BY <1>2, <1>3, <1>4, <1>5 DEF Shrinks
<1>. QED
  BY <1>3, <1>4, <1>6

\* plan lists what there is; nothing that is listed goes before destruction.
LEMMA DeletionFreezes ==
    ASSUME SourcesInv, ListKept, DeletionNext, source'.deletion = "frozen"
    PROVE  DOMAIN inv' = Inventory'
<1> USE DEF SourcesInv
<1>1. /\ Kept /\ UNCHANGED <<version, product>>
      /\ \A v \in Versions :
           /\ upload'[v].state = "absent" <=> upload[v].state = "absent"
           /\ upload'[v].pending = upload[v].pending
      /\ \A j \in Versions \X JobKinds : job'[j].state = "absent" <=> job[j].state = "absent"
  BY DeletionSpares DEF Kept
<1>2. DOMAIN job = Versions \X JobKinds /\ DOMAIN job' = Versions \X JobKinds
  BY TypesBefore, DeletionEffects DEF DeletionTypes
<1>3. Inventory' = Inventory
  BY <1>1, <1>2, SameInventory
<1>4. CASE Plan
  <2>1. DOMAIN inv' = Inventory
    BY <1>4 DEF Plan
  <2>. QED
    BY <1>3, <2>1
<1>5. CASE ~Plan
  <2>1. ~RemoveArtifact /\ ~VerifyArtifact /\ ~FinishDeletion
    BY <1>1 DEF RemoveArtifact, VerifyArtifact, FinishDeletion, PhaseKept, Kept
  <2>2. ~RetryPartial
    BY <1>1 DEF RetryPartial, Kept
  <2>3. ~ConfirmCancellation
    <3>1. source' = [source EXCEPT !.deletion = "active", !.revision = @ + 1] =>
            source'.deletion = "active"
      BY TypesBefore DEF SourceRow
    <3>. QED
      BY <3>1 DEF ConfirmCancellation
  <2>4. UNCHANGED inv
    BY <1>5, <2>1, <2>2, <2>3 DEF DeletionNext, EraserStep, CancelDeletion, RunOneDeletion,
       RecoverDeletion, ClaimDeletion, StartDestruction, AdvancePass, EraserThrows, DeletionLease
  <2>5. UNCHANGED source \/ source.deletion = "frozen"
    <3>1. CASE RunOneDeletion
      <4>1. RecoverDeletion => source' = source \/ source'.deletion = "partially_deleted"
        BY TypesBefore DEF RecoverDeletion, RecoveredSource, SourceRow
      <4>. QED
        BY <2>3, <3>1, <4>1 DEF RunOneDeletion, ClaimDeletion
    <3>2. CASE StartDestruction
      BY <3>2 DEF StartDestruction
    <3>3. CASE CancelDeletion \/ EraserThrows
               \/ AdvancePass("remove", 2, "verify") \/ AdvancePass("verify", 3, "finish")
               \/ DeletionLease(TRUE) \/ DeletionLease(FALSE)
      BY <3>3 DEF CancelDeletion, EraserThrows, AdvancePass, DeletionLease
    <3>. QED
      BY <1>5, <2>1, <2>2, <3>1, <3>2, <3>3 DEF DeletionNext, EraserStep
  <2>6. source.deletion = "frozen"
    BY <2>5
  <2>. QED
    BY <1>3, <2>4, <2>6 DEF ListKept
<1>. QED
  BY <1>4, <1>5

\* A restart puts an end to all that was under way and finds the same rows.
LEMMA RestartShrinks ==
    ASSUME SourcesInv, source.deletion # "active", Restart
    PROVE  /\ Shrinks
           /\ UNCHANGED <<upload, inv, product>>
           /\ \A v \in Versions : version'[v].there = version[v].there
           /\ job' \in [Versions \X JobKinds -> JobType]
           /\ \A j \in Versions \X JobKinds : job'[j].state = "absent" <=> job[j].state = "absent"
<1> USE DEF SourcesInv
<1>1. /\ UNCHANGED <<upload, inv, product, object, quar, art>> /\ worker' = Idle
  BY DEF Restart
<1>2. Reboots
  BY RestartKeeps
<1>3. /\ \A v \in Versions : version'[v].there = version[v].there
      /\ job' \in [Versions \X JobKinds -> JobType]
      /\ \A j \in Versions \X JobKinds : job'[j].state = "absent" <=> job[j].state = "absent"
  BY <1>2 DEF Reboots, RowsKept
<1>4. \A v \in Versions : handler'[v].at = "idle"
  BY RestartPlaces
<1>5. \A v \in Versions : staged'[v] = staged[v]
  BY DEF Restart, PhaseKept, Quieted
<1>6. worker'.at = "idle"
  BY <1>1 DEF Idle
<1>7. Shrinks
  BY <1>1, <1>3, <1>4, <1>5, <1>6 DEF Shrinks, Placing
<1>. QED
  BY <1>1, <1>3, <1>7

-----------------------------------------------------------------------------
(* The invariant *)

LEMMA ListStays ==
    ASSUME ErasureInv,
           \/ source'.deletion = source.deletion
           \/ source.deletion = "deleting" /\ source'.deletion = "partially_deleted",
           source.deletion # "active" =>
             /\ Shrinks /\ UNCHANGED <<upload, inv, product>>
             /\ \A v \in Versions : version'[v].there = version[v].there
             /\ job' \in [Versions \X JobKinds -> JobType]
             /\ \A j \in Versions \X JobKinds : job'[j].state = "absent" <=> job[j].state = "absent"
    PROVE  ListKept'
<1>1. CASE source'.deletion = "frozen"
  <2>1. DOMAIN job = Versions \X JobKinds
    BY TypesBefore DEF ErasureInv, SourcesInv
  <2>2. Inventory' = Inventory
    BY <1>1, <2>1, SameInventory
  <2>. QED
    BY <1>1, <2>2 DEF ErasureInv, ListKept, Dying
<1>2. CASE Dying'
  <2>1. Listed(DOMAIN inv) /\ source.deletion # "active"
    BY <1>2 DEF ErasureInv, ListKept, Dying
  <2>2. Listed(DOMAIN inv)'
    BY <2>1, ListedCarried
  <2>. QED
    BY <1>2, <2>2 DEF ListKept, Dying
<1>. QED
  BY <1>1, <1>2 DEF ListKept

LEMMA DeletionLists ==
    ASSUME ErasureInv, DeletionNext
    PROVE  ListKept'
<1> USE DEF ErasureInv
<1>1. CASE source'.deletion = "frozen"
  BY <1>1, DeletionFreezes DEF ListKept, Dying
<1>2. CASE Dying'
  <2>1. /\ Shrinks /\ DOMAIN inv' = DOMAIN inv
        /\ source.deletion = "frozen" \/ Dying
    BY <1>2, DeletionShrinks
  <2>2. source.deletion = "frozen" => Listed(Inventory)
    BY AllIsListed DEF Kept
  <2>3. Listed(DOMAIN inv)
    BY <2>1, <2>2 DEF ListKept
  <2>4. Listed(DOMAIN inv)'
    BY <2>1, <2>3, ListedCarried
  <2>. QED
    BY <1>2, <2>4 DEF ListKept, Dying
<1>. QED
  BY <1>1, <1>2 DEF ListKept

LEMMA OutsideErasure ==
    ASSUME ErasureInv, SameStores
    PROVE  OriginalsKept' /\ ViewsKept' /\ ListKept'
<1>1. /\ UNCHANGED <<source, version, job, product, upload, handler, staged, object, quar, art, worker>>
      /\ UNCHANGED inv
  BY DEF SameStores, byteVars
<1>2. worker'.at # "idle" /\ worker'.kind = "view" =>
        worker.at # "idle" /\ worker.kind = "view" /\ worker'.version = worker.version
  BY <1>1
<1>3. Shrinks
  BY <1>1, <1>2 DEF Shrinks
<1>4. job' \in [Versions \X JobKinds -> JobType]
  BY <1>1, TypesBefore DEF ErasureInv, SourcesInv
<1>5. ListKept'
  BY <1>1, <1>3, <1>4, ListStays
<1>. QED
  BY <1>5, OutsideOriginals DEF ErasureInv

LEMMA ErasureInvInit ==
    ASSUME SourceInit
    PROVE  ErasureInv
<1>1. SourcesInv
  BY SourcesInvInit
<1>2. /\ \A v \in Versions :
           /\ upload[v] = NoUpload /\ handler[v] = Idle /\ object[v] = "none" /\ staged[v] = <<>>
           /\ ~version[v].there
      /\ quar = {} /\ art = {} /\ worker = Idle /\ source.deletion = "active"
      /\ \A p \in Things : product[p] = "none"
  BY DEF SourceInit
<1>3. NoUpload.state = "absent" /\ Idle.at = "idle"
  BY DEF NoUpload, Idle
<1>4. ASSUME NEW v \in Versions
      PROVE  Placed(v) /\ Accounted(v)
  <2>1. /\ upload[v].state = "absent" /\ handler[v].at = "idle" /\ object[v] = "none"
        /\ ~version[v].there /\ v \notin quar /\ staged[v] = <<>>
    BY <1>2, <1>3
  <2>2. Placed(v)
    BY <2>1 DEF Placed
  <2>3. Accounted(v)
    BY <2>1 DEF Accounted, Placing, Original
  <2>. QED
    BY <2>2, <2>3
<1>5. OriginalsKept
  BY <1>4 DEF OriginalsKept
<1>6. ViewsKept
  BY <1>2, <1>3 DEF ViewsKept, Viewing
<1>7. ListKept
  BY <1>2 DEF ListKept, Dying
<1>. QED
  BY <1>1, <1>5, <1>6, <1>7 DEF ErasureInv

LEMMA ErasureInvStep ==
    ASSUME ErasureInv, [SourcesNext]_sourceVars
    PROVE  ErasureInv'
<1>1. SourcesInv /\ OriginalsKept /\ ViewsKept /\ ListKept
  BY DEF ErasureInv
<1>2. SourcesInv'
  BY <1>1, SourcesInvStep
<1> SUFFICES OriginalsKept' /\ ViewsKept' /\ ListKept'
  BY <1>2 DEF ErasureInv
<1>3. CASE JobNext
  <2>1. source'.deletion = source.deletion
    BY <1>1, <1>3, JobEffects DEF JobEffect, SameLife, SourcesInv
  <2>2. ListKept'
    BY <1>1, <1>3, <2>1, JobShrinks, ListStays
  <2>. QED
    BY <1>1, <1>3, <2>2, JobOriginals, JobViews
<1>4. CASE UploadNext
  <2>1. CASE source.deletion = "active"
    <3>1. source'.deletion = "active"
      BY <1>1, <1>4, <2>1, UploadEffects DEF SourceStays, Refreshes, SourcesInv
    <3>2. ListKept'
      BY <3>1 DEF ListKept, Dying
    <3>. QED
      BY <1>1, <1>4, <3>2, UploadOriginals, UploadViews
  <2>2. CASE source.deletion # "active"
    <3>1. Shrinks /\ UNCHANGED <<source, version, product, upload, job, inv>>
      BY <1>1, <1>4, <2>2, UploadShrinks
    <3>2. job' \in [Versions \X JobKinds -> JobType]
      BY <1>1, <3>1, TypesBefore DEF SourcesInv
    <3>3. ListKept'
      BY <3>1, <3>2, ListStays
    <3>. QED
      BY <1>1, <1>4, <3>3, UploadOriginals, UploadViews
  <2>. QED
    BY <2>1, <2>2
<1>5. CASE DeletionNext
  BY <1>1, <1>5, DeletionOriginals, DeletionViews, DeletionLists
<1>6. ASSUME NEW v \in Versions, NEW k \in Preparations, Grant(v, k) \/ Revoke(v, k)
      PROVE  OriginalsKept' /\ ViewsKept' /\ ListKept'
  BY <1>6, OutsideErasure DEF Grant, Revoke
<1>7. ASSUME NEW r \in Readers, ReadStep(r)
      PROVE  OriginalsKept' /\ ViewsKept' /\ ListKept'
  BY <1>1, <1>7, ReadEffects, OutsideErasure DEF SourcesInv
<1>8. CASE Restart
  <2>1. \/ source'.deletion = source.deletion
        \/ source.deletion = "deleting" /\ source'.deletion = "partially_deleted"
    BY <1>1, <1>8, RestartKeeps DEF Reboots
  <2>2. ListKept'
    BY <1>1, <1>8, <2>1, RestartShrinks, ListStays
  <2>. QED
    BY <1>1, <1>8, <2>2, RestartOriginals, RestartViews
<1>9. CASE UNCHANGED sourceVars
  <2>1. SameStores
    BY <1>9 DEF SameStores, sourceVars, rowVars
  <2>. QED
    BY <2>1, OutsideErasure
<1>. QED
  BY <1>3, <1>4, <1>5, <1>6, <1>7, <1>8, <1>9 DEF SourcesNext

\* Whatever uploads, jobs, a cancelled deletion and restarts do, the rows account
\* for every byte until startDestruction, and the inventory that plan takes lists
\* from then on all that is left and all that late requests could still bring.
THEOREM ErasureInvariant == SourcesSpec => []ErasureInv
<1>1. SourceInit => ErasureInv
  BY ErasureInvInit
<1>2. ErasureInv /\ [SourcesNext]_sourceVars => ErasureInv'
  BY ErasureInvStep
<1>. QED
  BY <1>1, <1>2, PTL DEF SourcesSpec

\* Until startDestruction nothing is lost: discardPlaced withdraws only originals
\* of no version, and a cleanup removes only the artifact of a view that was not
\* published, whatever was cancelled, taken over or cut off by a crash.
THEOREM NothingLost == SourcesSpec => []WholeUntilDestroyed
<1>1. ErasureInv => WholeUntilDestroyed
  <2> SUFFICES ASSUME ErasureInv, Kept, NEW v \in Versions
               PROVE  /\ version[v].there => object[v] = "whole"
                      /\ "view" \in Preparations /\ product[<<v, "view">>] # "none" => v \in art
    BY DEF WholeUntilDestroyed, Kept
  <2>1. Accounted(v)
    BY DEF ErasureInv, OriginalsKept
  <2>2. \A w \in Versions : <<w, "view">> \in Things /\ product[<<w, "view">>] # "none" => w \in art
    BY DEF ErasureInv, ViewsKept
  <2>3. "view" \in Preparations => <<v, "view">> \in Things
    BY DEF Things
  <2>. QED
    BY <2>1, <2>2, <2>3 DEF Accounted
<1>. QED
  BY <1>1, ErasureInvariant, PTL

\* No byte and no row of a source escapes the inventory of its deletion: what
\* collectInventory lists when plan freezes the source covers also what uploads
\* and jobs that passed their checks before the freeze still leave behind.
THEOREM NothingEscapes == SourcesSpec => []NothingEscapesInventory
<1>1. ErasureInv => NothingEscapesInventory
  <2> SUFFICES ASSUME ErasureInv
               PROVE  NothingEscapesInventory
    OBVIOUS
  <2>1. Kept => Covered(Inventory)
    BY AllIsListed DEF ErasureInv, Listed
  <2>2. source.deletion = "active" => Covered(Inventory)
    BY <2>1 DEF Kept
  <2>3. source.deletion = "frozen" => Covered(DOMAIN inv)
    BY <2>1 DEF ErasureInv, ListKept, Kept
  <2>4. Dying => Covered(DOMAIN inv)
    BY DEF ErasureInv, ListKept, Listed
  <2>. QED
    BY <2>2, <2>3, <2>4 DEF NothingEscapesInventory, Dying
<1>. QED
  BY <1>1, ErasureInvariant, PTL

-----------------------------------------------------------------------------
(* What is erased stays erased: of an original, unless a removal of its       *)
(* upload's staging file has failed                                           *)

\* Nothing that could still be appended or renamed is left of an upload: a
\* request that is about to append finds its chunk gone.
Swept(v) == staged[v] = <<>> /\ (handler[v].at = "append" => v \notin quar)

\* What verifyArtifact found absent, with what keeps it absent.
Gone(a) ==
    CASE a[1] \in {"immutable_original", "placed_candidate"} ->
           a[2] \in faults.stuck \/ (object[a[2]] \notin Original /\ Swept(a[2]))
      [] a[1] = "data_view" -> a[2] \notin art /\ product[<<a[2], "view">>] = "none"
      [] a[1] = "derived_resource" -> product[<<a[2], "extract">>] = "none"
      [] a[1] = "upload_staging" -> Swept(a[2]) /\ upload[a[2]].state = "absent"
      [] OTHER -> job[<<a[2], a[1]>>].state = "absent"

\* The worker has a data view in hand only while its row is claimed, and none
\* is being cancelled once the deletion was claimed.
ViewsStopped ==
    /\ worker.at # "idle" /\ worker.kind = "view" =>
         job[<<worker.version, "view">>].state \in {"running", "cancel_requested"}
    /\ Dying \/ eraser.at = "start" =>
         \A v \in Versions : <<v, "view">> \in Things => job[<<v, "view">>].state # "cancel_requested"

KindsKnown ==
    \A a \in DOMAIN inv :
        /\ a[1] = "data_view" => "view" \in Preparations
        /\ a[1] = "derived_resource" => "extract" \in Preparations

VerifiedGone == \A a \in DOMAIN inv : inv[a] = "verified_absent" => ~Kept /\ Gone(a)

\* A pass of removals sweeps the uploads before the verification, or failed to.
PassKept ==
    /\ eraser.at = "remove" =>
         \A v \in Versions :
            Swept(v) \/ v \in faults.stuck \/ <<"upload_staging", v>> \in eraser.todo
    /\ eraser.at \in {"verify", "finish"} =>
         \A v \in Versions : Swept(v) \/ v \in faults.stuck

DeletedGone ==
    source.deletion = "deleted" =>
        /\ ~Residual /\ art = {}
        /\ \A v \in Versions :
              /\ ~version[v].there /\ Swept(v)
              /\ v \in faults.stuck \/ object[v] \notin Original

ErasedInv == ErasureInv /\ ViewsStopped /\ KindsKnown /\ VerifiedGone /\ PassKept /\ DeletedGone

-----------------------------------------------------------------------------
(* What was swept stays swept *)

Sinks ==
    \A v \in Versions :
        Swept(v) => Swept(v)' /\ (object'[v] \in Original => object[v] \in Original)

LEMMA ClosedSwept ==
    ASSUME SourcesInv, source.deletion # "active", NEW v \in Versions, Swept(v),
           Receive(v) \/ EnterChunk(v) \/ AppendChunk(v) \/ AdvanceChunk(v) \/ Discard(v)
           \/ BeginCompletion(v) \/ PlaceDirectory(v) \/ Rename(v)
           \/ InspectPlaced(v) \/ FinishCompletion(v) \/ Withdraw(v) \/ FailUpload(v)
    PROVE  Swept(v)' /\ (object'[v] \in Original => object[v] \in Original)
<1> USE TypesBefore DEF SourcesInv
<1>1. upload[v].state \notin {"open", "completing"}
  BY DEF PhaseKept, Quieted
<1>2. staged[v] = <<>> /\ (handler[v].at = "append" => v \notin quar)
  BY DEF Swept
<1>3. ASSUME NEW at \in ChunkAt, Step(v, at), handler[v].at \in ChunkAt
      PROVE  handler'[v].at = at
  BY <1>3, ChunkGoes
<1>4. ASSUME Done(v)
      PROVE  handler'[v].at = "idle"
  BY <1>4, HandlerEnds DEF Idle
<1>5. ASSUME NEW at \in Placing, Step(v, at), handler[v].at \in Placing
      PROVE  handler'[v].at = at
  BY <1>5, CompletionGoes DEF CompleteAt
<1>6. {"receive", "locked", "append", "advance", "discard"} \subseteq ChunkAt
  BY DEF ChunkAt
<1>7. {"directory", "rename", "inspect", "finish", "withdraw", "fail"} \subseteq Placing
  BY DEF Placing
<1>8. CASE Receive(v)
  <2>1. handler'[v].at \in {"locked", "idle"} /\ UNCHANGED <<staged, object>>
    BY <1>3, <1>4, <1>6, <1>8 DEF Receive
  <2>. QED
    BY <1>2, <2>1 DEF Swept
<1>9. CASE EnterChunk(v)
  <2>1. handler'[v].at = "discard" /\ UNCHANGED <<staged, object>>
    BY <1>1, <1>3, <1>6, <1>9 DEF EnterChunk
  <2>. QED
    BY <1>2, <2>1 DEF Swept
<1>10. CASE AppendChunk(v)
  <2>1. handler'[v].at = "discard" /\ UNCHANGED <<staged, object>>
    BY <1>2, <1>3, <1>6, <1>10 DEF AppendChunk
  <2>. QED
    BY <1>2, <2>1 DEF Swept
<1>11. CASE AdvanceChunk(v)
  <2>1. /\ handler'[v].at = "discard" /\ UNCHANGED object
        /\ staged' = [staged EXCEPT ![v] = Reconciled(v, handler[v].offset)]
    BY <1>1, <1>3, <1>6, <1>11 DEF AdvanceChunk
  <2>2. handler[v].offset \in 0..Chunks
    <3>1. handler[v] \in Chunking
      BY <1>6, <1>11, HandlerPlaces DEF AdvanceChunk
    <3>2. handler[v].offset \in 0..(Chunks - 1)
      BY <3>1 DEF Chunking
    <3>. QED
      BY <3>2, SourceAssumption
  <2>3. Reconciled(v, handler[v].offset) = <<>>
    <3>1. CASE Short(v, handler[v].offset)
      BY <1>2, <3>1 DEF Reconciled
    <3>2. CASE ~Short(v, handler[v].offset)
      <4>1. handler[v].offset = 0 /\ Len(staged[v]) >= handler[v].offset
        BY <1>2, <2>2, <3>2 DEF Short
      <4>2. Reconciled(v, 0) \in Seq(1..Chunks) /\ Len(Reconciled(v, 0)) = 0
        BY <2>2, <4>1, Reconciles
      <4>. QED
        BY <4>1, <4>2
    <3>. QED
      BY <3>1, <3>2
  <2>4. staged'[v] = <<>>
    BY <2>1, <2>3 DEF StagedType
  <2>. QED
    BY <2>1, <2>4 DEF Swept
<1>12. CASE Discard(v)
  <2>1. handler'[v].at = "idle" /\ UNCHANGED <<staged, object>>
    BY <1>4, <1>12 DEF Discard
  <2>. QED
    BY <1>2, <2>1 DEF Swept
<1>13. CASE BeginCompletion(v)
  <2>1. handler'[v].at = "idle" /\ UNCHANGED <<staged, object>>
    BY <1>1, <1>4, <1>13 DEF BeginCompletion, byteVars
  <2>. QED
    BY <1>2, <2>1 DEF Swept
<1>14. CASE PlaceDirectory(v)
  <2>1. handler'[v].at = "rename" /\ UNCHANGED staged
    BY <1>5, <1>7, <1>14 DEF PlaceDirectory
  <2>2. object'[v] \in Original => object[v] \in Original
    BY <1>14 DEF PlaceDirectory, ObjectType, Original
  <2>. QED
    BY <1>2, <2>1, <2>2 DEF Swept
<1>15. CASE Rename(v)
  <2>1. handler'[v].at \in {"inspect", "idle"} /\ UNCHANGED <<staged, object>>
    BY <1>2, <1>4, <1>5, <1>7, <1>15 DEF Rename
  <2>. QED
    BY <1>2, <2>1 DEF Swept
<1>16. CASE InspectPlaced(v)
  <2>1. handler'[v].at \in {"finish", "idle"} /\ UNCHANGED <<staged, object>>
    BY <1>4, <1>5, <1>7, <1>16 DEF InspectPlaced, byteVars
  <2>. QED
    BY <1>2, <2>1 DEF Swept
<1>17. CASE FinishCompletion(v)
  <2>1. handler'[v].at \in {"withdraw", "idle"} /\ UNCHANGED <<staged, object>>
    BY <1>1, <1>4, <1>17 DEF FinishCompletion, byteVars
  <2>. QED
    BY <1>2, <2>1 DEF Swept
<1>18. CASE Withdraw(v)
  <2>1. handler'[v].at = "fail" /\ UNCHANGED staged
    BY <1>5, <1>7, <1>18 DEF Withdraw
  <2>2. object'[v] \in Original => object[v] \in Original
    BY <1>18 DEF Withdraw, ObjectType, Original
  <2>. QED
    BY <1>2, <2>1, <2>2 DEF Swept
<1>19. CASE FailUpload(v)
  <2>1. handler'[v].at = "idle" /\ UNCHANGED <<staged, object>>
    BY <1>4, <1>19 DEF FailUpload, byteVars
  <2>. QED
    BY <1>2, <2>1 DEF Swept
<1>. QED
  BY <1>8, <1>9, <1>10, <1>11, <1>12, <1>13, <1>14, <1>15, <1>16, <1>17, <1>18, <1>19

LEMMA UploadSinks ==
    ASSUME SourcesInv, source.deletion # "active", UploadNext
    PROVE  Sinks
<1>1. PICK v \in Versions :
        \/ CreateUpload(v) \/ ExpireUpload(v)
        \/ BeginChunk(v) \/ Receive(v) \/ EnterChunk(v) \/ AppendChunk(v) \/ AdvanceChunk(v) \/ Discard(v)
        \/ BeginComplete(v) \/ BeginCompletion(v) \/ PlaceDirectory(v) \/ Rename(v)
        \/ InspectPlaced(v) \/ FinishCompletion(v) \/ Withdraw(v) \/ FailUpload(v)
  BY DEF UploadNext
<1>2. Receive(v) \/ EnterChunk(v) \/ AppendChunk(v) \/ AdvanceChunk(v) \/ Discard(v)
      \/ BeginCompletion(v) \/ PlaceDirectory(v) \/ Rename(v)
      \/ InspectPlaced(v) \/ FinishCompletion(v) \/ Withdraw(v) \/ FailUpload(v)
  BY <1>1, ClosedRows
<1>3. \A w \in Versions \ {v} :
        /\ handler'[w] = handler[w] /\ object'[w] = object[w] /\ staged'[w] = staged[w]
        /\ w \in quar' <=> w \in quar
  BY <1>2, ClosedHandlers, ClosedFiles
<1>4. ASSUME NEW w \in Versions, Swept(w)
      PROVE  Swept(w)' /\ (object'[w] \in Original => object[w] \in Original)
  <2>1. CASE w = v
    BY <1>2, <1>4, <2>1, ClosedSwept
  <2>2. CASE w # v
    BY <1>3, <1>4, <2>2 DEF Swept
  <2>. QED
    BY <2>1, <2>2
<1>. QED
  BY <1>4 DEF Sinks

\* Whoever adds neither to the files nor to the requests under way.
LEMMA StillSinks ==
    ASSUME \A v \in Versions :
             /\ handler'[v] = handler[v] \/ handler'[v].at = "idle"
             /\ v \in quar' => v \in quar
             /\ staged'[v] # <<>> => staged[v] # <<>>
             /\ object'[v] \in Original => object[v] \in Original
    PROVE  Sinks
<1> SUFFICES ASSUME NEW v \in Versions, Swept(v)
             PROVE  Swept(v)' /\ (object'[v] \in Original => object[v] \in Original)
  BY DEF Sinks
<1>. QED
  BY DEF Swept

LEMMA JobSinks ==
    ASSUME SourcesInv, JobNext
    PROVE  Sinks
<1>1. UNCHANGED <<handler, quar, staged, object>>
  BY JobEffects DEF SourcesInv, JobEffect, SameOutside
<1>. QED
  BY <1>1, StillSinks

LEMMA RestartSinks ==
    ASSUME SourcesInv, source.deletion # "active", Restart
    PROVE  Sinks
<1>1. \A v \in Versions : handler'[v].at = "idle"
  BY RestartPlaces DEF SourcesInv
<1>2. UNCHANGED <<quar, object>> /\ \A v \in Versions : staged'[v] = staged[v]
  BY DEF Restart, SourcesInv, PhaseKept, Quieted
<1>. QED
  BY <1>1, <1>2, StillSinks

LEMMA DeletionSinks ==
    ASSUME SourcesInv, DeletionNext
    PROVE  Sinks
<1>1. UNCHANGED handler
  BY DeletionEffects DEF SourcesInv, SameUploads
<1>2. CASE RemoveArtifact
  <2>1. eraser.todo \subseteq Artifacts
    BY <1>2, EraserPlaces DEF RemoveArtifact, SourcesInv
  <2>2. PICK a \in First(eraser.todo) : EraseBytes(a) \/ UNCHANGED <<quar, staged, object>>
    BY <1>2 DEF RemoveArtifact, byteVars
  <2>3. CASE UNCHANGED <<quar, staged, object>>
    BY <1>1, <2>3, StillSinks
  <2>4. CASE EraseBytes(a)
    <3>1. object' = object \/ object' = [object EXCEPT ![a[2]] = "none"]
      BY <2>4 DEF EraseBytes
    <3>2. quar' \subseteq quar
      BY <2>4 DEF EraseBytes
    <3>3. staged' = staged \/ staged' = [staged EXCEPT ![a[2]] = <<>>]
      BY <2>4 DEF EraseBytes
    <3>4. object \in ObjectType /\ staged \in StagedType
      BY TypesBefore DEF SourcesInv
    <3>5. \A v \in Versions : object'[v] \in Original => object[v] \in Original
      BY <3>1, <3>4 DEF ObjectType, Original
    <3>6. \A v \in Versions : staged'[v] # <<>> => staged[v] # <<>>
      BY <3>3, <3>4 DEF StagedType
    <3>. QED
      BY <1>1, <3>2, <3>5, <3>6, StillSinks
  <2>. QED
    BY <2>2, <2>3, <2>4
<1>3. CASE ~RemoveArtifact
  <2>1. UNCHANGED <<quar, staged, object>>
    BY <1>3 DEF DeletionNext, EraserStep, Plan, CancelDeletion, RetryPartial, RunOneDeletion, VerifyArtifact,
       StartDestruction, AdvancePass, FinishDeletion, EraserThrows, DeletionLease, byteVars
  <2>. QED
    BY <1>1, <2>1, StillSinks
<1>. QED
  BY <1>2, <1>3

\* A removal that failed once stays on record.
Remembers == faults.stuck \subseteq faults'.stuck

LEMMA StepRemembers ==
    ASSUME SourcesInv, [SourcesNext]_sourceVars
    PROVE  Remembers
<1>1. ASSUME Fault
      PROVE  Remembers
  <2>1. faults'.stuck = faults.stuck
    BY <1>1 DEF SourcesInv, SourcesTypeOK, FaultType, Fault
  <2>. QED
    BY <2>1 DEF Remembers
<1>2. ASSUME UNCHANGED faults
      PROVE  Remembers
  BY <1>2 DEF Remembers
<1>3. ASSUME NEW a, RemovalFails(a)
      PROVE  Remembers
  BY <1>3 DEF RemovalFails, Remembers
<1>4. CASE JobNext
  <2>1. Fault \/ UNCHANGED faults
    BY <1>4 DEF JobNext, WorkerStep, RunOne, GetTarget, Read, ReadFails, Advance, AdvanceTo, Finish,
       Settle, FinishFailed, DeferUntil, Cleanup, CleanupFails, Confirm, WorkerThrows,
       Enqueue, RequestCancel, LeaseRunsOut, LeaseStalls
  <2>. QED
    BY <1>1, <1>2, <2>1
<1>5. CASE UploadNext
  <2>1. Fault \/ UNCHANGED faults
    BY <1>5 DEF UploadNext, CreateUpload, ExpireUpload, BeginChunk, Receive, EnterChunk, AppendChunk,
       AdvanceChunk, Discard, BeginComplete, BeginCompletion, PlaceDirectory, Rename, InspectPlaced,
       FinishCompletion, Withdraw, FailUpload
  <2>. QED
    BY <1>1, <1>2, <2>1
<1>6. CASE DeletionNext
  <2>1. Fault \/ UNCHANGED faults \/ \E a \in First(eraser.todo) : RemovalFails(a)
    BY <1>6 DEF DeletionNext, EraserStep, Plan, CancelDeletion, RetryPartial, RunOneDeletion,
       StartDestruction, RemoveArtifact, AdvancePass, VerifyArtifact, FinishDeletion, EraserThrows,
       DeletionLease
  <2>. QED
    BY <1>1, <1>2, <1>3, <2>1
<1>7. ASSUME NEW v \in Versions, NEW k \in Preparations, Grant(v, k) \/ Revoke(v, k)
      PROVE  Remembers
  BY <1>2, <1>7 DEF Grant, Revoke, SameStores
<1>8. ASSUME NEW r \in Readers, ReadStep(r)
      PROVE  Remembers
  BY <1>2, <1>8 DEF ReadStep, StartRead, Authorize, ReadBytes, LookAgain, EndRead, SameStores
<1>9. CASE Restart
  BY <1>1, <1>9 DEF Restart
<1>10. CASE UNCHANGED sourceVars
  BY <1>2, <1>10 DEF sourceVars
<1>. QED
  BY <1>4, <1>5, <1>6, <1>7, <1>8, <1>9, <1>10 DEF SourcesNext

\* What is gone stays gone once no data view is in hand any more.
LEMMA GoneStays ==
    ASSUME SourcesInv, KindsKnown, Shrinks, Sinks, Remembers, worker.at # "idle" => worker.kind # "view",
           NEW a \in DOMAIN inv, Gone(a)
    PROVE  Gone(a)'
<1>1. a \in Artifacts
  BY TypesBefore DEF SourcesInv
<1>2. /\ a[2] \in Versions
      /\ a[1] \in {"immutable_original", "upload_staging", "placed_candidate", "derived_resource",
                   "data_view"} \cup JobKinds
  BY <1>1 DEF Artifacts
<1>3. JobKinds \subseteq {"inspect", "extract", "view"}
  BY SourceAssumption DEF JobKinds
<1>4. CASE a[1] \in {"immutable_original", "placed_candidate"}
  BY <1>2, <1>4 DEF Gone, Sinks, Remembers
<1>5. CASE a[1] = "data_view"
  <2>1. a[2] \notin art /\ product[<<a[2], "view">>] = "none"
    BY <1>5 DEF Gone
  <2>2. <<a[2], "view">> \in Things
    BY <1>2, <1>5 DEF KindsKnown, Things
  <2>3. a[2] \notin art' /\ product'[<<a[2], "view">>] = "none"
    BY <1>2, <2>1, <2>2 DEF Shrinks
  <2>. QED
    BY <1>5, <2>3 DEF Gone
<1>6. CASE a[1] = "derived_resource"
  <2>1. product[<<a[2], "extract">>] = "none"
    BY <1>6 DEF Gone
  <2>2. <<a[2], "extract">> \in Things
    BY <1>2, <1>6 DEF KindsKnown, Things
  <2>3. product'[<<a[2], "extract">>] = "none"
    BY <2>1, <2>2 DEF Shrinks
  <2>. QED
    BY <1>6, <2>3 DEF Gone
<1>7. CASE a[1] = "upload_staging"
  BY <1>2, <1>7 DEF Gone, Sinks, Shrinks
<1>8. CASE a[1] \in JobKinds
  <2>1. <<a[2], a[1]>> \in Versions \X JobKinds
    BY <1>2, <1>8
  <2>2. job[<<a[2], a[1]>>].state = "absent"
    BY <1>3, <1>8 DEF Gone
  <2>3. job'[<<a[2], a[1]>>].state = "absent"
    BY <2>1, <2>2 DEF Shrinks
  <2>. QED
    BY <1>3, <1>8, <2>3 DEF Gone
<1>. QED
  BY <1>2, <1>4, <1>5, <1>6, <1>7, <1>8

-----------------------------------------------------------------------------
(* No data view is in hand once destruction starts *)

Busy == {"running", "cancel_requested"}

\* A job is cancelled only while it is pending, and what a worker has in hand
\* stays claimed until it lets go.
HandKept ==
    /\ \A j \in Versions \X JobKinds :
         job'[j].state = "cancel_requested" => job[j].state \in {"cancel_requested"} \cup JobPending
    /\ worker'.at # "idle" =>
         \/ /\ worker.at # "idle" /\ worker'.version = worker.version /\ worker'.kind = worker.kind
            /\ \A j \in Versions \X JobKinds : job[j].state \in Busy => job'[j].state \in Busy
         \/ job'[<<worker'.version, worker'.kind>>].state \in Busy

LEMMA HandsKept ==
    ASSUME SourcesInv, JobNext
    PROVE  HandKept
<1> USE TypesBefore DEF SourcesInv
<1>1. worker.at # "idle" /\ worker'.at # "idle" =>
        worker'.version = worker.version /\ worker'.kind = worker.kind
  BY WorkerMovesOn DEF WorkerMove, Idle
<1>2. ASSUME UNCHANGED job, worker.at # "idle"
      PROVE  HandKept
  BY <1>1, <1>2 DEF HandKept
<1>3. ASSUME NEW j \in Versions \X JobKinds, NEW new, job' = [job EXCEPT ![j] = new],
             new.state = "cancel_requested" => job[j].state \in {"cancel_requested"} \cup JobPending,
             \/ worker'.at = "idle"
             \/ worker.at # "idle" /\ (job[j].state \in Busy => new.state \in Busy)
             \/ j = <<worker'.version, worker'.kind>> /\ new.state \in Busy
      PROVE  HandKept
  <2>1. job'[j] = new /\ \A i \in Versions \X JobKinds : i # j => job'[i] = job[i]
    BY <1>3
  <2>. QED
    BY <1>1, <1>3, <2>1 DEF HandKept
<1>4. ASSUME NEW j \in Versions \X JobKinds, NEW state \in {"cancelled", "failed", "waiting_for_resource"},
             SetJob(j[1], j[2], Released(job[j], state)), worker'.at = "idle"
      PROVE  HandKept
  <2>1. j = <<j[1], j[2]>> /\ job[j] \in JobType
    OBVIOUS
  <2>2. Released(job[j], state).state = state
    BY <2>1, ReleasedSet DEF JobStates, JobEnded, JobPending
  <2> DEFINE new == Released(job[j], state)
  <2>3. job' = [job EXCEPT ![j] = new] /\ new.state # "cancel_requested"
    BY <1>4, <2>1, <2>2 DEF SetJob
  <2> HIDE DEF new
  <2>. QED
    BY <1>3, <1>4, <2>3
<1>5. ASSUME NEW state \in {"cancelled", "failed", "waiting_for_resource"}, worker.at # "idle",
             SetJob(worker.version, worker.kind, Released(Row, state)), Finished
      PROVE  HandKept
  <2>1. <<worker.version, worker.kind>> \in Versions \X JobKinds
    BY <1>5, AtWorkRow
  <2> DEFINE j == <<worker.version, worker.kind>>
  <2>2. SetJob(j[1], j[2], Released(job[j], state)) /\ worker'.at = "idle"
    BY <1>5 DEF Row, Finished, Idle
  <2> HIDE DEF j
  <2>. QED
    BY <1>4, <2>1, <2>2 DEF j
<1>6. CASE RunOne
  <2>1. CASE ConfirmUnclaimed
    <3>1. PICK j \in Cancellable :
              SetJob(j[1], j[2], Released(job[j], "cancelled")) /\ UNCHANGED worker
      BY <2>1 DEF ConfirmUnclaimed
    <3>2. j \in Versions \X JobKinds
      BY DEF Cancellable
    <3>. QED
      BY <1>4, <1>6, <3>1, <3>2 DEF RunOne
  <2>2. ASSUME NEW kinds, ClaimNext(kinds)
        PROVE  HandKept
    <3>1. PICK j \in Claimable(kinds) :
              /\ SetJob(j[1], j[2], [job[j] EXCEPT !.state = "running", !.claim = "live",
                                                   !.attempt = @ + 1])
              /\ Working("target", j[1], j[2], "stop")
      BY <2>2 DEF ClaimNext
    <3>2. /\ j \in Versions \X JobKinds /\ job[j].attempt < MaxAttempts
          /\ j = <<j[1], j[2]>> /\ job[j] \in JobType
      BY DEF Claimable
    <3> DEFINE new == [job[j] EXCEPT !.state = "running", !.claim = "live", !.attempt = @ + 1]
    <3>3. new.state = "running"
      BY <3>2, JobClaimed
    <3>4. job' = [job EXCEPT ![j] = new]
      BY <3>1, <3>2 DEF SetJob
    <3>5. j = <<worker'.version, worker'.kind>>
      BY <3>1, <3>2 DEF Working
    <3> HIDE DEF new
    <3>. QED
      BY <1>3, <3>2, <3>3, <3>4, <3>5 DEF Busy
  <2>3. CASE ClaimNextCancellation
    <3>1. PICK j \in LapsedCancellations :
              /\ SetJob(j[1], j[2], [job[j] EXCEPT !.claim = "live"])
              /\ Working("cleanup", j[1], j[2], "stop")
      BY <2>3 DEF ClaimNextCancellation
    <3>2. /\ j \in Versions \X JobKinds /\ job[j].state = "cancel_requested"
          /\ j = <<j[1], j[2]>> /\ job[j] \in JobType
      BY DEF LapsedCancellations
    <3> DEFINE new == [job[j] EXCEPT !.claim = "live"]
    <3>3. new.state = "cancel_requested"
      BY <3>2, ClaimSet DEF Claims
    <3>4. job' = [job EXCEPT ![j] = new]
      BY <3>1, <3>2 DEF SetJob
    <3>5. j = <<worker'.version, worker'.kind>>
      BY <3>1, <3>2 DEF Working
    <3> HIDE DEF new
    <3>. QED
      BY <1>3, <3>2, <3>3, <3>4, <3>5 DEF Busy
  <2>. QED
    BY <1>6, <2>1, <2>2, <2>3 DEF RunOne
<1>7. CASE GetTarget \/ Read \/ Cleanup
  BY <1>2, <1>7 DEF GetTarget, Read, Cleanup, jobVars
<1>8. ASSUME NEW recurs, ReadFails(recurs)
      PROVE  HandKept
  BY <1>2, <1>8 DEF ReadFails, jobVars
<1>9. CASE Advance
  <2>1. ASSUME NEW at, NEW checkpoint \in 0..4, NEW next, at # "idle", AdvanceTo(at, checkpoint, next)
        PROVE  HandKept
    <3>1. worker.at # "idle"
      BY <2>1 DEF AdvanceTo
    <3>2. CASE UNCHANGED job
      BY <1>2, <3>1, <3>2
    <3>3. CASE SetJob(worker.version, worker.kind, [Row EXCEPT !.checkpoint = checkpoint])
      <4> DEFINE j == <<worker.version, worker.kind>>
                 new == [Row EXCEPT !.checkpoint = checkpoint]
      <4>1. j \in Versions \X JobKinds /\ Row \in JobType /\ Row = job[j]
        BY <3>1, AtWorkRow DEF Row
      <4>2. new.state = Row.state
        BY <4>1 DEF JobType
      <4>3. job' = [job EXCEPT ![j] = new]
        BY <3>3 DEF SetJob
      <4> HIDE DEF j, new
      <4>. QED
        BY <1>3, <3>1, <4>1, <4>2, <4>3
    <3>. QED
      BY <2>1, <3>2, <3>3 DEF AdvanceTo
  <2>2. 1 \in 0..4 /\ 2 \in 0..4 /\ 3 \in 0..4
    OBVIOUS
  <2>3. CASE AdvanceTo("begin", 1, "read")
    BY <2>1, <2>2, <2>3
  <2>4. CASE AdvanceTo("check", 2, "record")
    BY <2>1, <2>2, <2>4
  <2>5. CASE AdvanceTo("record", 3, "finish")
    BY <2>1, <2>2, <2>5
  <2>. QED
    BY <1>9, <2>3, <2>4, <2>5 DEF Advance
<1>10. CASE Finish
  <2>1. worker.at # "idle"
    BY <1>10 DEF Finish
  <2>2. CASE UNCHANGED job
    BY <1>2, <2>1, <2>2
  <2>3. CASE /\ SetJob(worker.version, worker.kind, [Released(Row, "succeeded") EXCEPT !.checkpoint = 4])
             /\ Finished
    <3> DEFINE j == <<worker.version, worker.kind>>
               one == Released(Row, "succeeded")
               new == [one EXCEPT !.checkpoint = 4]
    <3>1. j \in Versions \X JobKinds /\ Row \in JobType
      BY <2>1, AtWorkRow
    <3>2. one \in JobType /\ one.state = "succeeded"
      BY <3>1, ReleasedSet DEF JobStates, JobEnded
    <3>3. new.state = "succeeded"
      <4> HIDE DEF one
      <4>. QED
        BY <3>2 DEF JobType
    <3>4. job' = [job EXCEPT ![j] = new] /\ worker'.at = "idle"
      BY <2>3 DEF SetJob, Finished, Idle
    <3> HIDE DEF j, new
    <3>. QED
      BY <1>3, <3>1, <3>3, <3>4
  <2>. QED
    BY <1>10, <2>2, <2>3 DEF Finish, jobVars
<1>11. CASE CleanupFails
  <2>1. worker.at # "idle" /\ worker.kind = "view" /\ Finished
    BY <1>11 DEF CleanupFails, PlacesOK
  <2>2. UNCHANGED job \/ SetJob(worker.version, worker.kind, Released(Row, "failed"))
    BY <1>11, <2>1 DEF CleanupFails
  <2>. QED
    BY <1>2, <1>5, <2>1, <2>2
<1>12. CASE Confirm
  <2>1. /\ worker.at # "idle"
        /\ \/ UNCHANGED job
           \/ SetJob(worker.version, worker.kind, Released(Row, "cancelled")) /\ Finished
    BY <1>12 DEF Confirm
  <2>. QED
    BY <1>2, <1>5, <2>1
<1>13. CASE FinishFailed
  <2>1. /\ worker.at # "idle"
        /\ \/ UNCHANGED job
           \/ SetJob(worker.version, worker.kind, Released(Row, "failed")) /\ Finished
    BY <1>13 DEF FinishFailed, Settle
  <2>. QED
    BY <1>2, <1>5, <2>1
<1>14. CASE DeferUntil
  <2>1. /\ worker.at # "idle"
        /\ \/ UNCHANGED job
           \/ SetJob(worker.version, worker.kind, Released(Row, "waiting_for_resource")) /\ Finished
    BY <1>14 DEF DeferUntil, Settle
  <2>. QED
    BY <1>2, <1>5, <2>1
<1>15. CASE WorkerThrows
  BY <1>2, <1>15 DEF WorkerThrows, jobVars
<1>16. ASSUME NEW v \in Versions, NEW k \in JobKinds, Enqueue(v, k)
       PROVE  HandKept
  <2> DEFINE j == <<v, k>>
             one == [NoJob EXCEPT !.state = "queued"]
             new == [one EXCEPT !.revision = source.revision]
  <2>1. new.state = "queued"
    BY DEF NoJob
  <2>2. /\ job' = [job EXCEPT ![j] = [NoJob EXCEPT !.state = "queued", !.revision = source.revision]]
        /\ UNCHANGED worker /\ job[j].state = "absent" /\ j \in Versions \X JobKinds
    BY <1>16 DEF Enqueue, SetJob
  <2>3. job' = [job EXCEPT ![j] = new]
    BY <2>2
  <2> HIDE DEF new, j
  <2>. QED
    BY <1>3, <2>1, <2>2, <2>3 DEF Busy
<1>17. ASSUME NEW v \in Versions, NEW k \in JobKinds, RequestCancel(v, k)
       PROVE  HandKept
  <2> DEFINE j == <<v, k>>
             new == [job[j] EXCEPT !.state = "cancel_requested"]
  <2>1. j \in Versions \X JobKinds /\ job[j] \in JobType /\ job[j].state \in JobPending /\ UNCHANGED worker
    BY <1>17 DEF RequestCancel
  <2>2. new.state = "cancel_requested"
    BY <2>1, StateSet DEF JobStates
  <2>3. job' = [job EXCEPT ![j] = new]
    BY <1>17 DEF RequestCancel, SetJob
  <2> HIDE DEF new, j
  <2>. QED
    BY <1>3, <2>1, <2>2, <2>3 DEF Busy
<1>18. ASSUME NEW v \in Versions, NEW k \in JobKinds, LeaseRunsOut(v, k) \/ LeaseStalls(v, k)
       PROVE  HandKept
  <2> DEFINE j == <<v, k>>
             new == [job[j] EXCEPT !.claim = "lapsed"]
  <2>1. j \in Versions \X JobKinds /\ job[j] \in JobType /\ UNCHANGED worker
    BY <1>18 DEF LeaseRunsOut, LeaseStalls
  <2>2. new.state = job[j].state
    BY <2>1, ClaimSet DEF Claims
  <2>3. job' = [job EXCEPT ![j] = new]
    BY <1>18 DEF LeaseRunsOut, LeaseStalls, SetJob
  <2> HIDE DEF new, j
  <2>. QED
    BY <1>3, <2>1, <2>2, <2>3
<1>. QED
  BY <1>6, <1>7, <1>8, <1>9, <1>10, <1>11, <1>12, <1>13, <1>14, <1>15, <1>16, <1>17, <1>18
     DEF JobNext, WorkerStep

LEMMA ViewIsThing ==
    ASSUME SourcesInv, worker.at # "idle", worker.kind = "view"
    PROVE  /\ worker.version \in Versions /\ <<worker.version, "view">> \in Things
           /\ <<worker.version, "view">> \in Versions \X JobKinds
<1>1. worker.version \in Versions /\ "view" \in JobKinds
  BY AtWorkRow DEF SourcesInv
<1>2. "view" \in Preparations
  BY <1>1 DEF JobKinds
<1>. QED
  BY <1>1, <1>2 DEF Things

\* So none is in hand while the source is being deleted.
LEMMA HandsOff ==
    ASSUME ErasureInv, ViewsStopped, DeletedGone, ~Kept
    PROVE  worker.at # "idle" => worker.kind # "view"
<1> SUFFICES ASSUME worker.at # "idle", worker.kind = "view"
             PROVE  FALSE
  OBVIOUS
<1> USE DEF ErasureInv, SourcesInv
<1>1. /\ worker.version \in Versions /\ <<worker.version, "view">> \in Things
      /\ <<worker.version, "view">> \in Versions \X JobKinds
  BY ViewIsThing
<1>2. job[<<worker.version, "view">>].state \in {"running", "cancel_requested"}
  BY DEF ViewsStopped
<1>3. source \in SourceRow /\ DOMAIN job = Versions \X JobKinds
  BY TypesBefore
<1>4. Dying \/ source.deletion = "deleted"
  BY <1>3 DEF Kept, Dying, SourceRow, Phases
<1>5. job[<<worker.version, "view">>].state \notin JobPending
  BY <1>1, <1>4 DEF PhaseKept, Quieted, Dying
<1>6. CASE Dying
  BY <1>1, <1>2, <1>5, <1>6 DEF ViewsStopped, JobPending
<1>7. CASE source.deletion = "deleted"
  BY <1>1, <1>2, <1>3, <1>7 DEF DeletedGone, Residual
<1>. QED
  BY <1>4, <1>6, <1>7

LEMMA JobStops ==
    ASSUME SourcesInv, ViewsStopped, JobNext
    PROVE  ViewsStopped'
<1> USE DEF SourcesInv
<1>1. HandKept
  BY HandsKept
<1>2. worker.at # "idle" /\ worker.kind = "view" =>
        /\ job[<<worker.version, "view">>].state \in Busy
        /\ <<worker.version, "view">> \in Versions \X JobKinds
  BY ViewIsThing DEF ViewsStopped, Busy
<1>3. worker'.at # "idle" /\ worker'.kind = "view" => job'[<<worker'.version, "view">>].state \in Busy
  BY <1>1, <1>2 DEF HandKept
<1>4. UNCHANGED eraser /\ source'.deletion = source.deletion
  BY JobEffects DEF JobEffect, SameOutside, SameLife
<1>5. ASSUME Dying' \/ eraser'.at = "start", NEW v \in Versions, <<v, "view">> \in Things
      PROVE  job'[<<v, "view">>].state # "cancel_requested"
  <2>1. Dying \/ eraser.at = "start"
    BY <1>4, <1>5 DEF Dying
  <2>2. source.deletion # "active"
    BY <2>1 DEF Dying, PhaseKept
  <2>3. <<v, "view">> \in Versions \X JobKinds
    BY <1>5, ThingPlaces
  <2>4. job[<<v, "view">>].state \notin {"cancel_requested"} \cup JobPending
    BY <1>5, <2>1, <2>2, <2>3 DEF ViewsStopped, PhaseKept, Quieted
  <2>. QED
    BY <1>1, <2>3, <2>4 DEF HandKept
<1>. QED
  BY <1>3, <1>5 DEF ViewsStopped, Busy

LEMMA QuietStops ==
    ASSUME ViewsStopped, UNCHANGED <<job, worker, eraser>>, Dying' => Dying
    PROVE  ViewsStopped'
BY DEF ViewsStopped

LEMMA RestartStops ==
    ASSUME SourcesInv, ViewsStopped, Restart
    PROVE  ViewsStopped'
<1> USE DEF SourcesInv
<1>1. worker'.at = "idle" /\ eraser'.at = "idle"
  BY RestartPlaces DEF Idle
<1>2. Dying' => Dying
  BY RestartKeeps DEF Reboots, Dying
<1>3. ASSUME NEW j \in Versions \X JobKinds, job'[j].state = "cancel_requested"
      PROVE  job[j].state = "cancel_requested"
  <2>1. job \in [Versions \X JobKinds -> JobType]
    BY TypesBefore
  <2>2. PICK long \in BOOLEAN : job'[j] = Recovered(j[2], Aged(long, job[j]))
    BY <2>1 DEF Restart, RecoverJobs
  <2>3. Aged(long, job[j]) \in JobType /\ Aged(long, job[j]).state = job[j].state
    BY <2>1, AgedRow
  <2>4. ASSUME NEW r \in JobType, Recovered(j[2], r).state = "cancel_requested"
        PROVE  r.state = "cancel_requested"
    <3>1. /\ Released(r, "queued").state = "queued"
          /\ Released(r, "failed").state = "failed"
          /\ Released(r, "cancelled").state = "cancelled"
      BY ReleasedSet DEF JobStates, JobPending, JobEnded
    <3>. QED
      BY <2>4, <3>1 DEF Recovered
  <2>. QED
    BY <1>3, <2>2, <2>3, <2>4
<1>4. ASSUME Dying', NEW v \in Versions, <<v, "view">> \in Things
      PROVE  job'[<<v, "view">>].state # "cancel_requested"
  <2>1. <<v, "view">> \in Versions \X JobKinds
    BY <1>4, ThingPlaces
  <2>2. job[<<v, "view">>].state # "cancel_requested"
    BY <1>2, <1>4 DEF ViewsStopped
  <2>. QED
    BY <1>3, <2>1, <2>2
<1>. QED
  BY <1>1, <1>4 DEF ViewsStopped

LEMMA DeletionStops ==
    ASSUME SourcesInv, ViewsStopped, DeletionNext
    PROVE  ViewsStopped'
<1> USE DEF SourcesInv
<1>1. UNCHANGED worker
  BY DeletionEffects DEF SameUploads
<1>2. job \in [Versions \X JobKinds -> JobType]
  BY TypesBefore
<1>3. DeletionLife
  BY DeletionStepKeeps
\* The rows: what is claimed stays so, and nothing is cancelled but by plan.
<1>4. ASSUME NEW j \in Versions \X JobKinds, j[2] = "view", job[j].state \in Busy
      PROVE  job'[j].state \in Busy
  <2>1. CASE Plan
    <3>1. \/ job'[j] = job[j]
          \/ job'[j] = [job[j] EXCEPT !.state = "cancel_requested"]
      BY <1>2, <2>1 DEF Plan
    <3>2. [job[j] EXCEPT !.state = "cancel_requested"].state = "cancel_requested"
      BY <1>2, StateSet DEF JobStates
    <3>. QED
      BY <1>4, <3>1, <3>2 DEF Busy
  <2>2. CASE RemoveArtifact \/ VerifyArtifact
    <3>1. eraser.todo \subseteq Artifacts
      BY <2>2, EraserPlaces DEF RemoveArtifact, VerifyArtifact
    <3>2. PICK a \in First(eraser.todo) : EraseRows(a) \/ UNCHANGED job
      BY <2>2 DEF RemoveArtifact, VerifyArtifact
    <3>3. CASE UNCHANGED job
      BY <1>4, <3>3
    <3>4. CASE EraseRows(a)
      <4>1. a \in Artifacts
        BY <3>1 DEF First
      <4>2. \/ job' = job
            \/ Deletable(a) /\ job' = [job EXCEPT ![<<a[2], a[1]>>] = NoJob]
        BY <3>4 DEF EraseRows
      <4>3. j = <<j[1], j[2]>>
        OBVIOUS
      <4>4. Deletable(a) => j # <<a[2], a[1]>>
        BY <1>4, <4>3 DEF Deletable, Busy, JobEnded
      <4>5. job'[j] = job[j]
        BY <1>2, <4>2, <4>4
      <4>. QED
        BY <1>4, <4>5
    <3>. QED
      BY <3>2, <3>3, <3>4
  <2>3. CASE ~Plan /\ ~RemoveArtifact /\ ~VerifyArtifact
    <3>1. UNCHANGED job
      BY <2>3 DEF DeletionNext, EraserStep, CancelDeletion, RetryPartial, RunOneDeletion,
         StartDestruction, AdvancePass, FinishDeletion, EraserThrows, DeletionLease, jobVars
    <3>. QED
      BY <1>4, <3>1
  <2>. QED
    BY <2>1, <2>2, <2>3
<1>5. ASSUME worker'.at # "idle", worker'.kind = "view"
      PROVE  job'[<<worker'.version, "view">>].state \in Busy
  <2>1. <<worker.version, "view">> \in Versions \X JobKinds
    BY <1>1, <1>5, ViewIsThing
  <2>2. job[<<worker.version, "view">>].state \in Busy
    BY <1>1, <1>5 DEF ViewsStopped, Busy
  <2>. QED
    BY <1>1, <1>4, <2>1, <2>2
<1>6. ASSUME Dying' \/ eraser'.at = "start"
      PROVE  /\ \A v \in Versions : <<v, "view">> \in Things => job[<<v, "view">>].state # "cancel_requested"
             /\ \A j \in Versions \X JobKinds : job'[j].state = "cancel_requested" => job[j] = job'[j]
  <2>1. ~Plan
    <3>1. source' = [source EXCEPT !.deletion = "frozen", !.revision = @ + 1] =>
            source'.deletion = "frozen"
      BY TypesBefore DEF SourceRow
    <3>. QED
      BY <1>6, <3>1 DEF Plan, Dying, PhaseKept
  <2>2. \A j \in Versions \X JobKinds : job'[j] = job[j] \/ job'[j].state = "absent"
    <3>1. CASE RemoveArtifact \/ VerifyArtifact
      <4>1. eraser.at \in {"remove", "verify"}
        BY <3>1 DEF RemoveArtifact, VerifyArtifact
      <4>2. source.deletion = "deleting"
        BY <4>1 DEF PhaseKept
      <4>. QED
        BY <1>3, <4>2 DEF DeletionLife, Quiet, Sweeps, Erases, Renews, Moves
    <3>2. CASE ~RemoveArtifact /\ ~VerifyArtifact
      BY <2>1, <3>2 DEF DeletionNext, EraserStep, CancelDeletion, RetryPartial, RunOneDeletion,
         StartDestruction, AdvancePass, FinishDeletion, EraserThrows, DeletionLease, jobVars
    <3>. QED
      BY <3>1, <3>2
  <2>3. CASE RunOneDeletion
    <3>1. ~ConfirmCancellation
      <4>1. source' = [source EXCEPT !.deletion = "active", !.revision = @ + 1] =>
              source'.deletion = "active"
        BY TypesBefore DEF SourceRow
      <4>. QED
        BY <1>6, <2>3, <4>1 DEF ConfirmCancellation, RunOneDeletion, Dying
    <3>2. CASE RecoverDeletion
      <4>1. RecoveredSource(del) = source \/ source.deletion = "deleting"
        BY DEF RecoveredSource
      <4>2. Dying
        BY <1>6, <2>3, <3>2, <4>1 DEF RecoverDeletion, RunOneDeletion, Dying
      <4>. QED
        BY <2>2, <4>2 DEF ViewsStopped
    <3>3. CASE ClaimDeletion
      <4>1. \A v \in Versions : <<v, "view">> \in Things => job[<<v, "view">>].state # "cancel_requested"
        BY <1>2, <3>3, ThingPlaces DEF ClaimDeletion
      <4>. QED
        BY <2>2, <4>1
    <3>. QED
      BY <2>3, <3>1, <3>2, <3>3 DEF RunOneDeletion
  <2>4. CASE ~RunOneDeletion
    <3>1. Dying \/ eraser.at = "start"
      <4>1. CASE RetryPartial
        BY <4>1 DEF RetryPartial, Dying
      <4>2. CASE StartDestruction
        BY <4>2 DEF StartDestruction
      <4>3. CASE RemoveArtifact \/ VerifyArtifact \/ FinishDeletion
        BY <4>3 DEF RemoveArtifact, VerifyArtifact, FinishDeletion, PhaseKept, Dying
      <4>4. CASE AdvancePass("remove", 2, "verify") \/ AdvancePass("verify", 3, "finish")
        BY <4>4 DEF AdvancePass, PhaseKept, Dying
      <4>5. CASE CancelDeletion \/ DeletionLease(TRUE) \/ DeletionLease(FALSE)
        BY <1>6, <4>5 DEF CancelDeletion, DeletionLease, Dying
      <4>6. CASE EraserThrows
        BY <1>6, <4>6 DEF EraserThrows, EraserStops, Idle, Dying
      <4>. QED
        BY <2>1, <2>4, <4>1, <4>2, <4>3, <4>4, <4>5, <4>6 DEF DeletionNext, EraserStep
    <3>. QED
      BY <2>2, <3>1 DEF ViewsStopped
  <2>. QED
    BY <2>3, <2>4
<1>7. ASSUME Dying' \/ eraser'.at = "start", NEW v \in Versions, <<v, "view">> \in Things
      PROVE  job'[<<v, "view">>].state # "cancel_requested"
  BY <1>6, <1>7, ThingPlaces
<1>. QED
  BY <1>5, <1>7 DEF ViewsStopped, Busy

-----------------------------------------------------------------------------
(* What is erased stays so through the steps of everyone else *)

LEMMA ErasedStays ==
    ASSUME ErasedInv, SourcesTypeOK', UNCHANGED inv, Remembers,
           \/ source'.deletion = source.deletion
           \/ source.deletion = "deleting" /\ source'.deletion = "partially_deleted",
           source.deletion # "active" => Shrinks /\ Sinks,
           eraser' = eraser \/ eraser'.at = "idle",
           source.deletion = "deleted" => grants' \subseteq grants
    PROVE  KindsKnown' /\ VerifiedGone' /\ PassKept' /\ DeletedGone'
<1> USE DEF ErasedInv
<1>1. KindsKnown'
  BY DEF KindsKnown
<1>2. Kept' => Kept
  BY DEF Kept
<1>3. ASSUME NEW a \in DOMAIN inv', inv'[a] = "verified_absent"
      PROVE  ~Kept' /\ Gone(a)'
  <2>1. a \in DOMAIN inv /\ ~Kept /\ Gone(a)
    BY <1>3 DEF VerifiedGone
  <2>2. source.deletion # "active" /\ (worker.at # "idle" => worker.kind # "view")
    BY <2>1, HandsOff DEF Kept
  <2>. QED
    BY <1>2, <2>1, <2>2, GoneStays DEF ErasureInv
<1>4. VerifiedGone'
  BY <1>3 DEF VerifiedGone
<1>5. PassKept'
  <2>1. CASE eraser'.at \in {"remove", "verify", "finish"}
    <3>1. eraser' = eraser /\ source.deletion = "deleting"
      BY <2>1 DEF ErasureInv, SourcesInv, PhaseKept
    <3>2. \A v \in Versions : Swept(v) => Swept(v)'
      BY <3>1 DEF Sinks
    <3>. QED
      BY <3>1, <3>2 DEF PassKept, Remembers
  <2>2. CASE eraser'.at \notin {"remove", "verify", "finish"}
    BY <2>2 DEF PassKept
  <2>. QED
    BY <2>1, <2>2
<1>6. ASSUME source'.deletion = "deleted"
      PROVE  /\ ~Residual' /\ art' = {}
             /\ \A v \in Versions :
                   /\ ~version'[v].there /\ Swept(v)'
                   /\ v \in faults'.stuck \/ object'[v] \notin Original
  <2>1. /\ source.deletion = "deleted" /\ ~Residual /\ art = {}
        /\ \A v \in Versions :
              /\ ~version[v].there /\ Swept(v)
              /\ v \in faults.stuck \/ object[v] \notin Original
    BY <1>6 DEF DeletedGone
  <2>2. worker.at # "idle" => worker.kind # "view"
    BY <2>1, HandsOff DEF Kept
  <2>3. /\ DOMAIN product = Things /\ DOMAIN product' = Things
        /\ DOMAIN job = Versions \X JobKinds /\ DOMAIN job' = Versions \X JobKinds
        /\ art' \subseteq Versions
    BY DEF SourcesTypeOK, ErasureInv, SourcesInv
  <2>4. art' = {}
    BY <2>1, <2>2, <2>3 DEF Shrinks
  <2>5. /\ \A v \in Versions : upload[v].state = "absent"
        /\ \A p \in Things : product[p] = "none"
        /\ \A j \in Versions \X JobKinds : job[j].state = "absent"
        /\ grants = {}
    BY <2>1, <2>3 DEF Residual
  <2>6. /\ \A v \in Versions : upload'[v].state = "absent"
        /\ \A p \in Things : product'[p] = "none"
        /\ \A j \in Versions \X JobKinds : job'[j].state = "absent"
        /\ grants' = {}
    BY <2>1, <2>5 DEF Shrinks
  <2>7. ~Residual'
    BY <2>3, <2>6 DEF Residual
  <2>8. \A v \in Versions :
          /\ ~version'[v].there /\ Swept(v)'
          /\ v \in faults'.stuck \/ object'[v] \notin Original
    BY <2>1 DEF Shrinks, Sinks, Remembers
  <2>. QED
    BY <2>4, <2>7, <2>8
<1>7. DeletedGone'
  BY <1>6 DEF DeletedGone
<1>. QED
  BY <1>1, <1>4, <1>5, <1>7

-----------------------------------------------------------------------------
(* ... and through those of the deletion *)

Verifies(a) ==
    /\ VerifyArtifact /\ a \in Artifacts
    /\ BytesAbsent(a) /\ RowsRemovable(a) /\ EraseRows(a)

\* Only a verification marks an artifact verified.
LEMMA MarksMove ==
    ASSUME SourcesInv, DeletionNext
    PROVE  \/ inv' = <<>>
           \/ Plan
           \/ /\ DOMAIN inv' = DOMAIN inv
              /\ \A a \in DOMAIN inv :
                   inv'[a] = "verified_absent" => inv[a] = "verified_absent" \/ Verifies(a)
<1> USE DEF SourcesInv
<1>1. CASE RetryPartial
  BY <1>1 DEF RetryPartial
<1>2. CASE RunOneDeletion
  BY <1>2 DEF RunOneDeletion, ConfirmCancellation, RecoverDeletion, ClaimDeletion
<1>3. CASE FinishDeletion
  BY <1>3 DEF FinishDeletion
<1>4. CASE CancelDeletion \/ StartDestruction \/ EraserThrows
           \/ AdvancePass("remove", 2, "verify") \/ AdvancePass("verify", 3, "finish")
           \/ DeletionLease(TRUE) \/ DeletionLease(FALSE)
  BY <1>4 DEF CancelDeletion, StartDestruction, EraserThrows, AdvancePass, DeletionLease
<1>5. CASE RemoveArtifact
  <2>1. PICK a \in First(eraser.todo) : Marked(a, "removed") \/ UNCHANGED inv
    BY <1>5 DEF RemoveArtifact
  <2>. QED
    BY <2>1 DEF Marked
<1>6. CASE VerifyArtifact
  <2>1. eraser.todo \subseteq Artifacts
    BY <1>6, EraserPlaces DEF VerifyArtifact
  <2>2. PICK a \in First(eraser.todo) :
          \/ UNCHANGED inv
          \/ BytesAbsent(a) /\ RowsRemovable(a) /\ EraseRows(a) /\ Marked(a, "verified_absent")
          \/ Marked(a, "failed")
    BY <1>6 DEF VerifyArtifact
  <2>3. a \in Artifacts
    BY <2>1 DEF First
  <2>. QED
    BY <1>6, <2>2, <2>3 DEF Marked, Verifies
<1>. QED
  BY <1>1, <1>2, <1>3, <1>4, <1>5, <1>6 DEF DeletionNext, EraserStep

\* What is verified is gone, rows and bytes, because the pass of removals
\* before it swept every upload or failed to, and a staging file that is gone is
\* as good as swept.
LEMMA VerifiesGone ==
    ASSUME SourcesInv, PassKept, NEW a \in DOMAIN inv, KindsKnown, Verifies(a)
    PROVE  ~Kept' /\ Gone(a)'
<1> USE TypesBefore DEF SourcesInv
<1>1. VerifyArtifact /\ BytesAbsent(a) /\ RowsRemovable(a) /\ EraseRows(a) /\ a \in Artifacts
  BY DEF Verifies
<1>2. /\ eraser.at = "verify" /\ source.deletion = "deleting"
      /\ UNCHANGED <<source, quar, staged, object, art, handler, faults>>
  BY <1>1 DEF VerifyArtifact, PhaseKept, byteVars, SameUploads
<1>3. ~Kept'
  BY <1>2 DEF Kept
<1>4. /\ a[2] \in Versions
      /\ a[1] \in {"immutable_original", "upload_staging", "placed_candidate", "derived_resource",
                   "data_view"} \cup JobKinds
  BY <1>1 DEF Artifacts
<1>5. JobKinds \subseteq {"inspect", "extract", "view"}
  BY SourceAssumption DEF JobKinds
<1>6. Swept(a[2])' \/ a[2] \in faults'.stuck
  <2>1. Swept(a[2]) \/ a[2] \in faults.stuck
    BY <1>2, <1>4 DEF PassKept
  <2>. QED
    BY <1>2, <2>1 DEF Swept
<1>7. CASE a[1] \in {"immutable_original", "placed_candidate"}
  <2>1. object[a[2]] = "none"
    BY <1>1, <1>7 DEF BytesAbsent
  <2>. QED
    BY <1>2, <1>3, <1>6, <1>7, <2>1 DEF Gone, Original
<1>8. CASE a[1] = "data_view"
  <2>1. a[2] \notin art /\ product' = [product EXCEPT ![<<a[2], "view">>] = "none"]
    BY <1>1, <1>8 DEF BytesAbsent, EraseRows
  <2>2. <<a[2], "view">> \in Things
    BY <1>4, <1>8 DEF KindsKnown, Things
  <2>3. product'[<<a[2], "view">>] = "none"
    BY <2>1, <2>2 DEF ProductType
  <2>. QED
    BY <1>2, <1>3, <1>8, <2>1, <2>3 DEF Gone
<1>9. CASE a[1] = "derived_resource"
  <2>1. product' = [product EXCEPT ![<<a[2], "extract">>] = "none"]
    BY <1>1, <1>9 DEF EraseRows
  <2>2. <<a[2], "extract">> \in Things
    BY <1>4, <1>9 DEF KindsKnown, Things
  <2>3. product'[<<a[2], "extract">>] = "none"
    BY <2>1, <2>2 DEF ProductType
  <2>. QED
    BY <1>3, <1>9, <2>3 DEF Gone
<1>10. CASE a[1] = "upload_staging"
  <2>1. upload' = [upload EXCEPT ![a[2]] = NoUpload]
    BY <1>1, <1>10 DEF EraseRows
  <2>2. upload'[a[2]].state = "absent"
    BY <1>4, <2>1, NoUploadTyped
  <2>3. a[2] \notin quar /\ staged[a[2]] = <<>>
    BY <1>1, <1>10 DEF BytesAbsent
  <2>4. Swept(a[2])'
    BY <1>2, <2>3 DEF Swept
  <2>. QED
    BY <1>3, <1>10, <2>2, <2>4 DEF Gone
<1>11. CASE a[1] \in JobKinds
  <2>1. <<a[2], a[1]>> \in Versions \X JobKinds
    BY <1>4, <1>11
  <2>2. Deletable(a) \/ job[<<a[2], a[1]>>].state = "absent"
    BY <1>1, <1>5, <1>11 DEF RowsRemovable, Deletable
  <2>3. job' = IF Deletable(a) THEN [job EXCEPT ![<<a[2], a[1]>>] = NoJob] ELSE job
    BY <1>1, <1>11 DEF EraseRows
  <2>4. job'[<<a[2], a[1]>>].state = "absent"
    BY <2>1, <2>2, <2>3, NoJobTyped
  <2>. QED
    BY <1>3, <1>5, <1>11, <2>4 DEF Gone
<1>. QED
  BY <1>4, <1>7, <1>8, <1>9, <1>10, <1>11

LEMMA DeletionVerifies ==
    ASSUME ErasedInv, DeletionNext, Remembers
    PROVE  KindsKnown' /\ VerifiedGone'
<1> USE DEF ErasedInv, ErasureInv, SourcesInv
<1>1. CASE inv' = <<>>
  BY <1>1 DEF KindsKnown, VerifiedGone
<1>2. CASE Plan
  <2>1. inv' = [a \in Inventory |-> "pending"]
    BY <1>2 DEF Plan
  <2>2. VerifiedGone'
    BY <2>1 DEF VerifiedGone
  <2>3. JobKinds \subseteq {"inspect", "extract", "view"}
    BY SourceAssumption DEF JobKinds
  <2>4. DOMAIN job = Versions \X JobKinds
    BY TypesBefore
  <2>5. ASSUME NEW a \in Inventory
        PROVE  /\ a[1] = "data_view" => "view" \in Preparations
               /\ a[1] = "derived_resource" => "extract" \in Preparations
    <3>1. \/ \E v \in Versions : a = <<"immutable_original", v>>
          \/ \E v \in Versions : a = <<"upload_staging", v>>
          \/ \E v \in Versions : a = <<"placed_candidate", v>>
          \/ \E v \in Versions : a = <<"derived_resource", v>> /\ "extract" \in Preparations
          \/ \E v \in Versions : a = <<"data_view", v>> /\ "view" \in Preparations
          \/ \E j \in DOMAIN job : a = <<j[2], j[1]>>
      BY Zenon DEF Inventory
    <3>2. CASE \E j \in DOMAIN job : a = <<j[2], j[1]>>
      <4>1. PICK j \in Versions \X JobKinds : a = <<j[2], j[1]>>
        BY <2>4, <3>2
      <4>2. a[1] \in JobKinds
        BY <4>1
      <4>. QED
        BY <2>3, <4>2
    <3>. QED
      BY <3>1, <3>2
  <2>6. KindsKnown'
    BY <2>1, <2>5 DEF KindsKnown
  <2>. QED
    BY <2>2, <2>6
<1>3. CASE /\ DOMAIN inv' = DOMAIN inv
           /\ \A a \in DOMAIN inv :
                inv'[a] = "verified_absent" => inv[a] = "verified_absent" \/ Verifies(a)
           /\ ~(inv' = <<>>)
  <2>1. KindsKnown'
    BY <1>3 DEF KindsKnown
  <2>2. ASSUME NEW a \in DOMAIN inv', inv'[a] = "verified_absent"
        PROVE  ~Kept' /\ Gone(a)'
    <3>1. CASE Verifies(a)
      BY <1>3, <3>1, VerifiesGone
    <3>2. CASE inv[a] = "verified_absent"
      <4>1. a \in DOMAIN inv /\ ~Kept /\ Gone(a)
        BY <1>3, <3>2 DEF VerifiedGone
      <4>2. ~Kept'
        BY <4>1, DeletionSpares
      <4>3. PhaseKept' /\ source' \in SourceRow
        BY DeletionEffects DEF DeletionTypes
      <4>4. Dying'
        BY <1>3, <4>2, <4>3 DEF PhaseKept, Dying, Kept, SourceRow, Phases
      <4>5. Shrinks
        BY <4>4, DeletionShrinks
      <4>6. Sinks /\ (worker.at # "idle" => worker.kind # "view")
        BY <4>1, DeletionSinks, HandsOff
      <4>. QED
        BY <4>1, <4>2, <4>5, <4>6, GoneStays
    <3>. QED
      BY <1>3, <2>2, <3>1, <3>2
  <2>3. VerifiedGone'
    BY <2>2 DEF VerifiedGone
  <2>. QED
    BY <2>1, <2>3
<1>. QED
  BY <1>1, <1>2, <1>3, MarksMove

\* What is left to sweep is left to verify: an upload that is not in the
\* inventory has nothing staged and no request.
LEMMA ToSweep ==
    ASSUME ErasureInv, VerifiedGone, Dying \/ source.deletion = "frozen", NEW v \in Versions
    PROVE  Swept(v) \/ <<"upload_staging", v>> \in Unverified
<1> DEFINE a == <<"upload_staging", v>>
<1> SUFFICES ASSUME ~Swept(v)
             PROVE  a \in Unverified
  OBVIOUS
<1>1. source.deletion = "frozen" => Listed(Inventory)
  BY AllIsListed DEF ErasureInv, Kept
<1>2. Listed(DOMAIN inv)
  BY <1>1 DEF ErasureInv, ListKept
<1>3. staged[v] # <<>> \/ handler[v].at # "idle"
  BY DEF Swept
<1>4. a \in DOMAIN inv
  BY <1>2, <1>3 DEF Listed, Covered
<1>5. a[1] = "upload_staging" /\ a[2] = v
  OBVIOUS
<1> HIDE DEF a
<1>6. ~Gone(a)
  BY <1>5 DEF Gone
<1>. QED
  BY <1>4, <1>6 DEF VerifiedGone, Unverified

LEMMA RemovalSweeps ==
    ASSUME ErasedInv, RemoveArtifact, DeletionNext, Remembers
    PROVE  PassKept'
<1> USE DEF ErasedInv, ErasureInv, SourcesInv
<1>1. \A v \in Versions : Swept(v) => Swept(v)'
  BY DeletionSinks DEF Sinks
<1>2. eraser.at = "remove" /\ eraser.todo \subseteq Artifacts
  BY EraserPlaces DEF RemoveArtifact
<1>3. PICK a \in First(eraser.todo) :
        \/ EraserStops
        \/ /\ EraserGoes("remove", eraser.checkpoint, eraser.todo \ {a})
           /\ EraseBytes(a) \/ RemovalFails(a)
  BY DEF RemoveArtifact
<1>4. CASE EraserStops
  BY <1>4 DEF EraserStops, Idle, PassKept
<1>5. CASE /\ EraserGoes("remove", eraser.checkpoint, eraser.todo \ {a})
           /\ EraseBytes(a) \/ RemovalFails(a)
  <2>1. eraser'.at = "remove" /\ eraser'.todo = eraser.todo \ {a}
    BY <1>5 DEF EraserGoes
  <2>2. a \in Artifacts /\ staged \in StagedType
    BY <1>2, TypesBefore DEF First
  <2>3. ASSUME NEW v \in Versions, a = <<"upload_staging", v>>
        PROVE  Swept(v)' \/ v \in faults'.stuck
    <3>1. a[1] = "upload_staging" /\ a[2] = v
      BY <2>3
    <3>2. CASE RemovalFails(a)
      BY <3>1, <3>2 DEF RemovalFails
    <3> SUFFICES ASSUME EraseBytes(a)
                 PROVE  Swept(v)'
      BY <1>5, <3>2
    <3>3. quar' = quar \ {v} /\ staged' = [staged EXCEPT ![v] = <<>>]
      BY <3>1 DEF EraseBytes
    <3>4. staged'[v] = <<>> /\ v \notin quar'
      BY <2>2, <3>3 DEF StagedType
    <3>. QED
      BY <3>4 DEF Swept
  <2>4. ASSUME NEW v \in Versions
        PROVE  Swept(v)' \/ v \in faults'.stuck \/ <<"upload_staging", v>> \in eraser'.todo
    <3>1. Swept(v) \/ v \in faults.stuck \/ <<"upload_staging", v>> \in eraser.todo
      BY <1>2 DEF PassKept
    <3>. QED
      BY <1>1, <2>1, <2>3, <3>1 DEF Remembers
  <2>. QED
    BY <2>1, <2>4 DEF PassKept
<1>. QED
  BY <1>3, <1>4, <1>5

LEMMA DeletionPasses ==
    ASSUME ErasedInv, DeletionNext, Remembers
    PROVE  PassKept'
<1> USE DEF ErasedInv, ErasureInv, SourcesInv
<1>1. \A v \in Versions : Swept(v) => Swept(v)'
  BY DeletionSinks DEF Sinks
<1>2. ASSUME eraser' = eraser
      PROVE  PassKept'
  BY <1>1, <1>2 DEF PassKept, Remembers
<1>3. ASSUME eraser'.at \in {"idle", "start"}
      PROVE  PassKept'
  BY <1>3 DEF PassKept
<1>4. ASSUME EraserStops
      PROVE  PassKept'
  BY <1>3, <1>4 DEF EraserStops, Idle
<1>5. ASSUME eraser'.at = "remove", eraser'.todo = Unverified, Dying \/ source.deletion = "frozen"
      PROVE  PassKept'
  <2>1. ASSUME NEW v \in Versions
        PROVE  Swept(v)' \/ <<"upload_staging", v>> \in eraser'.todo
    <3>1. Swept(v) \/ <<"upload_staging", v>> \in Unverified
      BY <1>5, ToSweep
    <3>. QED
      BY <1>1, <1>5, <3>1
  <2>. QED
    BY <1>5, <2>1 DEF PassKept
<1>6. ASSUME eraser'.at \in {"verify", "finish"}, \A v \in Versions : Swept(v) \/ v \in faults.stuck
      PROVE  PassKept'
  BY <1>1, <1>6 DEF PassKept, Remembers
<1>7. CASE Plan \/ CancelDeletion \/ RetryPartial \/ DeletionLease(TRUE) \/ DeletionLease(FALSE)
  BY <1>2, <1>7 DEF Plan, CancelDeletion, RetryPartial, DeletionLease
<1>8. CASE RunOneDeletion
  <2>1. CASE ClaimDeletion
    <3>1. \/ eraser'.at = "start"
          \/ eraser'.at = "remove" /\ eraser'.todo = Unverified
      BY <2>1 DEF ClaimDeletion
    <3>2. Dying \/ source.deletion = "frozen"
      <4>1. del.state = "queued" /\ NoDeletion.state = "absent"
        BY <2>1 DEF ClaimDeletion, NoDeletion
      <4>2. source.deletion \in Phases
        BY TypesBefore DEF SourceRow
      <4>. QED
        BY <4>1, <4>2 DEF PhaseKept, Phases, Dying
    <3>. QED
      BY <1>3, <1>5, <3>1, <3>2
  <2>2. CASE UNCHANGED eraser
    BY <1>2, <2>2
  <2>. QED
    BY <1>8, <2>1, <2>2 DEF RunOneDeletion, ConfirmCancellation, RecoverDeletion
<1>9. CASE StartDestruction
  <2>1. source.deletion = "frozen"
    BY <1>9 DEF StartDestruction, PhaseKept
  <2>2. CASE EraserGoes("remove", 1, Unverified)
    BY <1>5, <2>1, <2>2 DEF EraserGoes
  <2>. QED
    BY <1>4, <1>9, <2>2 DEF StartDestruction
<1>10. CASE RemoveArtifact
  BY <1>10, RemovalSweeps
<1>11. CASE AdvancePass("remove", 2, "verify")
  <2>1. eraser.at = "remove" /\ eraser.todo = {}
    BY <1>11 DEF AdvancePass
  <2>2. \A v \in Versions : Swept(v) \/ v \in faults.stuck
    BY <2>1 DEF PassKept
  <2>3. EraserStops \/ eraser'.at = "verify"
    BY <1>11 DEF AdvancePass, EraserGoes
  <2>. QED
    BY <1>4, <1>6, <2>2, <2>3
<1>12. CASE VerifyArtifact
  <2>1. \A v \in Versions : Swept(v) \/ v \in faults.stuck
    BY <1>12 DEF VerifyArtifact, PassKept
  <2>2. EraserStops \/ eraser'.at = "verify"
    BY <1>12 DEF VerifyArtifact, EraserGoes
  <2>. QED
    BY <1>4, <1>6, <2>1, <2>2
<1>13. CASE AdvancePass("verify", 3, "finish")
  <2>1. \A v \in Versions : Swept(v) \/ v \in faults.stuck
    BY <1>13 DEF AdvancePass, PassKept
  <2>2. EraserStops \/ eraser'.at = "finish"
    BY <1>13 DEF AdvancePass, EraserGoes
  <2>. QED
    BY <1>4, <1>6, <2>1, <2>2
<1>14. CASE FinishDeletion \/ EraserThrows
  BY <1>4, <1>14 DEF FinishDeletion, EraserThrows
<1>. QED
  BY <1>7, <1>8, <1>9, <1>10, <1>11, <1>12, <1>13, <1>14 DEF DeletionNext, EraserStep

\* Only finish makes a source deleted, and only when everything listed was
\* verified absent: what is not listed was never there.
LEMMA DeletionDeletes ==
    ASSUME ErasedInv, DeletionNext
    PROVE  DeletedGone'
<1> USE DEF ErasedInv, ErasureInv, SourcesInv
<1> SUFFICES ASSUME source'.deletion = "deleted"
             PROVE  DeletedGone'
  BY DEF DeletedGone
<1>1. source \in SourceRow /\ del \in DeletionRow
  BY TypesBefore, DeletionTypesBefore
<1>2. /\ FinishDeletion /\ Unverified = {} /\ ~Residual
      /\ \A v \in Versions : ~version'[v].there
  <2>1. source.deletion # "deleted"
    <3> SUFFICES ASSUME source.deletion = "deleted"
                 PROVE  FALSE
      OBVIOUS
    <3>1. /\ del.state = "absent" /\ del.claim = "none"
          /\ eraser.at \notin {"start", "remove", "verify", "finish"}
      BY DEF PhaseKept, NoDeletion
    <3>2. eraser.at = "idle"
      BY <3>1, EraserPlaces DEF Erasing
    <3>. QED
      BY <3>1, <3>2 DEF DeletionNext, EraserStep, Plan, CancelDeletion, RetryPartial, RunOneDeletion,
         ConfirmCancellation, CanConfirm, RecoverDeletion, Expired, ClaimDeletion, StartDestruction,
         RemoveArtifact, AdvancePass, VerifyArtifact, FinishDeletion, EraserThrows, DeletionLease
  <2>2. ASSUME NEW phase \in {"active", "frozen", "deleting", "partially_deleted"}
        PROVE  /\ source' # [source EXCEPT !.deletion = phase]
               /\ source' # [source EXCEPT !.deletion = phase, !.revision = @ + 1]
    BY <1>1 DEF SourceRow
  <2>3. source' # source
    BY <2>1
  <2>4. RecoveredSource(del) # source'
    BY <2>2, <2>3 DEF RecoveredSource
  <2>5. FinishDeletion
    BY <2>2, <2>3, <2>4 DEF DeletionNext, EraserStep, Plan, CancelDeletion, RetryPartial, RunOneDeletion,
       ConfirmCancellation, RecoverDeletion, ClaimDeletion, StartDestruction, RemoveArtifact,
       AdvancePass, VerifyArtifact, EraserThrows, DeletionLease
  <2>6. /\ Unverified = {} /\ ~Residual
        /\ version' = [v \in Versions |->
                         [there |-> FALSE, inspection |-> "none", preparation |-> "none"]]
    BY <2>2, <2>3, <2>5 DEF FinishDeletion
  <2>. QED
    BY <2>5, <2>6
<1>3. eraser.at = "finish" /\ source.deletion = "deleting"
  BY <1>2 DEF FinishDeletion, PhaseKept
<1>4. UNCHANGED <<job, product, upload, grants, quar, staged, object, art, handler, faults>>
  BY <1>2 DEF FinishDeletion, byteVars, SameUploads
<1>5. \A v \in Versions : Swept(v)
  BY <1>2, <1>3, ToSweep DEF Dying
<1>6. Listed(DOMAIN inv)
  BY <1>3 DEF ListKept, Dying
<1>7. \A a \in DOMAIN inv : Gone(a)
  BY <1>2 DEF Unverified, VerifiedGone
<1>8. ASSUME NEW v \in Versions
      PROVE  v \notin art
  <2> DEFINE a == <<"data_view", v>>
  <2>1. a[1] = "data_view" /\ a[2] = v
    OBVIOUS
  <2>2. v \in art => a \in DOMAIN inv
    BY <1>6 DEF Listed, Covered
  <2> HIDE DEF a
  <2>. QED
    BY <1>7, <2>1, <2>2 DEF Gone
<1>9. art = {}
  BY <1>8, TypesBefore
<1>10. ASSUME NEW v \in Versions
       PROVE  v \in faults.stuck \/ object[v] \notin Original
  <2> SUFFICES ASSUME object[v] \in Original
               PROVE  v \in faults.stuck
    OBVIOUS
  <2>1. PICK a \in {<<"immutable_original", v>>, <<"placed_candidate", v>>} : a \in DOMAIN inv
    BY <1>6 DEF Listed, Covered
  <2>2. a[1] \in {"immutable_original", "placed_candidate"} /\ a[2] = v
    BY <2>1
  <2>. QED
    BY <1>7, <2>1, <2>2 DEF Gone
<1>11. ~Residual'
  BY <1>2, <1>4 DEF Residual
<1>12. \A v \in Versions : Swept(v)'
  BY <1>4, <1>5 DEF Swept
<1>. QED
  BY <1>2, <1>4, <1>9, <1>10, <1>11, <1>12 DEF DeletedGone

-----------------------------------------------------------------------------
(* The invariant *)

LEMMA ErasedInvInit ==
    ASSUME SourceInit
    PROVE  ErasedInv
<1>1. ErasureInv
  BY ErasureInvInit
<1>2. /\ source.deletion = "active" /\ worker = Idle /\ eraser = Idle /\ inv = <<>>
  BY DEF SourceInit
<1>3. ViewsStopped
  BY <1>2 DEF ViewsStopped, Dying, Idle
<1>4. KindsKnown /\ VerifiedGone
  BY <1>2 DEF KindsKnown, VerifiedGone
<1>5. PassKept /\ DeletedGone
  BY <1>2 DEF PassKept, DeletedGone, Idle
<1>. QED
  BY <1>1, <1>3, <1>4, <1>5 DEF ErasedInv

\* Steps that touch neither rows nor bytes.
LEMMA OutsideErased ==
    ASSUME ErasedInv, ErasureInv', SameStores,
           source.deletion = "deleted" => grants' \subseteq grants
    PROVE  ErasedInv'
<1>1. /\ UNCHANGED <<source, version, job, product, upload, handler, staged, object, quar, art, worker>>
      /\ UNCHANGED <<inv, eraser>>
  BY DEF SameStores, byteVars
<1>2. worker'.at # "idle" /\ worker'.kind = "view" =>
        worker.at # "idle" /\ worker.kind = "view" /\ worker'.version = worker.version
  BY <1>1
<1>3. Shrinks
  BY <1>1, <1>2 DEF Shrinks
<1>4. Sinks
  BY <1>1, StillSinks
<1>5. ViewsStopped'
  BY <1>1, QuietStops DEF ErasedInv, Dying
<1>6. SourcesTypeOK'
  BY DEF ErasureInv, SourcesInv
<1>7. Remembers
  BY DEF SameStores, Remembers
<1>8. KindsKnown' /\ VerifiedGone' /\ PassKept' /\ DeletedGone'
  BY <1>1, <1>3, <1>4, <1>6, <1>7, ErasedStays
<1>. QED
  BY <1>5, <1>8 DEF ErasedInv

LEMMA ErasedInvStep ==
    ASSUME ErasedInv, [SourcesNext]_sourceVars
    PROVE  ErasedInv'
<1>1. ErasureInv /\ SourcesInv /\ ViewsStopped /\ source \in SourceRow
  BY TypesBefore DEF ErasedInv, ErasureInv, SourcesInv
<1>2. ErasureInv'
  BY <1>1, ErasureInvStep
<1>3. SourcesTypeOK'
  BY <1>2 DEF ErasureInv, SourcesInv
<1>. Remembers
  BY <1>1, StepRemembers
<1>4. CASE JobNext
  <2>1. source'.deletion = source.deletion
    BY <1>1, <1>4, JobEffects DEF JobEffect, SameLife, SourcesInv
  <2>2. UNCHANGED <<inv, eraser, grants>>
    BY <1>1, <1>4, JobEffects DEF JobEffect, SameOutside, SourcesInv
  <2>3. Sinks /\ (source.deletion # "active" => Shrinks)
    BY <1>1, <1>4, JobSinks, JobShrinks
  <2>4. ViewsStopped'
    BY <1>1, <1>4, JobStops
  <2>5. KindsKnown' /\ VerifiedGone' /\ PassKept' /\ DeletedGone'
    BY <1>3, <2>1, <2>2, <2>3, ErasedStays
  <2>. QED
    BY <1>2, <2>4, <2>5 DEF ErasedInv
<1>5. CASE UploadNext
  <2>1. UNCHANGED <<inv, eraser, grants, worker, job>>
    BY <1>1, <1>5, UploadEffects DEF UploadEffect, SameJobs, SourcesInv
  <2>2. CASE source.deletion = "active"
    <3>1. source'.deletion = "active"
      BY <1>1, <1>5, <2>2, UploadEffects DEF SourceStays, Refreshes, SourcesInv
    <3>2. inv = <<>> /\ eraser.at = "idle"
      BY <1>1, <2>2, EraserPlaces DEF SourcesInv, PhaseKept, Erasing
    <3>3. KindsKnown' /\ VerifiedGone' /\ PassKept' /\ DeletedGone'
      BY <2>1, <3>1, <3>2 DEF KindsKnown, VerifiedGone, PassKept, DeletedGone
    <3>4. ViewsStopped'
      BY <1>1, <2>1, <3>1, QuietStops DEF Dying
    <3>. QED
      BY <1>2, <3>3, <3>4 DEF ErasedInv
  <2>3. CASE source.deletion # "active"
    <3>1. Shrinks /\ Sinks /\ UNCHANGED <<source, job>>
      BY <1>1, <1>5, <2>3, UploadShrinks, UploadSinks
    <3>2. ViewsStopped'
      BY <1>1, <2>1, <3>1, QuietStops DEF Dying
    <3>3. KindsKnown' /\ VerifiedGone' /\ PassKept' /\ DeletedGone'
      BY <1>3, <2>1, <3>1, ErasedStays
    <3>. QED
      BY <1>2, <3>2, <3>3 DEF ErasedInv
  <2>. QED
    BY <2>2, <2>3
<1>6. CASE DeletionNext
  BY <1>1, <1>2, <1>6, DeletionStops, DeletionVerifies, DeletionPasses, DeletionDeletes DEF ErasedInv
<1>7. ASSUME NEW v \in Versions, NEW k \in Preparations, Grant(v, k) \/ Revoke(v, k)
      PROVE  ErasedInv'
  <2>1. SameStores /\ (source.deletion = "deleted" => grants' \subseteq grants)
    BY <1>7 DEF Grant, Revoke, Selectable
  <2>. QED
    BY <1>2, <2>1, OutsideErased
<1>8. ASSUME NEW r \in Readers, ReadStep(r)
      PROVE  ErasedInv'
  <2>1. SameStores /\ UNCHANGED grants
    BY <1>8 DEF ReadStep, StartRead, Authorize, ReadBytes, LookAgain, EndRead
  <2>. QED
    BY <1>2, <2>1, OutsideErased
<1>9. CASE Restart
  <2>1. \/ source'.deletion = source.deletion
        \/ source.deletion = "deleting" /\ source'.deletion = "partially_deleted"
    BY <1>1, <1>9, RestartKeeps DEF Reboots
  <2>2. source.deletion # "active" => Shrinks /\ Sinks
    BY <1>1, <1>9, RestartShrinks, RestartSinks
  <2>3. UNCHANGED <<inv, grants>> /\ eraser'.at = "idle"
    BY <1>9 DEF Restart, Idle
  <2>4. ViewsStopped'
    BY <1>1, <1>9, RestartStops
  <2>5. KindsKnown' /\ VerifiedGone' /\ PassKept' /\ DeletedGone'
    BY <1>3, <2>1, <2>2, <2>3, ErasedStays
  <2>. QED
    BY <1>2, <2>4, <2>5 DEF ErasedInv
<1>10. CASE UNCHANGED sourceVars
  <2>1. SameStores /\ UNCHANGED grants
    BY <1>10 DEF SameStores, sourceVars, rowVars
  <2>. QED
    BY <1>2, <2>1, OutsideErased
<1>. QED
  BY <1>4, <1>5, <1>6, <1>7, <1>8, <1>9, <1>10 DEF SourcesNext

\* What verifyArtifact found absent is not brought back by an upload or a job
\* that was under way when plan froze the source, nor by a restart, and of a
\* source that finish reported deleted no row, no grant and no staged, placed or
\* derived byte is left; whatever files cannot be removed, except that of an
\* original it holds only until a removal of the upload's staging file fails:
\* executeClaim verifies the original first, and a completion that was under way
\* can then rename the staging file to it.
THEOREM ErasedForGood == SourcesSpec => []ErasedStaysErased
<1>1. SourceInit => ErasedInv
  BY ErasedInvInit
<1>2. ErasedInv /\ [SourcesNext]_sourceVars => ErasedInv'
  BY ErasedInvStep
<1>3. ErasedInv => ErasedStaysErased
  <2> SUFFICES ASSUME ErasedInv
               PROVE  ErasedStaysErased
    OBVIOUS
  <2>1. ASSUME NEW a \in DOMAIN inv, inv[a] = "verified_absent"
        PROVE  CASE a[1] \in {"immutable_original", "placed_candidate"} ->
                        a[2] \in faults.stuck \/ object[a[2]] \notin Original
                 [] a[1] = "data_view" -> a[2] \notin art /\ product[<<a[2], "view">>] = "none"
                 [] a[1] = "derived_resource" -> product[<<a[2], "extract">>] = "none"
                 [] a[1] = "upload_staging" -> staged[a[2]] = <<>> /\ upload[a[2]].state = "absent"
                 [] OTHER -> job[<<a[2], a[1]>>].state = "absent"
    <3>1. Gone(a)
      BY <2>1 DEF ErasedInv, VerifiedGone
    <3>. QED
      BY <3>1 DEF Gone, Swept
  <2>2. source.deletion = "deleted" =>
          /\ ~Residual /\ art = {}
          /\ \A v \in Versions :
                /\ ~version[v].there /\ staged[v] = <<>>
                /\ v \in faults.stuck \/ object[v] \notin Original
    BY DEF ErasedInv, DeletedGone, Swept
  <2>. QED
    BY <2>1, <2>2 DEF ErasedStaysErased
<1>. QED
  BY <1>1, <1>2, <1>3, PTL DEF SourcesSpec

=============================================================================
