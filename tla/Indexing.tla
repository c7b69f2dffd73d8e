------------------------------ MODULE Indexing ------------------------------
(***************************************************************************)
(* The semantic index of one document: DocumentIndexingService.index       *)
(* (backend/app/services/indexing.py), the document_indexes row, the       *)
(* document_chunks rows and the points in Qdrant.  IndexSearch adds the    *)
(* search that joins all three.                                            *)
(*                                                                         *)
(* PostgreSQL and Qdrant share no transaction.  One action is one commit,  *)
(* one Qdrant request, or what happens between two awaits.  A text stands  *)
(* for itself and for its SHA-256.                                         *)
(***************************************************************************)
EXTENDS Naturals, FiniteSets

CONSTANTS
    Requests,     \* POST .../index requests
    Texts,        \* texts the extraction may hold
    NoText,       \* there is no completed extraction; also: no hash yet
    ChunkCount,   \* text -> how many chunks the chunker cuts it into
    UpsertBatch,  \* points per upsert (QDRANT_UPSERT_BATCH_SIZE)
    ErrorCodes,   \* codes of a recorded failure
    NoError       \* NULL error_code

ASSUME ConstantsAssumption ==
    /\ NoText \notin Texts
    /\ ChunkCount \in [Texts -> Nat]
    /\ UpsertBatch \in Nat \ {0}
    /\ NoError \notin ErrorCodes

VARIABLES
    extracted,  \* text of the completed document_extractions row, or NoText
    row,        \* the committed document_indexes row
    chunks,     \* the committed document_chunks rows
    points,     \* the points of the document in Qdrant
    session,    \* request -> its ORM copy of the row
    text,       \* request -> the extraction text it loaded when it started
    old,        \* request -> the chunk rows its DELETE has found
    sent,       \* request -> how many of its points it has upserted
    pc,         \* request -> how far index() got
    overlap     \* history: two requests were past the status check at once

jobs == <<session, text, old, sent, pc>>
vars == <<extracted, row, chunks, points, session, text, old, sent, pc, overlap>>

InProgress == {"PENDING", "PROCESSING"}
Statuses == InProgress \cup {"ABSENT", "COMPLETED", "FAILED"}

Rows == [status : Statuses, count : Nat, source : Texts \cup {NoText},
         error : ErrorCodes \cup {NoError}]

NoRow == [status |-> "ABSENT", count |-> 0, source |-> NoText, error |-> NoError]

\* What the row is created with, and what _reset makes of an old one.
PendingRow(t) == [status |-> "PENDING", count |-> 0, source |-> t, error |-> NoError]

\* A chunk row, and the point that carries its id and payload: the id (UUID)
\* is fresh in each attempt, hence the request and the index; a point's text is
\* its extraction_sha256 payload.
Chunks == [by : Requests, index : Nat, text : Texts]

Cut(r, t, first, last) ==
    {[by |-> r, index |-> i, text |-> t] : i \in (first + 1)..last}

\* The chunks request r generates from the text it loaded.
Generated(r) == Cut(r, text[r], 0, ChunkCount[text[r]])

Least(a, b) == IF a < b THEN a ELSE b

Indexers == {"working", "replacing", "embedding", "clearing", "upserting", "verified"}
Busy == {"prepare", "claimed", "committed", "failing", "recording"} \cup Indexers
Ended == {"returned", "conflict", "refused", "completed", "failed", "abandoned"}

Goto(r, stage) == pc' = [pc EXCEPT ![r] = stage]

-----------------------------------------------------------------------------
(* The ORM writes only the attributes that differ from the session's copy. *)

Column(current, loaded, new) == IF new = loaded THEN current ELSE new

Flush(current, loaded, new) ==
    [status |-> Column(current.status, loaded.status, new.status),
     count  |-> Column(current.count, loaded.count, new.count),
     source |-> Column(current.source, loaded.source, new.source),
     error  |-> Column(current.error, loaded.error, new.error)]

Save(r, new) ==
    /\ row' = Flush(row, session[r], new)
    /\ session' = [session EXCEPT ![r] = new]

-----------------------------------------------------------------------------
Init ==
    /\ extracted = NoText
    /\ row = NoRow
    /\ chunks = {} /\ points = {}
    /\ session = [r \in Requests |-> NoRow]
    /\ text = [r \in Requests |-> NoText]
    /\ old = [r \in Requests |-> {}]
    /\ sent = [r \in Requests |-> 0]
    /\ pc = [r \in Requests |-> "idle"]
    /\ overlap = FALSE

\* Extraction requests complete, replace or lose the text at any time.
ExtractionChanges ==
    /\ extracted' \in Texts \cup {NoText}
    /\ extracted' # extracted
    /\ UNCHANGED <<row, chunks, points, jobs, overlap>>

\* The request arrives and reads the extraction: 409 unless it is completed.
ReadExtraction(r) ==
    /\ pc[r] = "idle"
    /\ IF extracted = NoText
       THEN Goto(r, "conflict") /\ UNCHANGED text
       ELSE Goto(r, "loaded") /\ text' = [text EXCEPT ![r] = extracted]
    /\ UNCHANGED <<extracted, row, chunks, points, session, old, sent, overlap>>

IsCurrent(i, t) == i.status = "COMPLETED" /\ i.source = t

\* Mutant: no conflict with a request in progress.
Decision_NoConflict(i, t) == IF IsCurrent(i, t) THEN "returned" ELSE "prepare"

Decision(i, t) == CASE IsCurrent(i, t) -> "returned"
                    [] i.status \in InProgress -> "conflict"
                    [] OTHER -> "prepare"

\* Then it reads the index row and decides.
ReadIndex(r) ==
    /\ pc[r] = "loaded"
    /\ session' = [session EXCEPT ![r] = row]
    /\ Goto(r, Decision(row, text[r]))
    /\ overlap' = (overlap \/ /\ Decision(row, text[r]) = "prepare"
                              /\ \E o \in Requests : pc[o] \in Busy)
    /\ UNCHANGED <<extracted, row, chunks, points, text, old, sent>>

\* No row was seen: INSERT a pending one.  UNIQUE(document_id) refuses a second.
Create(r) ==
    /\ pc[r] = "prepare"
    /\ session[r].status = "ABSENT"
    /\ IF row.status = "ABSENT"
       THEN /\ row' = PendingRow(text[r])
            /\ session' = [session EXCEPT ![r] = PendingRow(text[r])]
            /\ Goto(r, "claimed")
       ELSE /\ Goto(r, "refused")
            /\ UNCHANGED <<row, session>>
    /\ UNCHANGED <<extracted, chunks, points, text, old, sent, overlap>>

\* Mutant: a stale completed index stays completed while it is replaced.
Reset_KeepsCompleted(r) ==
    /\ pc[r] = "prepare"
    /\ session[r].status # "ABSENT"
    /\ Save(r, [PendingRow(text[r]) EXCEPT !.status = session[r].status])
    /\ Goto(r, "claimed")
    /\ UNCHANGED <<extracted, chunks, points, text, old, sent, overlap>>

\* A row was seen: reset it, without looking at it again.
Reset(r) ==
    /\ pc[r] = "prepare"
    /\ session[r].status # "ABSENT"
    /\ Save(r, PendingRow(text[r]))
    /\ Goto(r, "claimed")
    /\ UNCHANGED <<extracted, chunks, points, text, old, sent, overlap>>

StartWork(r) ==
    /\ pc[r] = "claimed"
    /\ Save(r, [session[r] EXCEPT !.status = "PROCESSING"])
    /\ Goto(r, "working")
    /\ UNCHANGED <<extracted, chunks, points, text, old, sent, overlap>>

\* Either of the two writes before the work fails: 500, nothing is recorded.
PrepareFails(r) ==
    /\ pc[r] \in {"prepare", "claimed"}
    /\ Goto(r, IF pc[r] = "claimed" THEN "abandoned" ELSE "refused")
    /\ UNCHANGED <<extracted, row, chunks, points, session, text, old, sent,
                   overlap>>

\* Chunking done, the DELETE of the old chunk rows runs: it will remove the rows
\* committed before it, not those another transaction commits meanwhile.
DeleteChunks(r) ==
    /\ pc[r] = "working"
    /\ old' = [old EXCEPT ![r] = chunks]
    /\ Goto(r, "replacing")
    /\ UNCHANGED <<extracted, row, chunks, points, session, text, sent, overlap>>

\* Mutant: no such constraint but that of the primary key.
Collides_Never(kept, new) == kept \cap new # {}

\* UNIQUE(document_id, chunk_index) between rows that stay and rows to insert.
Collides(kept, new) == \E c \in kept, d \in new : c.index = d.index

\* The INSERTs and the commit.  A collision fails the flush, after which the
\* handler's own `document.id` raises before _record_failure is called.
InsertChunks(r) ==
    /\ pc[r] = "replacing"
    /\ LET kept == chunks \ old[r]
       IN IF Collides(kept, Generated(r))
          THEN Goto(r, "abandoned") /\ UNCHANGED chunks
          ELSE Goto(r, "embedding") /\ chunks' = kept \cup Generated(r)
    /\ old' = [old EXCEPT ![r] = {}]
    /\ UNCHANGED <<extracted, row, points, session, text, sent, overlap>>

\* Every batch is embedded and the collection exists.
Embed(r) ==
    /\ pc[r] = "embedding"
    /\ Goto(r, "clearing")
    /\ UNCHANGED <<extracted, row, chunks, points, session, text, old, sent,
                   overlap>>

\* replace_document_points deletes every point of the document,
ClearPoints(r) ==
    /\ pc[r] = "clearing"
    /\ points' = {}
    /\ Goto(r, "upserting")
    /\ UNCHANGED <<extracted, row, chunks, session, text, old, sent, overlap>>

\* and upserts its own batch by batch.
UpsertPoints(r) ==
    /\ pc[r] = "upserting"
    /\ sent[r] < ChunkCount[text[r]]
    /\ LET upto == Least(sent[r] + UpsertBatch, ChunkCount[text[r]])
       IN /\ points' = points \cup Cut(r, text[r], sent[r], upto)
          /\ sent' = [sent EXCEPT ![r] = upto]
    /\ UNCHANGED <<extracted, row, chunks, session, text, old, pc, overlap>>

\* The exact count of the document's points must be that of the chunks.
CountPoints(r) ==
    /\ pc[r] = "upserting"
    /\ sent[r] = ChunkCount[text[r]]
    /\ Goto(r, IF Cardinality(points) = ChunkCount[text[r]] THEN "verified"
                                                            ELSE "recording")
    /\ UNCHANGED <<extracted, row, chunks, points, session, text, old, sent,
                   overlap>>

Complete(r) ==
    /\ pc[r] = "verified"
    /\ Save(r, [session[r] EXCEPT !.status = "COMPLETED", !.error = NoError,
                                  !.count = ChunkCount[text[r]]])
    /\ Goto(r, "committed")
    /\ UNCHANGED <<extracted, chunks, points, text, old, sent, overlap>>

\* The refresh after the commit succeeds: 200, with the row as it is by now.
Reply(r) ==
    /\ pc[r] = "committed"
    /\ session' = [session EXCEPT ![r] = row]
    /\ Goto(r, "completed")
    /\ UNCHANGED <<extracted, row, chunks, points, text, old, sent, overlap>>

\* The chunker, the embedding model or Qdrant raises: a failure will be recorded.
\* No transaction is open, so _record_failure rolls nothing back and expires nothing,
\* and the row it reads is the copy the session already has.
WorkFails(r) ==
    /\ pc[r] \in {"working", "embedding", "clearing", "upserting"}
    /\ Goto(r, "recording")
    /\ UNCHANGED <<extracted, row, chunks, points, session, text, old, sent,
                   overlap>>

\* The DELETE, a commit or the final refresh raises: the same, but the rollback ends
\* a transaction and expires the copy.
TransactionFails(r) ==
    /\ pc[r] \in {"working", "replacing", "verified", "committed"}
    /\ Goto(r, "failing")
    /\ UNCHANGED <<extracted, row, chunks, points, session, text, old, sent,
                   overlap>>

\* A flush raises and takes the handler with it, as in InsertChunks.
SaveFails(r) ==
    /\ pc[r] \in {"replacing", "verified"}
    /\ Goto(r, "abandoned")
    /\ UNCHANGED <<extracted, row, chunks, points, session, text, old, sent,
                   overlap>>

\* _record_failure after a rollback that expired the copy: read the row again,
ReadForFailure(r) ==
    /\ pc[r] = "failing"
    /\ session' = [session EXCEPT ![r] = row]
    /\ Goto(r, "recording")
    /\ UNCHANGED <<extracted, row, chunks, points, text, old, sent, overlap>>

\* Mutant: the error is stored, the status is not.
RecordFailure_KeepsStatus(r) ==
    /\ pc[r] = "recording"
    /\ \E code \in ErrorCodes :
          Save(r, [session[r] EXCEPT !.count = 0, !.error = code])
    /\ Goto(r, "failed")
    /\ UNCHANGED <<extracted, chunks, points, text, old, sent, overlap>>

\* then save it as failed.
RecordFailure(r) ==
    /\ pc[r] = "recording"
    /\ \E code \in ErrorCodes :
          Save(r, [session[r] EXCEPT !.status = "FAILED", !.count = 0,
                                     !.error = code])
    /\ Goto(r, "failed")
    /\ UNCHANGED <<extracted, chunks, points, text, old, sent, overlap>>

RecordFailureFails(r) ==
    /\ pc[r] \in {"failing", "recording"}
    /\ Goto(r, "abandoned")
    /\ UNCHANGED <<extracted, row, chunks, points, session, text, old, sent,
                   overlap>>

\* Where a request ends when the process dies under it.
AfterCrash(stage) ==
    CASE stage \in {"loaded", "prepare"} -> "refused"
      [] stage \in Indexers \cup {"claimed", "failing", "recording"} -> "abandoned"
      [] stage = "committed" -> "completed"
      [] OTHER -> stage

\* The server process is killed and restarted.  Start-up looks at no row.
Crash ==
    /\ \E r \in Requests : pc[r] \in Busy \cup {"loaded"}
    /\ pc' = [r \in Requests |-> AfterCrash(pc[r])]
    /\ UNCHANGED <<extracted, row, chunks, points, session, text, old, sent,
                   overlap>>

-----------------------------------------------------------------------------
Progress(r) ==
    \/ ReadIndex(r)
    \/ Create(r)
    \/ Reset(r)
    \/ StartWork(r)
    \/ DeleteChunks(r)
    \/ InsertChunks(r)
    \/ Embed(r)
    \/ ClearPoints(r)
    \/ UpsertPoints(r)
    \/ CountPoints(r)
    \/ Complete(r)
    \/ Reply(r)
    \/ ReadForFailure(r)
    \/ RecordFailure(r)

Fault(r) ==
    \/ PrepareFails(r)
    \/ WorkFails(r)
    \/ TransactionFails(r)
    \/ SaveFails(r)
    \/ RecordFailureFails(r)

Next ==
    \/ \E r \in Requests : ReadExtraction(r) \/ Progress(r) \/ Fault(r)
    \/ ExtractionChanges
    \/ Crash

Spec == Init /\ [][Next]_vars

\* The event loop resumes every request whose database, model or Qdrant call has
\* answered.  Nothing else need happen.
FairSpec == Spec /\ \A r \in Requests : WF_vars(Progress(r))

\* The same requests when none is started while another is past its check.
SerialSpec == Init /\ [][Next /\ ~overlap']_vars

-----------------------------------------------------------------------------
(* Properties *)

\* Every variable stays in its type.
TypeOK ==
    /\ extracted \in Texts \cup {NoText}
    /\ row \in Rows
    /\ chunks \subseteq Chunks /\ points \subseteq Chunks
    /\ session \in [Requests -> Rows]
    /\ text \in [Requests -> Texts \cup {NoText}]
    /\ old \in [Requests -> SUBSET Chunks]
    /\ sent \in [Requests -> Nat]
    /\ pc \in [Requests -> {"idle", "loaded"} \cup Busy \cup Ended]
    /\ overlap \in BOOLEAN

\* A request that is still going to write the row's final status.
Owns(r) ==
    \/ pc[r] \in {"claimed", "failing"} \cup Indexers
    \/ pc[r] = "recording" /\ session[r].status # "FAILED"

\* A row in progress has a request at work on it, or one that a crash or a
\* failed write cut off: stale ORM copies alone never strand it.
InProgressIsOwned ==
    row.status \in InProgress =>
        \E r \in Requests : Owns(r) \/ pc[r] = "abandoned"

AtWork(r) == pc[r] \in {"claimed"} \cup Indexers

\* Two requests are only ever at work on the index at once after the work of a
\* third has ended: the first attempt is exclusive.
FirstAttemptExclusive ==
    (\E r, s \in Requests : r # s /\ AtWork(r) /\ AtWork(s)) =>
        \E e \in Requests : pc[e] \in {"committed", "failing", "recording",
                                       "completed", "failed", "abandoned"}

\* However replacements interleave, the chunk rows are at all times those of
\* one attempt, all of them: never a mixture and never a part.
ChunksAreOneAttempt ==
    chunks = {} \/ \E r \in Requests : text[r] # NoText /\ chunks = Generated(r)

\* The chunks and points behind a completed index: every chunk of the text it
\* names is stored, counted and can be found, and there are no other points.
IndexComplete ==
    row.status = "COMPLETED" =>
        /\ points = chunks
        /\ \A c \in chunks : c.text = row.source
        /\ Cardinality(chunks) = ChunkCount[row.source]
        /\ row.count = ChunkCount[row.source]

\* It holds through every fault, restart, retry and change of the extraction, as
\* long as requests for the document come one at a time.
SerialIndexComplete == ~overlap => IndexComplete

\* A row in progress leaves that state, unless a request was cut off.
InProgressSettles ==
    (row.status \in InProgress) ~>
        (row.status \notin InProgress \/ \E r \in Requests : pc[r] = "abandoned")

-----------------------------------------------------------------------------
(* Refinement *)

\* The row is completed and no request can still record a failure over it.
Final ==
    /\ row.status = "COMPLETED"
    /\ \A r \in Requests : pc[r] \notin {"committed", "failing", "recording"}

Promise == INSTANCE Lifecycle
    WITH status <- row.status, final <- Final, Renewable <- TRUE

\* Requests that come one at a time take the row through its documented
\* lifecycle, whatever fails: each step of theirs is one of Lifecycle's.
ImplementsLifecycle == Promise!Spec
=============================================================================
