------------------------------ MODULE Workers ------------------------------
(***************************************************************************)
(* The worker threads of the backend process and everything that runs in   *)
(* them: PDF extractions (PdfOcr), DOCX extractions                        *)
(* (backend/app/documents/extractors/docx.py), the local embedding model   *)
(* (backend/app/ai/embeddings/local.py) and the calls of the vector store  *)
(* (backend/app/vector/qdrant.py), as extraction, indexing and search      *)
(* requests make them one after the other.                                 *)
(*                                                                         *)
(* A PDF extraction waits for the OCR lock and slots inside its thread. A  *)
(* request waits for the lock and the slots of the embedding model on the  *)
(* event loop, without a thread, and keeps them while its job waits for a  *)
(* thread.                                                                 *)
(***************************************************************************)
EXTENDS PdfOcr, Sequences

CONSTANTS
    Requests,      \* requests that extract a DOCX, index a document or search
    Threads,       \* workers of the default executor of asyncio.to_thread
    EmbedSlots,    \* EMBEDDING_MAX_CONCURRENCY
    Batches,       \* the most batches of chunks that a document to index has
    Fields         \* how many payload fields get an index, one after the other

ASSUME WorkersAssumption ==
    /\ IsFiniteSet(Requests) /\ Requests \cap Documents = {} /\ Nobody \notin Requests
    /\ {Threads, EmbedSlots} \subseteq Nat \ {0}
    /\ {Batches, Fields} \subseteq Nat

VARIABLES
    coming,      \* the documents and requests that there will be
    waiting,     \* jobs handed to the executor that no thread has taken
    busy,        \* jobs in a thread
    model,       \* _model is loaded
    loadLock,    \* holder of _load_lock
    embedSlots,  \* free slots of _semaphore
    collection,  \* "absent", "fit", or "unfit": of another shape, size or distance
    indexes,     \* payload fields of the collection that have an index
    missing,     \* fields without an index, as a request has read them
    todo,        \* calls that a request has yet to make
    at           \* where a request is

embedder == <<model, loadLock, embedSlots>>
store == <<collection, indexes>>
threads == <<waiting, busy>>
wvars == <<vars, coming, threads, embedder, store, missing, todo, at>>

Jobs == Documents \cup Requests

\* One job in a thread that succeeds or fails: a DOCX extraction ("parse"), or to
\* replace, count or query points ("points"); embed_texts or embed_query; ensure_collection.
Calls == {"parse", "points", "embed", "ensure"}

\* extract; search; index_document, with one embed_texts per batch of chunks.
Scripts ==
    {<<"parse">>, <<"ensure", "embed", "points">>} \cup
    {[i \in 1 .. n |-> "embed"] \o <<"ensure", "points", "points">> : n \in 0 .. Batches}

\* Where a request has a job in the executor.
InExecutor == {"working", "loading", "embedding", "checking", "creating", "getting",
               "indexing"}

WorkersInit ==
    /\ Init
    /\ coming \in SUBSET Jobs
    /\ waiting = {} /\ busy = {}
    /\ model = FALSE /\ loadLock = Nobody /\ embedSlots = EmbedSlots
    /\ collection \in {"absent", "fit", "unfit"}
    /\ indexes \in SUBSET (1 .. Fields) /\ (collection = "absent" => indexes = {})
    /\ missing = [r \in Requests |-> {}]
    /\ todo \in [Requests -> Scripts]
    /\ at = [r \in Requests |-> "idle"]

-----------------------------------------------------------------------------
(* Threads: asyncio.to_thread hands a job over, a free thread takes it *)

Submit(j) == waiting' = waiting \cup {j} /\ UNCHANGED busy

Take(j) ==
    /\ j \in waiting /\ Cardinality(busy) < Threads
    /\ waiting' = waiting \ {j}
    /\ busy' = busy \cup {j}
    /\ UNCHANGED <<vars, coming, embedder, store, missing, todo, at>>

\* The extraction of a PDF is requested.
Ask(d) ==
    /\ d \in coming \ (waiting \cup busy) /\ pc[d] = "idle"
    /\ Submit(d)
    /\ UNCHANGED <<vars, coming, embedder, store, missing, todo, at>>

\* A step of a PDF extraction in its thread, which is free when the extraction ends.
InThread(d, step) ==
    /\ d \in busy
    /\ step
    /\ busy' = IF pc'[d] = "ended" THEN busy \ {d} ELSE busy
    /\ UNCHANGED <<coming, waiting, embedder, store, missing, todo, at>>

Extract(d) == InThread(d, Open(d) \/ OpenFails(d) \/ Progress(d) \/ Fault(d))

TimePasses ==
    /\ Tick
    /\ UNCHANGED <<coming, threads, embedder, store, missing, todo, at>>

-----------------------------------------------------------------------------
(* Requests *)

Enter(r, step) == at' = [at EXCEPT ![r] = step]

Fail(r) == Enter(r, "failed")

\* The job of r is done, and so is the call that made it.
Return(r) ==
    /\ Enter(r, "calling")
    /\ todo' = [todo EXCEPT ![r] = Tail(@)]

Leave(r) == busy' = busy \ {r} /\ UNCHANGED waiting

Begin(r) ==
    /\ r \in coming /\ at[r] = "idle"
    /\ Enter(r, "calling")
    /\ UNCHANGED <<vars, coming, threads, embedder, store, missing, todo>>

Calling(r, call) == at[r] = "calling" /\ todo[r] # <<>> /\ Head(todo[r]) = call

\* Every call has returned.
Answer(r) ==
    /\ at[r] = "calling" /\ todo[r] = <<>>
    /\ Enter(r, "answered")
    /\ UNCHANGED <<vars, coming, threads, embedder, store, missing, todo>>

\* A DOCX is parsed, or points are replaced, counted or queried.
Work(r) ==
    /\ Calling(r, "parse") \/ Calling(r, "points")
    /\ Submit(r)
    /\ Enter(r, "working")
    /\ UNCHANGED <<vars, coming, embedder, store, missing, todo>>

WorkEndsWell(r) ==
    /\ at[r] = "working" /\ r \in busy
    /\ Leave(r) /\ Return(r)
    /\ UNCHANGED <<vars, coming, embedder, store, missing>>

\* DOCX_PARSE_ERROR, QDRANT_INDEXING_FAILED or QDRANT_SEARCH_FAILED; any call of
\* ensure_collection may fail too (QDRANT_UNAVAILABLE).
WorkFails(r) ==
    /\ at[r] \in {"working", "checking", "creating", "getting", "indexing"} /\ r \in busy
    /\ Leave(r) /\ Fail(r)
    /\ UNCHANGED <<vars, coming, embedder, store, missing, todo>>

-----------------------------------------------------------------------------
(* embed_texts and embed_query *)

\* _get_model: a loaded model is used without the lock.
GetModel(r) ==
    /\ Calling(r, "embed")
    /\ Enter(r, IF model THEN "slotting" ELSE "locking")
    /\ UNCHANGED <<vars, coming, threads, embedder, store, missing, todo>>

\* Mutant: whoever gets the lock loads.
TakeLoadLock_NoSecondCheck(r) ==
    /\ at[r] = "locking" /\ loadLock = Nobody
    /\ \/ Fail(r) /\ UNCHANGED <<threads, loadLock>>
       \/ loadLock' = r /\ Submit(r) /\ Enter(r, "loading")
    /\ UNCHANGED <<vars, coming, model, embedSlots, store, missing, todo>>

\* Whoever gets the lock looks again whether the model has been loaded, checks its
\* dimension, and loads it in a thread.
TakeLoadLock(r) ==
    /\ at[r] = "locking" /\ loadLock = Nobody
    /\ \/ model /\ Enter(r, "slotting") /\ UNCHANGED <<threads, loadLock>>
       \/ ~model /\ Fail(r) /\ UNCHANGED <<threads, loadLock>>
       \/ ~model /\ loadLock' = r /\ Submit(r) /\ Enter(r, "loading")
    /\ UNCHANGED <<vars, coming, model, embedSlots, store, missing, todo>>

LoadSucceeds(r) ==
    /\ at[r] = "loading" /\ r \in busy
    /\ model' = TRUE /\ loadLock' = Nobody
    /\ Leave(r) /\ Enter(r, "slotting")
    /\ UNCHANGED <<vars, coming, embedSlots, store, missing, todo>>

\* Nothing is remembered: the next request loads again.
LoadFails(r) ==
    /\ at[r] = "loading" /\ r \in busy
    /\ loadLock' = Nobody
    /\ Leave(r) /\ Fail(r)
    /\ UNCHANGED <<vars, coming, model, embedSlots, store, missing, todo>>

TakeSlot(r) ==
    /\ at[r] = "slotting" /\ embedSlots > 0
    /\ embedSlots' = embedSlots - 1
    /\ Submit(r) /\ Enter(r, "embedding")
    /\ UNCHANGED <<vars, coming, model, loadLock, store, missing, todo>>

EmbedSucceeds(r) ==
    /\ at[r] = "embedding" /\ r \in busy
    /\ embedSlots' = embedSlots + 1
    /\ Leave(r) /\ Return(r)
    /\ UNCHANGED <<vars, coming, model, loadLock, store, missing>>

\* Mutant: only a call that succeeds gives its slot back.
EmbedFails_KeepsSlot(r) ==
    /\ at[r] = "embedding" /\ r \in busy
    /\ Leave(r) /\ Fail(r)
    /\ UNCHANGED <<vars, coming, embedder, store, missing, todo>>

\* The model fails, or its vectors are not as many, as long or as finite as they should be.
EmbedFails(r) ==
    /\ at[r] = "embedding" /\ r \in busy
    /\ embedSlots' = embedSlots + 1
    /\ Leave(r) /\ Fail(r)
    /\ UNCHANGED <<vars, coming, model, loadLock, store, missing, todo>>

-----------------------------------------------------------------------------
(* ensure_collection: one call of the store after the other, in one thread *)

Ensure(r) ==
    /\ Calling(r, "ensure")
    /\ Submit(r) /\ Enter(r, "checking")
    /\ UNCHANGED <<vars, coming, embedder, store, missing, todo>>

Exists(r) ==
    /\ at[r] = "checking" /\ r \in busy
    /\ Enter(r, IF collection = "absent" THEN "creating" ELSE "getting")
    /\ UNCHANGED <<vars, coming, threads, embedder, store, missing, todo>>

\* A collection that another request has created in the meantime is an error, and
\* one that is created may still be reported as a failure.
Create(r) ==
    /\ at[r] = "creating" /\ r \in busy
    /\ IF collection = "absent"
       THEN /\ collection' = "fit"
            /\ \/ Enter(r, "getting") /\ UNCHANGED threads
               \/ Leave(r) /\ Fail(r)
       ELSE Leave(r) /\ Fail(r) /\ UNCHANGED collection
    /\ UNCHANGED <<vars, coming, embedder, indexes, missing, todo>>

\* Mutant: a collection that exists is taken to have its indexes.
Get_NoIndexes(r) ==
    /\ at[r] = "getting" /\ r \in busy
    /\ IF collection = "fit" /\ indexes = {}
       THEN /\ missing' = [missing EXCEPT ![r] = 1 .. Fields]
            /\ Enter(r, "indexing") /\ UNCHANGED <<threads, todo>>
       ELSE /\ Leave(r) /\ UNCHANGED missing
            /\ IF collection = "fit" THEN Return(r) ELSE Fail(r) /\ UNCHANGED todo
    /\ UNCHANGED <<vars, coming, embedder, store>>

\* The collection is there. One of another shape is never touched.
Get(r) ==
    /\ at[r] = "getting" /\ r \in busy
    /\ IF collection = "fit"
       THEN /\ missing' = [missing EXCEPT ![r] = (1 .. Fields) \ indexes]
            /\ Enter(r, "indexing") /\ UNCHANGED threads
       ELSE Leave(r) /\ Fail(r) /\ UNCHANGED missing
    /\ UNCHANGED <<vars, coming, embedder, store, todo>>

CreateIndex(r) ==
    /\ at[r] = "indexing" /\ r \in busy
    /\ \E field \in missing[r] :
        /\ \A other \in missing[r] : field <= other
        /\ indexes' = indexes \cup {field}
        /\ missing' = [missing EXCEPT ![r] = @ \ {field}]
    /\ UNCHANGED <<vars, coming, threads, embedder, collection, todo, at>>

Ensured(r) ==
    /\ at[r] = "indexing" /\ r \in busy /\ missing[r] = {}
    /\ Leave(r) /\ Return(r)
    /\ UNCHANGED <<vars, coming, embedder, store, missing>>

-----------------------------------------------------------------------------
\* What a request does on its own, and how its jobs end.
Proceed(r) ==
    \/ Answer(r) \/ Work(r) \/ GetModel(r) \/ TakeLoadLock(r) \/ TakeSlot(r) \/ Ensure(r)

JobStep(r) ==
    \/ WorkEndsWell(r) \/ WorkFails(r) \/ LoadSucceeds(r) \/ LoadFails(r)
    \/ EmbedSucceeds(r) \/ EmbedFails(r) \/ Exists(r) \/ Create(r) \/ Get(r)
    \/ CreateIndex(r) \/ Ensured(r)

WorkersNext ==
    \/ \E d \in Documents : Ask(d) \/ Extract(d)
    \/ \E r \in Requests : Begin(r) \/ Proceed(r) \/ JobStep(r)
    \/ \E j \in Jobs : Take(j)
    \/ TimePasses

WorkersSpec == WorkersInit /\ [][WorkersNext]_wvars

\* The event loop, the threads and the clock go on; the model, the vector store and
\* the parsers answer or fail; a page that is rendered is rendered in the end. A
\* probe or a recognition of the OCR engine need not answer before it is stopped.
WorkersFairness ==
    /\ WF_wvars(TimePasses)
    /\ \A j \in Jobs : WF_wvars(Take(j))
    /\ \A r \in Requests : WF_wvars(Proceed(r)) /\ WF_wvars(JobStep(r))
    /\ \A d \in Documents :
        /\ WF_wvars(InThread(d, Open(d) \/ OpenFails(d)))
        /\ WF_wvars(InThread(d, Progress(d)) /\ pc[d] \notin {"probing", "recognizing"})
        /\ WF_wvars(InThread(d, ProbeFails(d) \/ RecognizeFails(d)) /\ timer[d] = 0)

FairWorkersSpec == WorkersSpec /\ WorkersFairness

-----------------------------------------------------------------------------
(* Properties *)

Embedding == {r \in Requests : at[r] = "embedding"}

\* Types, and what the locks, slots and threads are for: a job is in the executor
\* while its owner awaits it, there are never more at work than threads, and the
\* locks and slots of the model and of the OCR engine belong to those who use them.
WorkersTypeOK ==
    /\ TypeOK
    /\ coming \subseteq Jobs /\ waiting \subseteq Jobs /\ busy \subseteq Jobs
    /\ waiting \cap busy = {} /\ Cardinality(busy) <= Threads
    /\ \A d \in Documents :
        /\ d \in waiting => pc[d] = "idle"
        /\ d \in busy => pc[d] # "ended"
        /\ pc[d] \notin {"idle", "ended"} => d \in busy
    /\ \A r \in Requests : at[r] \in InExecutor <=> r \in waiting \cup busy
    /\ model \in BOOLEAN /\ loadLock \in Requests \cup {Nobody}
    /\ \A r \in Requests : at[r] = "loading" <=> loadLock = r
    /\ embedSlots = EmbedSlots - Cardinality(Embedding) /\ embedSlots >= 0
    /\ collection \in {"absent", "fit", "unfit"} /\ indexes \subseteq 1 .. Fields
    /\ missing \in [Requests -> SUBSET (1 .. Fields)]
    /\ todo \in [Requests -> Seq(Calls)]

\* The model is never loaded a second time over the one in use, however many first
\* requests wait for it.
LoadedOnce == \A r \in Requests : at[r] = "loading" => ~model

\* A request that has ensured the collection finds one that fits, with every index,
\* whoever created it and whatever failed on the way.
CollectionReady ==
    \A r \in Requests :
        /\ at[r] # "failed"
        /\ "points" \in {todo[r][i] : i \in DOMAIN todo[r]}
        /\ "ensure" \notin {todo[r][i] : i \in DOMAIN todo[r]}
        => collection = "fit" /\ indexes = 1 .. Fields

Unfinished ==
    \/ waiting \cup busy # {}
    \/ \E r \in Requests : at[r] \notin {"idle", "answered", "failed"}

\* PDFs whose thread waits for the OCR lock or for an OCR slot that others have.
Blocked ==
    {d \in Documents : \/ pc[d] = "locking" /\ lock # Nobody
                       \/ pc[d] = "queueing" /\ slots = 0 /\ timer[d] > 0}

\* Threads, two locks and two kinds of slots are waited for, in threads and without
\* one, and never in a circle: as long as something is unfinished, a thread has a
\* job that does not wait, or a free thread can take one, or a request can go on.
NoDeadlock ==
    Unfinished =>
        \/ busy \ Blocked # {}
        \/ waiting # {} /\ Cardinality(busy) < Threads
        \/ \E r \in Requests :
              \/ at[r] = "calling"
              \/ at[r] = "locking" /\ loadLock = Nobody
              \/ at[r] = "slotting" /\ embedSlots > 0

\* Every extraction that is asked for ends and every request is answered: nobody waits
\* for ever for a thread, for a lock or for a slot, whatever fails.
WorkEnds ==
    /\ \A d \in Documents : d \in waiting ~> pc[d] = "ended"
    /\ \A r \in Requests : at[r] = "calling" ~> at[r] \in {"answered", "failed"}
=============================================================================
