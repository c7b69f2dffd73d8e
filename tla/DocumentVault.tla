---------------------------- MODULE DocumentVault ----------------------------
(***************************************************************************)
(* Upload, archive and download of documents: DocumentService              *)
(* (backend/app/services/documents.py) over the documents table and        *)
(* LocalStorageProvider (backend/app/storage/local.py).                    *)
(*                                                                         *)
(* An upload writes two stores that share no transaction: the binary, first*)
(* as a private staged file and then under its key, and the row.  Every    *)
(* upload makes a document id of its own, so it is named by its document.  *)
(* A file is its number of bytes.                                          *)
(***************************************************************************)
EXTENDS Naturals, FiniteSets, FiniteSetsExt

CONSTANTS
    Documents,
    Readers,    \* download requests
    MaxSize,    \* DOCUMENT_MAX_SIZE_BYTES
    ChunkSize,  \* UPLOAD_CHUNK_SIZE
    MaxSent,    \* bound: the longest file anybody sends
    Absent      \* no file

ASSUME SizesAssumption ==
    /\ MaxSize \in Nat \ {0} /\ ChunkSize \in Nat \ {0} /\ MaxSent \in Nat
    /\ Absent \notin 0..MaxSent

VARIABLES
    row,     \* document -> "none", "active" or "archived": the committed row
    size,    \* document -> file_size of that row
    object,  \* document -> the file published under its key
    staged,  \* document -> its staged file
    pc,      \* document -> how far its upload got
    sent,    \* document -> bytes in the body of the upload
    genuine, \* document -> those bytes are what extension and MIME type say
    got,     \* document -> bytes read so far (file_size)
    reply,   \* document -> HTTP status of the upload
    faults,  \* history: document -> faults after which something is left over
    reader   \* download request -> [doc, at, bytes]

upload == <<sent, genuine, got>>
vars == <<row, size, object, staged, pc, upload, reply, faults, reader>>

Sizes == 0..MaxSent
Files == Sizes \cup {Absent}
Unwinding == {"failing", "unpublishing", "discarding"}
Stages == {"reading", "complete", "published", "flushed"} \cup Unwinding

Goto(d, stage) == pc' = [pc EXCEPT ![d] = stage]
Replies(d, code) == reply' = [reply EXCEPT ![d] = code]
Blame(d, fault) == faults' = [faults EXCEPT ![d] = @ \cup {fault}]

-----------------------------------------------------------------------------
Init ==
    /\ row = [d \in Documents |-> "none"]
    /\ size = [d \in Documents |-> 0]
    /\ object = [d \in Documents |-> Absent]
    /\ staged = [d \in Documents |-> Absent]
    /\ pc = [d \in Documents |-> "idle"]
    /\ sent = [d \in Documents |-> 0]
    /\ genuine = [d \in Documents |-> FALSE]
    /\ got = [d \in Documents |-> 0]
    /\ reply = [d \in Documents |-> 0]
    /\ faults = [d \in Documents |-> {}]
    /\ reader = [r \in Readers |-> [at |-> "idle"]]

\* The name and the media type are accepted and the staged file is created, or not.
Stage(d, n, g) ==
    /\ pc[d] = "idle"
    /\ sent' = [sent EXCEPT ![d] = n]
    /\ genuine' = [genuine EXCEPT ![d] = g]
    /\ \/ /\ staged' = [staged EXCEPT ![d] = 0]
          /\ Goto(d, "reading")
          /\ UNCHANGED reply
       \/ \E code \in {415, 422, 500} : Replies(d, code) /\ Goto(d, "ended")
          /\ UNCHANGED staged
    /\ UNCHANGED <<row, size, object, got, faults, reader>>

\* Mutant: a read never asks for the byte that would be too much.
ReadSize_Exact(d) == Min({ChunkSize, MaxSize - got[d], sent[d] - got[d]})

\* Bytes the next read returns: it asks for one more than the limit leaves.
ReadSize(d) == Min({ChunkSize, MaxSize - got[d] + 1, sent[d] - got[d]})

\* One turn of the loop that is not the last.
ReadChunk(d) ==
    /\ pc[d] = "reading" /\ ReadSize(d) > 0
    /\ got' = [got EXCEPT ![d] = @ + ReadSize(d)]
    /\ IF got[d] + ReadSize(d) > MaxSize
       THEN Goto(d, "failing") /\ Replies(d, 413) /\ UNCHANGED staged
       ELSE /\ staged' = [staged EXCEPT ![d] = got[d] + ReadSize(d)]
            /\ UNCHANGED <<pc, reply>>
    /\ UNCHANGED <<row, size, object, sent, genuine, faults, reader>>

\* Mutant: an empty chunk does not end the loop.
ReadEnd_Continues(d) ==
    /\ pc[d] = "reading" /\ ReadSize(d) = 0
    /\ UNCHANGED vars

\* The empty chunk ends the loop.
ReadEnd(d) ==
    /\ pc[d] = "reading" /\ ReadSize(d) = 0
    /\ IF got[d] = 0
       THEN Goto(d, "failing") /\ Replies(d, 422)
       ELSE Goto(d, "complete") /\ UNCHANGED reply
    /\ UNCHANGED <<row, size, object, staged, upload, faults, reader>>

\* The staged file is checked, and moved to its key by one rename.
Publish(d) ==
    /\ pc[d] = "complete"
    /\ IF genuine[d]
       THEN /\ object' = [object EXCEPT ![d] = staged[d]]
            /\ staged' = [staged EXCEPT ![d] = Absent]
            /\ Goto(d, "published")
            /\ UNCHANGED reply
       ELSE Goto(d, "failing") /\ Replies(d, 415) /\ UNCHANGED <<object, staged>>
    /\ UNCHANGED <<row, size, upload, faults, reader>>

\* Reading, writing, checking or renaming the staged file fails.
StorageFails(d) ==
    /\ pc[d] \in {"reading", "complete"}
    /\ Goto(d, "failing") /\ Replies(d, 500)
    /\ UNCHANGED <<row, size, object, staged, upload, faults, reader>>

\* INSERT, in the transaction of the request.
Insert(d) ==
    /\ pc[d] = "published"
    /\ Goto(d, "flushed")
    /\ UNCHANGED <<row, size, object, staged, upload, reply, faults, reader>>

\* Mutant: the row is read again after the commit, and the failure of that is handled
\* as one of the commit.
Commit_Refreshes(d) ==
    /\ pc[d] = "flushed"
    /\ row' = [row EXCEPT ![d] = "active"]
    /\ size' = [size EXCEPT ![d] = got[d]]
    /\ \/ Goto(d, "discarding") /\ Replies(d, 201)
       \/ Goto(d, "failing") /\ Replies(d, 500)
    /\ UNCHANGED <<object, staged, upload, faults, reader>>

Commit(d) ==
    /\ pc[d] = "flushed"
    /\ row' = [row EXCEPT ![d] = "active"]
    /\ size' = [size EXCEPT ![d] = got[d]]
    /\ Goto(d, "discarding") /\ Replies(d, 201)
    /\ UNCHANGED <<object, staged, upload, faults, reader>>

\* INSERT or COMMIT fails.
DatabaseFails(d) ==
    /\ pc[d] \in {"published", "flushed"}
    /\ Goto(d, "failing") /\ Replies(d, 500)
    /\ UNCHANGED <<row, size, object, staged, upload, faults, reader>>

\* The database commits, and the connection is lost before it says so.
CommitUnsure(d) ==
    /\ pc[d] = "flushed"
    /\ row' = [row EXCEPT ![d] = "active"]
    /\ size' = [size EXCEPT ![d] = got[d]]
    /\ Goto(d, "failing") /\ Replies(d, 500) /\ Blame(d, "unsure")
    /\ UNCHANGED <<object, staged, upload, reader>>

\* Mutant: the cleanup is only for failures of the storage.
Rollback_KeepsObject(d) ==
    /\ pc[d] = "failing"
    /\ Goto(d, "discarding")
    /\ UNCHANGED <<row, size, object, staged, upload, reply, faults, reader>>

\* The handlers of upload() roll back first.
Rollback(d) ==
    /\ pc[d] = "failing"
    /\ Goto(d, IF object[d] # Absent THEN "unpublishing" ELSE "discarding")
    /\ UNCHANGED <<row, size, object, staged, upload, reply, faults, reader>>

\* A rollback that fails ends the handler: what is published stays.
RollbackFails(d) ==
    /\ pc[d] = "failing"
    /\ Goto(d, "discarding") /\ Replies(d, 500) /\ Blame(d, "rollback")
    /\ UNCHANGED <<row, size, object, staged, upload, reader>>

\* _cleanup_published.
Unpublish(d) ==
    /\ pc[d] = "unpublishing"
    /\ object' = [object EXCEPT ![d] = Absent]
    /\ Goto(d, "discarding")
    /\ UNCHANGED <<row, size, staged, upload, reply, faults, reader>>

UnpublishFails(d) ==
    /\ pc[d] = "unpublishing"
    /\ Goto(d, "discarding") /\ Blame(d, "unpublish")
    /\ UNCHANGED <<row, size, object, staged, upload, reply, reader>>

\* The finally clause; after a rename there is nothing to discard.
Discard(d) ==
    /\ pc[d] = "discarding"
    /\ staged' = [staged EXCEPT ![d] = Absent]
    /\ Goto(d, "ended")
    /\ UNCHANGED <<row, size, object, upload, reply, faults, reader>>

\* The unlink fails and is logged, or closing the file fails and the error, no
\* StorageError, replaces the answer.
DiscardFails(d) ==
    /\ pc[d] = "discarding" /\ staged[d] # Absent
    /\ Goto(d, "ended") /\ Blame(d, "discard")
    /\ \/ UNCHANGED reply
       \/ Replies(d, 500)
    /\ UNCHANGED <<row, size, object, staged, upload, reader>>

\* Mutant: the archive removes the binary.
Archive_Removes(d) ==
    /\ row[d] = "active"
    /\ row' = [row EXCEPT ![d] = "archived"]
    /\ object' = [object EXCEPT ![d] = Absent]
    /\ UNCHANGED <<size, staged, pc, upload, reply, faults, reader>>

\* DELETE of a document, by a request of its own.
Archive(d) ==
    /\ row[d] = "active"
    /\ row' = [row EXCEPT ![d] = "archived"]
    /\ UNCHANGED <<size, object, staged, pc, upload, reply, faults, reader>>

\* A download reads the row first ...
Locate(r, d) ==
    /\ reader[r].at = "idle" /\ row[d] # "none"
    /\ reader' = [reader EXCEPT ![r] = [at |-> "located", doc |-> d]]
    /\ UNCHANGED <<row, size, object, staged, pc, upload, reply, faults>>

\* ... and opens the file, whose length it announces.
Open(r) ==
    /\ reader[r].at = "located"
    /\ LET d == reader[r].doc IN
       reader' = [reader EXCEPT ![r] =
                    IF object[d] = Absent THEN [at |-> "missing", doc |-> d]
                    ELSE [at |-> "served", doc |-> d, bytes |-> object[d]]]
    /\ UNCHANGED <<row, size, object, staged, pc, upload, reply, faults>>

\* The process dies: nothing looks at the files it leaves.
Crash ==
    /\ \E d \in Documents : pc[d] \in Stages
    /\ pc' = [d \in Documents |-> IF pc[d] \in Stages THEN "cut" ELSE pc[d]]
    /\ faults' = [d \in Documents |->
                    faults[d] \cup IF pc[d] \in Stages THEN {"crash"} ELSE {}]
    /\ UNCHANGED <<row, size, object, staged, upload, reply, reader>>

\* One step of the upload of d without a fault.
Progress(d) ==
    \/ ReadChunk(d) \/ ReadEnd(d) \/ Publish(d) \/ Insert(d) \/ Commit(d)
    \/ Rollback(d) \/ Unpublish(d) \/ Discard(d)

Fault(d) ==
    \/ StorageFails(d) \/ DatabaseFails(d) \/ CommitUnsure(d)
    \/ RollbackFails(d) \/ UnpublishFails(d) \/ DiscardFails(d)

Next ==
    \/ \E d \in Documents :
          \/ \E n \in Sizes, g \in BOOLEAN : Stage(d, n, g)
          \/ Progress(d) \/ Fault(d) \/ Archive(d)
          \/ \E r \in Readers : Locate(r, d)
    \/ \E r \in Readers : Open(r)
    \/ Crash

Spec == Init /\ [][Next]_vars

\* The event loop runs every upload on: each await ends, with a result or an error.
FairSpec == Spec /\ \A d \in Documents : WF_vars(Progress(d))

-----------------------------------------------------------------------------
(* Properties *)

\* Every variable stays in its type.
TypeOK ==
    /\ row \in [Documents -> {"none", "active", "archived"}]
    /\ size \in [Documents -> Sizes] /\ got \in [Documents -> Sizes]
    /\ sent \in [Documents -> Sizes] /\ genuine \in [Documents -> BOOLEAN]
    /\ object \in [Documents -> Files] /\ staged \in [Documents -> Files]
    /\ \A d \in Documents : staged[d] # Absent => staged[d] <= MaxSize
    /\ pc \in [Documents -> Stages \cup {"idle", "ended", "cut"}]
    /\ reply \in [Documents -> {0, 201, 413, 415, 422, 500}]
    /\ faults \in [Documents ->
                     SUBSET {"unsure", "rollback", "unpublish", "discard", "crash"}]
    /\ \A r \in Readers :
          reader[r].at \in {"idle", "located", "missing", "served"}

\* What is published, and what a row records, is the whole file that was sent, never
\* a prefix cut at the size limit and never an empty or a forged one.
StoredWhole ==
    \A d \in Documents :
        /\ object[d] # Absent =>
              object[d] = sent[d] /\ sent[d] \in 1..MaxSize /\ genuine[d]
        /\ row[d] # "none" => size[d] = sent[d]

\* An upload that has ended leaves nothing behind but a document with both its row
\* and its binary, unless one of the cleaning steps has failed as well.
NothingLeftOver ==
    \A d \in Documents :
        pc[d] = "ended" /\ faults[d] = {} =>
            /\ staged[d] = Absent
            /\ object[d] # Absent <=> row[d] # "none"
            /\ reply[d] = 201 <=> row[d] # "none"

\* Every document that can be found can be downloaded as a whole, archived or not:
\* what a failed upload takes back is never the binary of a row, unless the outcome
\* of the commit was unknown.
Downloadable ==
    \A d \in Documents : "unsure" \notin faults[d] =>
        /\ row[d] # "none" => object[d] = size[d]
        /\ \A r \in Readers : reader[r].at \in {"missing", "served"} /\ reader[r].doc = d
              => reader[r].at = "served" /\ reader[r].bytes = size[d]

\* What is seen of an upload, of a row and of a download: a binary counts once there
\* is a row.
Body(d) == IF pc[d] = "idle" THEN Absent ELSE sent[d]
Told(d) == CASE reply[d] = 0   -> "pending"
             [] reply[d] = 201 -> "saved"
             [] OTHER          -> "refused"
File(d) == IF row[d] = "none" THEN Absent ELSE object[d]
InDoubt == {d \in Documents : "unsure" \in faults[d]}
Given(r) == CASE reader[r].at = "missing" -> {Absent}
              [] reader[r].at = "served"  -> {reader[r].bytes}
              [] OTHER                    -> {}

Store == INSTANCE DocumentStore WITH
    Bodies <- Sizes,
    Accepted <- 1..MaxSize,
    body   <- [d \in Documents |-> Body(d)],
    told   <- [d \in Documents |-> Told(d)],
    status <- row,
    file   <- [d \in Documents |-> File(d)],
    doubt  <- InDoubt,
    answer <- [r \in Readers |-> Given(r)]

\* Two stores without a common transaction act as one: whatever fails, an upload that
\* answers 201 has stored its whole file in a single step, one that answers with an
\* error has not, and downloads never meet a document half made or half removed,
\* apart from those whose commit went unanswered.
ImplementsStore == Store!Spec

\* Every upload that is read ends, whatever is sent, unless the process dies.
UploadEnds ==
    \A d \in Documents : pc[d] = "reading" ~> pc[d] \in {"ended", "cut"}
=============================================================================
