-------------------------- MODULE DocumentVaultProofs --------------------------
(***************************************************************************)
(* Proofs about DocumentVault, for any documents, readers, sizes and chunks.*)
(***************************************************************************)
EXTENDS DocumentVault, TLAPS

Whole(d) == object[d] = sent[d] /\ sent[d] \in 1..MaxSize /\ genuine[d]

\* What holds of the two stores and of the answer at each stage of the upload of d.
Staging(d) ==
    pc[d] \in {"idle", "reading", "complete"} =>
        /\ row[d] = "none" /\ object[d] = Absent /\ faults[d] = {} /\ reply[d] # 201
        /\ got[d] <= sent[d]
        /\ pc[d] = "idle" => staged[d] = Absent /\ got[d] = 0
        /\ pc[d] \in {"reading", "complete"} => staged[d] = got[d] /\ got[d] <= MaxSize
        /\ pc[d] = "complete" => got[d] = sent[d] /\ got[d] > 0

Saving(d) ==
    pc[d] \in {"published", "flushed"} =>
        /\ row[d] = "none" /\ faults[d] = {} /\ reply[d] # 201
        /\ Whole(d) /\ staged[d] = Absent /\ got[d] = sent[d]

Unwound(d) ==
    /\ pc[d] \in {"failing", "unpublishing"} =>
          /\ faults[d] \subseteq {"unsure"} /\ reply[d] # 201
          /\ row[d] # "none" => "unsure" \in faults[d]
    /\ pc[d] = "unpublishing" => object[d] # Absent
    /\ pc[d] \in {"discarding", "ended"} /\ faults[d] = {} =>
          /\ object[d] # Absent <=> row[d] # "none"
          /\ reply[d] = 201 <=> row[d] # "none"
          /\ pc[d] = "ended" => staged[d] = Absent

\* The answer is decided where the row is, and not changed to or from success later.
Answered(d) ==
    /\ pc[d] \in {"idle", "reading", "complete", "published", "flushed"} => reply[d] = 0
    /\ pc[d] \in {"failing", "unpublishing"} => reply[d] \notin {0, 201}
    /\ pc[d] = "discarding" => reply[d] # 0 /\ (staged[d] # Absent => reply[d] # 201)

\* What holds of a document at every stage.
Kept(d) ==
    /\ object[d] # Absent => Whole(d)
    /\ row[d] # "none" => size[d] = sent[d]
    /\ row[d] # "none" /\ "unsure" \notin faults[d] => object[d] # Absent

DocumentInv(d) == Staging(d) /\ Saving(d) /\ Unwound(d) /\ Answered(d) /\ Kept(d)

\* A download has found a row, and what it serves is that row's binary.
ReaderInv(r) ==
    reader[r].at # "idle" =>
        /\ reader[r].doc \in Documents
        /\ row[reader[r].doc] # "none"
        /\ "unsure" \notin faults[reader[r].doc] =>
              /\ reader[r].at # "missing"
              /\ reader[r].at = "served" => reader[r].bytes = size[reader[r].doc]

ReaderType ==
    [at : {"idle"}] \cup [at : {"located", "missing"}, doc : Documents]
        \cup [at : {"served"}, doc : Documents, bytes : Sizes]

\* The inductive invariant.
VaultInv ==
    /\ TypeOK
    /\ reader \in [Readers -> ReaderType]
    /\ \A d \in Documents : DocumentInv(d)
    /\ \A r \in Readers : ReaderInv(r)

-----------------------------------------------------------------------------
\* What one read of the upload returns: nothing exactly at the end of the body, and
\* at most one byte beyond the limit.
LEMMA ReadSizeBounds ==
    ASSUME NEW d \in Documents, got[d] \in Nat, sent[d] \in Nat,
           got[d] <= sent[d], got[d] <= MaxSize
    PROVE  /\ ReadSize(d) \in Nat
           /\ ReadSize(d) <= sent[d] - got[d]
           /\ ReadSize(d) = 0 <=> got[d] = sent[d]
<1> DEFINE S == {ChunkSize, MaxSize - got[d] + 1, sent[d] - got[d]}
<1>1. S \subseteq Nat
    BY SizesAssumption
<1>2. \E m \in S : \A x \in S : m <= x
    BY SizesAssumption
<1>3. ReadSize(d) \in S /\ \A x \in S : ReadSize(d) <= x
    BY <1>2 DEF ReadSize, Min
<1> QED
    BY <1>1, <1>3, SizesAssumption

\* Nothing has been uploaded or asked for.
LEMMA InitInv == Init => VaultInv
<1> SUFFICES ASSUME Init PROVE VaultInv
    OBVIOUS
<1>1. TypeOK /\ reader \in [Readers -> ReaderType]
    BY SizesAssumption DEF Init, TypeOK, Sizes, Files, Stages, ReaderType
<1>2. ASSUME NEW d \in Documents PROVE DocumentInv(d)
    BY SizesAssumption
       DEF Init, DocumentInv, Staging, Saving, Unwound, Answered, Kept, Sizes
<1>3. ASSUME NEW r \in Readers PROVE ReaderInv(r)
    BY DEF Init, ReaderInv
<1> QED
    BY <1>1, <1>2, <1>3 DEF VaultInv

\* What is left of the invariant when a step concerns one document only: its type,
\* its document, and that its row stays and its faults are kept.
LEMMA OneDocument ==
    ASSUME VaultInv, NEW d \in Documents, TypeOK', UNCHANGED reader,
           \A e \in Documents \ {d} :
               /\ UNCHANGED <<row[e], size[e], object[e], staged[e], pc[e]>>
               /\ UNCHANGED <<sent[e], genuine[e], got[e], reply[e], faults[e]>>,
           DocumentInv(d)',
           row[d] # "none" => row'[d] # "none" /\ size'[d] = size[d],
           faults[d] \subseteq faults'[d]
    PROVE  VaultInv'
<1>1. ASSUME NEW e \in Documents PROVE DocumentInv(e)'
    <2>1. CASE e = d
        BY <2>1
    <2>2. CASE e # d
        <3>1. DocumentInv(e)
            BY DEF VaultInv
        <3> QED
            BY <2>2, <3>1 DEF DocumentInv, Staging, Saving, Unwound, Answered, Kept,
               Whole
    <2> QED
        BY <2>1, <2>2
<1>2. ASSUME NEW r \in Readers PROVE ReaderInv(r)'
    BY DEF VaultInv, ReaderInv
<1> QED
    BY <1>1, <1>2 DEF VaultInv

\* Reading the body keeps the invariant.
LEMMA ReadingInv ==
    ASSUME VaultInv, NEW d \in Documents, ReadChunk(d) \/ ReadEnd(d)
    PROVE  VaultInv'
<1> USE SizesAssumption
<1>1. /\ got[d] \in Sizes /\ sent[d] \in Sizes
      /\ got[d] <= sent[d] /\ got[d] <= MaxSize /\ staged[d] = got[d]
      /\ DocumentInv(d)
    BY DEF VaultInv, TypeOK, DocumentInv, Staging, ReadChunk, ReadEnd
<1>2. /\ ReadSize(d) \in Nat /\ ReadSize(d) <= sent[d] - got[d]
      /\ ReadSize(d) = 0 <=> got[d] = sent[d]
    BY <1>1, ReadSizeBounds DEF Sizes
<1>3. got[d] + ReadSize(d) \in Sizes /\ got[d] + ReadSize(d) <= sent[d]
    BY <1>1, <1>2 DEF Sizes
<1>4. TypeOK'
    <2>1. CASE ReadChunk(d)
        <3> DEFINE read == got[d] + ReadSize(d)
        <3>1. read \in Sizes /\ read \in Nat /\ (~(read > MaxSize) => read <= MaxSize)
            BY <1>3 DEF Sizes
        <3>2. /\ got' \in [Documents -> Sizes]
              /\ pc' \in [Documents -> Stages \cup {"idle", "ended", "cut"}]
              /\ reply' \in [Documents -> {0, 201, 413, 415, 422, 500}]
            BY <2>1, <3>1
               DEF ReadChunk, Goto, Replies, VaultInv, TypeOK, Stages, Unwinding
        <3>3. /\ staged' \in [Documents -> Files]
              /\ \A e \in Documents : staged'[e] # Absent => staged'[e] <= MaxSize
            BY <2>1, <3>1 DEF ReadChunk, VaultInv, TypeOK, Files
        <3> HIDE DEF read
        <3> QED
            BY <2>1, <3>2, <3>3 DEF ReadChunk, VaultInv, TypeOK
    <2>2. CASE ReadEnd(d)
        BY <2>2 DEF ReadEnd, Goto, Replies, VaultInv, TypeOK, Stages, Unwinding, upload
    <2> QED
        BY <2>1, <2>2
<1>5. DocumentInv(d)'
    <2>1. CASE ReadChunk(d)
        <3> DEFINE read == got[d] + ReadSize(d)
        <3>1. /\ read \in Nat /\ read <= sent[d]
              /\ row[d] = "none" /\ object[d] = Absent /\ faults[d] = {} /\ reply[d] = 0
            BY <1>1, <1>3, <2>1 DEF ReadChunk, DocumentInv, Staging, Answered, Sizes
        <3>2. /\ UNCHANGED <<row, object, size, faults, sent, genuine>>
              /\ got'[d] = read
              /\ \/ pc'[d] = "failing" /\ reply'[d] = 413
                 \/ /\ pc'[d] = "reading" /\ reply'[d] = reply[d]
                    /\ staged'[d] = read /\ read <= MaxSize
            BY <2>1, <3>1 DEF ReadChunk, Goto, Replies, VaultInv, TypeOK
        <3> HIDE DEF read
        <3> QED
            BY <3>1, <3>2 DEF DocumentInv, Staging, Saving, Unwound, Answered, Kept
    <2>2. CASE ReadEnd(d)
        BY <1>1, <1>2, <2>2
           DEF ReadEnd, Goto, Replies, VaultInv, TypeOK, DocumentInv, Staging, Saving,
               Unwound, Answered, Kept, Whole, upload, Sizes
    <2> QED
        BY <2>1, <2>2
<1> QED
    BY <1>4, <1>5, OneDocument
       DEF ReadChunk, ReadEnd, Goto, Replies, VaultInv, TypeOK, upload

\* Every other step of an upload, with or without a fault, keeps the invariant.
LEMMA UploadInv ==
    ASSUME VaultInv, NEW d \in Documents,
           \/ \E n \in Sizes, g \in BOOLEAN : Stage(d, n, g)
           \/ Publish(d) \/ Insert(d) \/ Commit(d) \/ Rollback(d) \/ Unpublish(d)
           \/ Discard(d) \/ Fault(d) \/ Archive(d)
    PROVE  VaultInv'
<1> USE SizesAssumption
<1>0. DocumentInv(d) /\ TypeOK
    BY DEF VaultInv
<1>1. TypeOK' /\ DocumentInv(d)'
    <2> USE <1>0 DEF Goto, Replies, Blame, TypeOK, upload, DocumentInv, Staging, Saving,
                     Unwound, Answered, Kept, Whole, Files, Sizes, Stages, Unwinding
    <2>1. ASSUME NEW n \in Sizes, NEW g \in BOOLEAN, Stage(d, n, g)
          PROVE  TypeOK' /\ DocumentInv(d)'
        BY <2>1 DEF Stage
    <2>2. CASE Publish(d)
        BY <2>2 DEF Publish
    <2>3. CASE Insert(d)
        BY <2>3 DEF Insert
    <2>4. CASE Commit(d)
        BY <2>4 DEF Commit
    <2>5. CASE Rollback(d)
        BY <2>5 DEF Rollback
    <2>6. CASE Unpublish(d)
        BY <2>6 DEF Unpublish
    <2>7. CASE Discard(d)
        BY <2>7 DEF Discard
    <2>8. CASE StorageFails(d)
        BY <2>8 DEF StorageFails
    <2>9. CASE DatabaseFails(d)
        BY <2>9 DEF DatabaseFails
    <2>10. CASE CommitUnsure(d)
        BY <2>10 DEF CommitUnsure
    <2>11. CASE RollbackFails(d)
        BY <2>11 DEF RollbackFails
    <2>12. CASE UnpublishFails(d)
        BY <2>12 DEF UnpublishFails
    <2>13. CASE DiscardFails(d)
        BY <2>13 DEF DiscardFails
    <2>14. CASE Archive(d)
        BY <2>14 DEF Archive
    <2> QED
        BY <2>1, <2>2, <2>3, <2>4, <2>5, <2>6, <2>7, <2>8, <2>9, <2>10, <2>11, <2>12,
           <2>13, <2>14 DEF Fault
<1> DEFINE Others == \A e \in Documents \ {d} :
               /\ UNCHANGED <<row[e], size[e], object[e], staged[e], pc[e]>>
               /\ UNCHANGED <<sent[e], genuine[e], got[e], reply[e], faults[e]>>
<1>2. /\ Others /\ UNCHANGED reader
      /\ row[d] # "none" => row'[d] # "none" /\ size'[d] = size[d]
      /\ faults[d] \subseteq faults'[d]
    BY <1>0 DEF Stage, Publish, Insert, Commit, Rollback, Unpublish, Discard, Fault,
       StorageFails, DatabaseFails, CommitUnsure, RollbackFails, UnpublishFails,
       DiscardFails, Archive, Goto, Replies, Blame, TypeOK, upload, DocumentInv, Saving
<1> QED
    BY <1>1, <1>2, OneDocument

\* A download and a crash keep the invariant: neither touches a store.
LEMMA ReaderStepInv ==
    ASSUME VaultInv, NEW r \in Readers,
           (\E d \in Documents : Locate(r, d)) \/ Open(r)
    PROVE  VaultInv'
<1>1. ASSUME NEW e \in Documents PROVE DocumentInv(e)'
    BY DEF Locate, Open, upload, VaultInv, DocumentInv, Staging, Saving, Unwound,
       Answered, Kept, Whole
<1>2. ASSUME NEW d \in Documents, Locate(r, d) PROVE VaultInv'
    <2>1. TypeOK' /\ reader' \in [Readers -> ReaderType]
        BY <1>2 DEF Locate, upload, VaultInv, TypeOK, ReaderType
    <2>2. ASSUME NEW s \in Readers PROVE ReaderInv(s)'
        BY <1>2 DEF Locate, VaultInv, TypeOK, ReaderInv
    <2> QED
        BY <1>1, <2>1, <2>2 DEF VaultInv
<1>3. CASE Open(r)
    <2> DEFINE d == reader[r].doc
    <2>1. /\ d \in Documents /\ row[d] # "none" /\ DocumentInv(d)
          /\ reader[r] \in ReaderType
        BY <1>3 DEF Open, VaultInv, ReaderInv
    <2>2. /\ object[d] # Absent => object[d] \in Sizes /\ object[d] = size[d]
          /\ object[d] = Absent => "unsure" \in faults[d]
        BY <2>1 DEF DocumentInv, Kept, Whole, VaultInv, TypeOK, Files
    <2>3. reader' = [reader EXCEPT ![r] =
                        IF object[d] = Absent THEN [at |-> "missing", doc |-> d]
                        ELSE [at |-> "served", doc |-> d, bytes |-> object[d]]]
        BY <1>3 DEF Open
    <2>4. TypeOK' /\ reader' \in [Readers -> ReaderType]
        BY <1>3, <2>1, <2>2, <2>3 DEF Open, upload, VaultInv, TypeOK, ReaderType
    <2>5. ASSUME NEW s \in Readers PROVE ReaderInv(s)'
        BY <1>3, <2>1, <2>2, <2>3 DEF Open, VaultInv, TypeOK, ReaderInv
    <2> QED
        BY <1>1, <2>4, <2>5 DEF VaultInv
<1> QED
    BY <1>2, <1>3

\* A crash changes no store: it only ends the uploads under way.
LEMMA CrashInv == VaultInv /\ Crash => VaultInv'
<1> SUFFICES ASSUME VaultInv, Crash PROVE VaultInv'
    OBVIOUS
<1>1. TypeOK' /\ reader' \in [Readers -> ReaderType]
    BY DEF Crash, VaultInv, TypeOK, upload
<1>2. ASSUME NEW d \in Documents PROVE DocumentInv(d)'
    <2>1. DocumentInv(d)
        BY DEF VaultInv
    <2> QED
        BY <2>1 DEF Crash, VaultInv, TypeOK, upload, DocumentInv, Staging, Saving,
           Unwound, Answered, Kept, Whole, Stages, Unwinding
<1>3. ASSUME NEW r \in Readers PROVE ReaderInv(r)'
    BY DEF Crash, VaultInv, TypeOK, ReaderInv
<1> QED
    BY <1>1, <1>2, <1>3 DEF VaultInv

\* Every step keeps the invariant.
LEMMA StepInv == VaultInv /\ [Next]_vars => VaultInv'
<1> SUFFICES ASSUME VaultInv, [Next]_vars PROVE VaultInv'
    OBVIOUS
<1>1. CASE UNCHANGED vars
    <2>1. TypeOK' /\ reader' \in [Readers -> ReaderType]
        BY <1>1 DEF vars, upload, VaultInv, TypeOK
    <2>2. \A d \in Documents : DocumentInv(d)'
        BY <1>1 DEF vars, upload, VaultInv, DocumentInv, Staging, Saving, Unwound,
           Answered, Kept, Whole
    <2>3. \A r \in Readers : ReaderInv(r)'
        BY <1>1 DEF vars, VaultInv, ReaderInv
    <2> QED
        BY <2>1, <2>2, <2>3 DEF VaultInv
<1>2. CASE Next
    BY <1>2, ReadingInv, UploadInv, ReaderStepInv, CrashInv DEF Next, Progress
<1> QED
    BY <1>1, <1>2

\* The invariant holds in every reachable state.
LEMMA Invariance == Spec => []VaultInv
BY InitInv, StepInv, PTL DEF Spec

-----------------------------------------------------------------------------
\* Every variable stays in its type, and a staged file within the size limit.
THEOREM VaultTyped == Spec => []TypeOK
BY Invariance, PTL DEF VaultInv

\* Whatever sizes and chunks: what is published is the whole file that was sent.
THEOREM VaultStoresWholeFiles == Spec => []StoredWhole
<1>1. VaultInv => StoredWhole
    BY DEF VaultInv, DocumentInv, Kept, Whole, StoredWhole
<1> QED
    BY <1>1, Invariance, PTL

\* An upload that ends with no failed cleaning step leaves a row and a binary, or
\* nothing at all.
THEOREM UploadsLeaveNothingOver == Spec => []NothingLeftOver
<1>1. VaultInv => NothingLeftOver
    BY DEF VaultInv, DocumentInv, Unwound, NothingLeftOver
<1> QED
    BY <1>1, Invariance, PTL

\* Every document whose commit was confirmed stays downloadable as a whole.
THEOREM DocumentsStayDownloadable == Spec => []Downloadable
<1>1. VaultInv => Downloadable
    BY DEF VaultInv, DocumentInv, Kept, Whole, ReaderInv, Downloadable
<1> QED
    BY <1>1, Invariance, PTL

-----------------------------------------------------------------------------
(* The refinement *)

seenOf(d) == <<Body(d), Told(d), row[d], File(d), "unsure" \in faults[d]>>

\* One document's step as DocumentStore sees it.
SendSeen(d) ==
    /\ Body(d) = Absent /\ Body(d)' \in Sizes /\ Told(d)' \in {"pending", "refused"}
    /\ UNCHANGED <<row[d], File(d), "unsure" \in faults[d]>>

RefuseSeen(d) ==
    /\ Told(d) = "pending" /\ Told(d)' = "refused"
    /\ UNCHANGED <<Body(d), row[d], File(d), "unsure" \in faults[d]>>

SaveSeen(d) ==
    /\ Told(d) = "pending" /\ Body(d) \in 1..MaxSize
    /\ row'[d] = "active" /\ File(d)' = Body(d) /\ UNCHANGED Body(d)
    /\ \/ Told(d)' = "saved" /\ UNCHANGED ("unsure" \in faults[d])
       \/ Told(d)' = "refused" /\ "unsure" \in faults'[d]

LoseSeen(d) ==
    /\ "unsure" \in faults[d] /\ File(d)' = Absent
    /\ UNCHANGED <<Body(d), Told(d), row[d], "unsure" \in faults[d]>>

ArchiveSeen(d) ==
    /\ row[d] = "active" /\ row'[d] = "archived"
    /\ UNCHANGED <<Body(d), Told(d), File(d), "unsure" \in faults[d]>>

Seen(d) ==
    \/ UNCHANGED seenOf(d)
    \/ SendSeen(d) \/ RefuseSeen(d) \/ SaveSeen(d) \/ LoseSeen(d) \/ ArchiveSeen(d)

\* The steps of an upload: publication, the first statement and all clean-up that has
\* nothing of a row in it are not seen.
LEMMA UploadSeen ==
    ASSUME VaultInv, NEW d \in Documents,
           \/ \E n \in Sizes, g \in BOOLEAN : Stage(d, n, g)
           \/ Progress(d) \/ Fault(d) \/ Archive(d)
    PROVE  Seen(d)
<1> USE SizesAssumption
<1>0. DocumentInv(d) /\ TypeOK /\ sent[d] \in Sizes /\ sent[d] # Absent
    BY DEF VaultInv, TypeOK, Sizes
<1> USE <1>0 DEF Goto, Replies, Blame, TypeOK, upload, Seen, seenOf, Body, Told, File
<1>1. ASSUME NEW n \in Sizes, NEW g \in BOOLEAN, Stage(d, n, g) PROVE SendSeen(d)
    BY <1>1 DEF Stage, SendSeen, DocumentInv, Staging
<1>2. CASE ReadChunk(d)
    BY <1>2 DEF ReadChunk, RefuseSeen, DocumentInv, Answered
<1>3. CASE ReadEnd(d)
    BY <1>3 DEF ReadEnd, RefuseSeen, DocumentInv, Answered
<1>4. CASE Publish(d)
    BY <1>4 DEF Publish, RefuseSeen, DocumentInv, Answered, Staging
<1>5. CASE Insert(d)
    BY <1>5 DEF Insert
<1>6. CASE Commit(d)
    BY <1>6 DEF Commit, SaveSeen, DocumentInv, Answered, Saving, Whole
<1>7. CASE Rollback(d)
    BY <1>7 DEF Rollback
<1>8. CASE Unpublish(d)
    BY <1>8 DEF Unpublish, LoseSeen, DocumentInv, Unwound
<1>9. CASE Discard(d)
    BY <1>9 DEF Discard
<1>10. CASE StorageFails(d)
    BY <1>10 DEF StorageFails, RefuseSeen, DocumentInv, Answered
<1>11. CASE DatabaseFails(d)
    BY <1>11 DEF DatabaseFails, RefuseSeen, DocumentInv, Answered
<1>12. CASE CommitUnsure(d)
    BY <1>12 DEF CommitUnsure, SaveSeen, DocumentInv, Answered, Saving, Whole
<1>13. CASE RollbackFails(d)
    BY <1>13 DEF RollbackFails, DocumentInv, Answered
<1>14. CASE UnpublishFails(d)
    BY <1>14 DEF UnpublishFails
<1>15. CASE DiscardFails(d)
    BY <1>15 DEF DiscardFails, DocumentInv, Answered
<1>16. CASE Archive(d)
    BY <1>16 DEF Archive, ArchiveSeen
<1> QED
    BY <1>1, <1>2, <1>3, <1>4, <1>5, <1>6, <1>7, <1>8, <1>9, <1>10, <1>11, <1>12, <1>13,
       <1>14, <1>15, <1>16 DEF Progress, Fault

\* The upload of one document leaves what is seen of the others, and of the downloads.
LEMMA OthersUnseen ==
    ASSUME VaultInv, NEW d \in Documents,
           \/ \E n \in Sizes, g \in BOOLEAN : Stage(d, n, g)
           \/ Progress(d) \/ Fault(d) \/ Archive(d)
    PROVE  /\ \A e \in Documents \ {d} : UNCHANGED seenOf(e)
           /\ row' = [row EXCEPT ![d] = row'[d]]
           /\ \A r \in Readers : UNCHANGED Given(r)
<1>1. /\ \A e \in Documents \ {d} : UNCHANGED <<sent[e], pc[e], reply[e], row[e]>>
      /\ \A e \in Documents \ {d} : UNCHANGED <<object[e], faults[e]>>
      /\ row' = [row EXCEPT ![d] = row'[d]]
      /\ UNCHANGED reader
    BY DEF Stage, Progress, Fault, ReadChunk, ReadEnd, Publish, Insert, Commit,
       Rollback, Unpublish, Discard, StorageFails, DatabaseFails, CommitUnsure,
       RollbackFails, UnpublishFails, DiscardFails, Archive, Goto, Replies, Blame,
       VaultInv, TypeOK, upload
<1>2. \A e \in Documents \ {d} : UNCHANGED <<Body(e), Told(e), File(e)>>
    BY <1>1 DEF Body, Told, File
<1>3. \A r \in Readers : UNCHANGED Given(r)
    BY <1>1 DEF Given
<1> QED
    BY <1>1, <1>2, <1>3 DEF seenOf

\* What is seen of one document is a step of the whole store.
LEMMA SeenIsStep ==
    ASSUME VaultInv, NEW d \in Documents, Seen(d),
           \A e \in Documents \ {d} : UNCHANGED seenOf(e),
           row' = [row EXCEPT ![d] = row'[d]],
           \A r \in Readers : UNCHANGED Given(r)
    PROVE  [Store!Next]_(Store!store)
<1> DEFINE bodies == [e \in Documents |-> Body(e)]
           tolds  == [e \in Documents |-> Told(e)]
           files  == [e \in Documents |-> File(e)]
           given  == [r \in Readers |-> Given(r)]
<1>1. /\ bodies' = [bodies EXCEPT ![d] = Body(d)']
      /\ tolds' = [tolds EXCEPT ![d] = Told(d)']
      /\ files' = [files EXCEPT ![d] = File(d)']
      /\ given' = given
      /\ InDoubt' = IF "unsure" \in faults'[d] THEN InDoubt \cup {d} ELSE InDoubt \ {d}
    BY DEF seenOf, InDoubt
<1>2. /\ bodies[d] = Body(d) /\ tolds[d] = Told(d) /\ files[d] = File(d)
      /\ d \in InDoubt <=> "unsure" \in faults[d]
      /\ row \in [Documents -> {"none", "active", "archived"}]
    BY DEF InDoubt, VaultInv, TypeOK
<1>3. /\ UNCHANGED Body(d) => bodies' = bodies
      /\ UNCHANGED Told(d) => tolds' = tolds
      /\ UNCHANGED File(d) => files' = files
      /\ UNCHANGED row[d] => row' = row
      /\ UNCHANGED ("unsure" \in faults[d]) => InDoubt' = InDoubt
    <2>1. ASSUME UNCHANGED Body(d) PROVE bodies' = bodies
        BY <2>1 DEF seenOf
    <2>2. ASSUME UNCHANGED Told(d) PROVE tolds' = tolds
        BY <2>2 DEF seenOf
    <2>3. ASSUME UNCHANGED File(d) PROVE files' = files
        BY <2>3 DEF seenOf
    <2>4. UNCHANGED row[d] => row' = row
        BY <1>2
    <2>5. ASSUME UNCHANGED ("unsure" \in faults[d]) PROVE InDoubt' = InDoubt
        BY <2>5 DEF seenOf, InDoubt
    <2> QED
        BY <2>1, <2>2, <2>3, <2>4, <2>5
<1>4. CASE UNCHANGED seenOf(d)
    BY <1>1, <1>3, <1>4 DEF seenOf, Store!store
<1>5. CASE SendSeen(d)
    BY <1>1, <1>2, <1>3, <1>5 DEF SendSeen, Store!Send, Store!Next
<1>6. CASE RefuseSeen(d)
    BY <1>1, <1>2, <1>3, <1>6 DEF RefuseSeen, Store!Refuse, Store!Next
<1>7. CASE SaveSeen(d)
    BY <1>1, <1>2, <1>3, <1>7 DEF SaveSeen, Store!Save, Store!Next
<1>8. CASE LoseSeen(d)
    BY <1>1, <1>2, <1>3, <1>8 DEF LoseSeen, Store!Lose, Store!Next
<1>9. CASE ArchiveSeen(d)
    BY <1>1, <1>2, <1>3, <1>9 DEF ArchiveSeen, Store!Archive, Store!Next
<1> QED
    BY <1>4, <1>5, <1>6, <1>7, <1>8, <1>9 DEF Seen

\* A download is seen when it opens the file.
LEMMA OpenSeen ==
    ASSUME VaultInv, NEW r \in Readers, Open(r)
    PROVE  Store!Next
<1> DEFINE d == reader[r].doc
           given == [q \in Readers |-> Given(q)]
           files == [e \in Documents |-> File(e)]
<1>1. /\ d \in Documents /\ row[d] # "none"
      /\ reader \in [Readers -> ReaderType] /\ reader[r].at = "located"
    BY DEF Open, VaultInv, ReaderInv
<1>2. /\ reader' = [reader EXCEPT ![r] =
                       IF object[d] = Absent THEN [at |-> "missing", doc |-> d]
                       ELSE [at |-> "served", doc |-> d, bytes |-> object[d]]]
      /\ UNCHANGED <<row, size, object, staged, pc, upload, reply, faults>>
    BY DEF Open
<1>3. Given(r) = {} /\ Given(r)' = {File(d)}
    BY <1>1, <1>2 DEF Given, File
<1>4. \A q \in Readers \ {r} : UNCHANGED Given(q)
    BY <1>1, <1>2 DEF Given
<1>5. \A e \in Documents : UNCHANGED <<Body(e), Told(e), File(e)>>
    BY <1>2 DEF Body, Told, File, upload
<1>6. given[r] = {} /\ given' = [given EXCEPT ![r] = {files[d]}]
    BY <1>1, <1>3, <1>4
<1>7. Store!Serve(r, d)
    BY <1>1, <1>2, <1>5, <1>6 DEF Store!Serve, InDoubt
<1> QED
    BY <1>1, <1>7 DEF Store!Next

\* Finding a row and a crash change nothing that is seen.
LEMMA Unseen ==
    ASSUME VaultInv,
           UNCHANGED vars \/ Crash \/ \E r \in Readers, d \in Documents : Locate(r, d)
    PROVE  UNCHANGED Store!store
<1>1. /\ UNCHANGED <<row, object, sent, reply>>
      /\ \A d \in Documents : pc'[d] = "idle" <=> pc[d] = "idle"
      /\ \A d \in Documents : "unsure" \in faults'[d] <=> "unsure" \in faults[d]
    BY DEF vars, upload, Crash, Locate, VaultInv, TypeOK, Stages, Unwinding
<1>2. \A r \in Readers : UNCHANGED Given(r)
    <2>1. CASE UNCHANGED reader
        BY <2>1 DEF Given
    <2>2. ASSUME NEW q \in Readers, NEW d \in Documents, Locate(q, d)
          PROVE  \A r \in Readers : UNCHANGED Given(r)
        BY <2>2 DEF Locate, Given, VaultInv
    <2> QED
        BY <2>1, <2>2 DEF vars, Crash
<1>3. \A d \in Documents : UNCHANGED <<Body(d), Told(d), File(d)>>
    BY <1>1 DEF Body, Told, File
<1> QED
    BY <1>1, <1>2, <1>3 DEF Store!store, InDoubt

\* Row and binary act as one store with an atomic Save: the only documents that may
\* lose their file are those whose commit went unanswered.
THEOREM VaultImplementsStore == Spec => ImplementsStore
<1>1. Init => Store!Init
    BY DEF Init, Store!Init, Body, Told, File, InDoubt, Given
<1>2. VaultInv /\ [Next]_vars => [Store!Next]_(Store!store)
    <2> SUFFICES ASSUME VaultInv, [Next]_vars PROVE [Store!Next]_(Store!store)
        OBVIOUS
    <2>1. ASSUME NEW d \in Documents,
                 \/ \E n \in Sizes, g \in BOOLEAN : Stage(d, n, g)
                 \/ Progress(d) \/ Fault(d) \/ Archive(d)
          PROVE  [Store!Next]_(Store!store)
        BY <2>1, UploadSeen, OthersUnseen, SeenIsStep
    <2> QED
        BY <2>1, OpenSeen, Unseen DEF Next
<1> QED
    BY <1>1, <1>2, Invariance, PTL DEF Spec, ImplementsStore, Store!Spec
==============================================================================
