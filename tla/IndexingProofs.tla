--------------------------- MODULE IndexingProofs ---------------------------
(***************************************************************************)
(* What holds of Indexing, and of a search beside it, for every set of     *)
(* requests and texts, every number of chunks and every batch size.        *)
(***************************************************************************)
EXTENDS IndexSearch, TLAPS, FunctionTheorems, FiniteSetTheorems

Stage == {"idle", "loaded"} \cup Busy \cup Ended

\* A flush leaves each column as it was, or with the session's new value.
LEMMA FlushType ==
    ASSUME NEW a \in Rows, NEW b \in Rows, NEW c \in Rows
    PROVE  Flush(a, b, c) \in Rows
BY DEF Flush, Column, Rows

\* What a claim leaves is a row, and so is no row.
LEMMA RowsTyped ==
    /\ NoRow \in Rows
    /\ \A t \in Texts \cup {NoText} : PendingRow(t) \in Rows
BY ConstantsAssumption DEF Rows, NoRow, PendingRow, Statuses, InProgress

\* What the decision, and the crash, can make of a stage.
LEMMA Stages ==
    ASSUME TypeOK, NEW r \in Requests
    PROVE  /\ Decision(row, text[r]) \in {"returned", "conflict", "prepare"}
           /\ AfterCrash(pc[r]) \in Stage
BY DEF TypeOK, Decision, AfterCrash, Busy, Ended, Indexers, Stage

\* The chunks of an attempt are chunks.
LEMMA CutTyped ==
    ASSUME NEW r \in Requests, NEW t \in Texts, NEW first \in Nat, NEW last \in Nat
    PROVE  Cut(r, t, first, last) \in SUBSET Chunks
BY DEF Cut, Chunks

\* A request past its first read has a text of the extraction.
TextLoaded == \A r \in Requests : pc[r] \notin {"idle", "conflict"} => text[r] \in Texts

\* Saving leaves a row and a session of their types.
LEMMA SaveType ==
    ASSUME TypeOK, NEW r \in Requests, NEW new \in Rows, Save(r, new)
    PROVE  row' \in Rows /\ session' \in [Requests -> Rows]
BY FlushType DEF Save, TypeOK

\* The types, with the text a request has.
LEMMA TypeStep ==
    ASSUME TypeOK, TextLoaded, [Next]_vars PROVE TypeOK' /\ TextLoaded'
<1> USE DEF Goto, jobs, TypeOK, TextLoaded
<1>1. ASSUME NEW r \in Requests, ReadExtraction(r) PROVE TypeOK' /\ TextLoaded'
    BY <1>1 DEF ReadExtraction, Ended
<1>2. ASSUME NEW r \in Requests, ReadIndex(r) PROVE TypeOK' /\ TextLoaded'
    <2>1. Decision(row, text[r]) \in {"returned", "conflict", "prepare"}
        BY DEF Decision
    <2> QED
        BY <1>2, <2>1 DEF ReadIndex, Busy, Ended
<1>3. ASSUME NEW r \in Requests, Create(r) PROVE TypeOK' /\ TextLoaded'
    BY <1>3, RowsTyped DEF Create, Busy, Ended
<1>4. ASSUME NEW r \in Requests, Reset(r) PROVE TypeOK' /\ TextLoaded'
    BY <1>4, RowsTyped, SaveType DEF Reset, Busy
<1>5. ASSUME NEW r \in Requests, StartWork(r) PROVE TypeOK' /\ TextLoaded'
    <2>1. [session[r] EXCEPT !.status = "PROCESSING"] \in Rows
        BY DEF Rows, Statuses, InProgress
    <2> QED
        BY <1>5, <2>1, SaveType DEF StartWork, Busy, Indexers
<1>6. ASSUME NEW r \in Requests, DeleteChunks(r) PROVE TypeOK' /\ TextLoaded'
    BY <1>6 DEF DeleteChunks, Busy, Indexers
<1>7. ASSUME NEW r \in Requests, InsertChunks(r) PROVE TypeOK' /\ TextLoaded'
    <2>1. Generated(r) \in SUBSET Chunks
        BY <1>7, CutTyped, ConstantsAssumption DEF InsertChunks, Generated
    <2> QED
        BY <1>7, <2>1 DEF InsertChunks, Busy, Indexers, Ended
<1>8. ASSUME NEW r \in Requests, Embed(r) \/ ClearPoints(r) \/ CountPoints(r)
      PROVE  TypeOK' /\ TextLoaded'
    BY <1>8 DEF Embed, ClearPoints, CountPoints, Busy, Indexers
<1>9. ASSUME NEW r \in Requests, UpsertPoints(r) PROVE TypeOK' /\ TextLoaded'
    <2>1. text[r] \in Texts /\ ChunkCount[text[r]] \in Nat /\ sent[r] \in Nat
        BY <1>9, ConstantsAssumption DEF UpsertPoints
    <2> DEFINE upto == Least(sent[r] + UpsertBatch, ChunkCount[text[r]])
    <2>2. upto \in Nat
        BY <2>1, ConstantsAssumption DEF Least
    <2>3. Cut(r, text[r], sent[r], upto) \in SUBSET Chunks
        BY <2>1, <2>2, CutTyped
    <2>4. /\ points' = points \cup Cut(r, text[r], sent[r], upto)
          /\ sent' = [sent EXCEPT ![r] = upto]
          /\ UNCHANGED <<extracted, row, chunks, session, text, old, pc, overlap>>
        BY <1>9 DEF UpsertPoints
    <2> QED
        BY <2>2, <2>3, <2>4
<1>10. ASSUME NEW r \in Requests, Complete(r) PROVE TypeOK' /\ TextLoaded'
    <2>1. [session[r] EXCEPT !.status = "COMPLETED", !.error = NoError,
                             !.count = ChunkCount[text[r]]] \in Rows
        BY <1>10, ConstantsAssumption DEF Complete, Rows, Statuses
    <2> QED
        BY <1>10, <2>1, SaveType DEF Complete, Busy
<1>11. ASSUME NEW r \in Requests, Reply(r) \/ ReadForFailure(r)
       PROVE  TypeOK' /\ TextLoaded'
    BY <1>11 DEF Reply, ReadForFailure, Busy, Ended
<1>12. ASSUME NEW r \in Requests, RecordFailure(r) PROVE TypeOK' /\ TextLoaded'
    <2>1. ASSUME NEW code \in ErrorCodes
          PROVE  [session[r] EXCEPT !.status = "FAILED", !.count = 0, !.error = code] \in Rows
        BY DEF Rows, Statuses
    <2> QED
        BY <1>12, <2>1, SaveType DEF RecordFailure, Ended
<1>13. ASSUME NEW r \in Requests, Fault(r) PROVE TypeOK' /\ TextLoaded'
    BY <1>13 DEF Fault, PrepareFails, WorkFails, TransactionFails, SaveFails,
       RecordFailureFails, Busy, Indexers, Ended
<1>14. CASE ExtractionChanges
    BY <1>14 DEF ExtractionChanges
<1>15. CASE Crash
    BY <1>15 DEF Crash, AfterCrash, Busy, Indexers, Ended
<1>16. CASE UNCHANGED vars
    BY <1>16 DEF vars
<1> QED
    BY <1>1, <1>2, <1>3, <1>4, <1>5, <1>6, <1>7, <1>8, <1>9, <1>10, <1>11, <1>12, <1>13,
       <1>14, <1>15, <1>16 DEF Next, Progress

\* Types and texts, in every reachable state.
LEMMA Typed == Spec => [](TypeOK /\ TextLoaded)
<1>1. Init => TypeOK /\ TextLoaded
    <2> SUFFICES ASSUME Init PROVE TypeOK /\ TextLoaded
        OBVIOUS
    <2>1. /\ extracted \in Texts \cup {NoText} /\ row \in Rows
          /\ chunks \subseteq Chunks /\ points \subseteq Chunks
        BY RowsTyped DEF Init
    <2>2. /\ session \in [Requests -> Rows] /\ text \in [Requests -> Texts \cup {NoText}]
          /\ old \in [Requests -> SUBSET Chunks]
        BY RowsTyped DEF Init
    <2>3. sent \in [Requests -> Nat] /\ pc \in [Requests -> {"idle"}] /\ overlap \in BOOLEAN
        BY DEF Init
    <2> QED
        BY <2>1, <2>2, <2>3 DEF TypeOK, TextLoaded
<1> QED
    BY <1>1, TypeStep, PTL DEF Spec

\* Every variable keeps its type, whatever fails and however requests interleave.
THEOREM IndexTyped == Spec => []TypeOK
BY Typed, PTL

-----------------------------------------------------------------------------
(* What a request knows of its own copy of the row, whatever the others do.  *)

ProcessingRow(t) == [PendingRow(t) EXCEPT !.status = "PROCESSING"]

SessionInv ==
    \A r \in Requests :
        /\ pc[r] = "prepare" =>
              /\ session[r].status \notin InProgress
              /\ session[r].status = "COMPLETED" => session[r].source # text[r]
        /\ pc[r] = "claimed" => session[r] = PendingRow(text[r])
        /\ pc[r] \in Indexers => session[r] = ProcessingRow(text[r])
        /\ pc[r] = "committed" => session[r].status = "COMPLETED"
        /\ pc[r] \in {"claimed", "committed", "failing", "recording"} \cup Indexers =>
              row.status # "ABSENT"
        /\ pc[r] = "recording" => session[r].status # "ABSENT"
        /\ session[r].status # "ABSENT" => row.status # "ABSENT"

\* What a request that saves leaves in the row's status and in the copies.
LEMMA SaveStatus ==
    ASSUME TypeOK, NEW r \in Requests, NEW new \in Rows, Save(r, new)
    PROVE  /\ session'[r] = new
           /\ \A s \in Requests : s # r => session'[s] = session[s]
           /\ row'.status = IF new.status = session[r].status THEN row.status
                                                              ELSE new.status
BY DEF Save, Flush, Column, TypeOK

\* The rows that the handler saves, each with its status.
LEMMA NewRows ==
    ASSUME TypeOK, TextLoaded, NEW r \in Requests
    PROVE  /\ pc[r] = "prepare" =>
                  PendingRow(text[r]) \in Rows /\ PendingRow(text[r]).status = "PENDING"
           /\ pc[r] = "claimed" /\ session[r] = PendingRow(text[r]) =>
                  /\ [session[r] EXCEPT !.status = "PROCESSING"] = ProcessingRow(text[r])
                  /\ ProcessingRow(text[r]) \in Rows
                  /\ ProcessingRow(text[r]).status = "PROCESSING"
<1>1. CASE pc[r] = "prepare"
    BY <1>1, RowsTyped DEF TextLoaded, PendingRow
<1>2. CASE pc[r] = "claimed"
    <2>1. PendingRow(text[r]) \in Rows
        BY <1>2, RowsTyped DEF TextLoaded
    <2>2. ProcessingRow(text[r]) \in Rows
        BY <2>1 DEF ProcessingRow, Rows, Statuses, InProgress
    <2> QED
        BY <1>2, <2>2 DEF ProcessingRow, PendingRow
<1> QED
    BY <1>1, <1>2

\* The invariant of the copies is kept by every step.
LEMMA SessionStep ==
    ASSUME TypeOK, TextLoaded, SessionInv, [Next]_vars PROVE SessionInv'
<1> USE DEF Goto, jobs
<1>1. ASSUME NEW r \in Requests, row' = row, text' = text,
             \A s \in Requests : s # r => pc'[s] = pc[s] /\ session'[s] = session[s],
             session'[r] \in {session[r], row},
             pc'[r] = pc[r] \/ pc'[r] \in Ended \cup {"loaded"}
               \/ /\ pc[r] \in Indexers /\ pc'[r] \in Indexers \cup {"recording"}
                  /\ session'[r] = session[r]
               \/ (pc[r] \in Indexers \cup {"committed"} /\ pc'[r] = "failing")
               \/ (pc[r] = "failing" /\ pc'[r] = "recording" /\ session'[r] = row)
               \/ (pc'[r] = "prepare" /\ session'[r] = row /\ Decision(row, text[r]) = "prepare"),
             pc'[r] = pc[r] => session'[r] = session[r]
      PROVE  SessionInv'
    BY <1>1 DEF SessionInv, Indexers, Ended, Decision, IsCurrent, InProgress,
                ProcessingRow, PendingRow
<1>2. ASSUME NEW r \in Requests, ReadExtraction(r) PROVE SessionInv'
    <2>1. pc'[r] \in {"conflict", "loaded"} /\ row' = row /\ session' = session
          /\ \A s \in Requests : s # r => pc'[s] = pc[s] /\ text'[s] = text[s]
        BY <1>2 DEF ReadExtraction, TypeOK
    <2> QED
        BY <2>1 DEF SessionInv, Indexers
<1>3. ASSUME NEW r \in Requests, ReadIndex(r) PROVE SessionInv'
    BY <1>1, <1>3, Stages DEF ReadIndex, TypeOK, Ended
<1>4. ASSUME NEW r \in Requests, Create(r) PROVE SessionInv'
    BY <1>4 DEF Create, SessionInv, TypeOK, PendingRow, Indexers
<1>5. ASSUME NEW r \in Requests, Reset(r) PROVE SessionInv'
    BY <1>5, SaveStatus, NewRows DEF Reset, SessionInv, TypeOK, Indexers, InProgress
<1>6. ASSUME NEW r \in Requests, StartWork(r) PROVE SessionInv'
    <2>1. Save(r, ProcessingRow(text[r])) /\ ProcessingRow(text[r]) \in Rows
          /\ ProcessingRow(text[r]).status = "PROCESSING"
        BY <1>6, NewRows DEF StartWork, SessionInv
    <2> QED
        BY <1>6, <2>1, SaveStatus DEF StartWork, SessionInv, TypeOK, Indexers
<1>7. ASSUME NEW r \in Requests,
             DeleteChunks(r) \/ InsertChunks(r) \/ Embed(r) \/ ClearPoints(r)
               \/ UpsertPoints(r) \/ CountPoints(r)
      PROVE  SessionInv'
    <2>1. row' = row /\ text' = text /\ session' = session
          /\ \A s \in Requests : s # r => pc'[s] = pc[s]
        BY <1>7 DEF DeleteChunks, InsertChunks, Embed, ClearPoints, UpsertPoints,
                    CountPoints, TypeOK
    <2>2. \/ pc'[r] = pc[r] \/ pc'[r] \in Ended
          \/ pc[r] \in Indexers /\ pc'[r] \in Indexers \cup {"recording"}
        BY <1>7 DEF DeleteChunks, InsertChunks, Embed, ClearPoints, UpsertPoints,
                    CountPoints, TypeOK, Ended, Indexers
    <2> QED
        BY <1>1, <2>1, <2>2
<1>8. ASSUME NEW r \in Requests, Complete(r) PROVE SessionInv'
    <2> DEFINE new == [session[r] EXCEPT !.status = "COMPLETED", !.error = NoError,
                                         !.count = ChunkCount[text[r]]]
    <2>1. new \in Rows /\ new.status = "COMPLETED" /\ Save(r, new)
        BY <1>8, ConstantsAssumption DEF Complete, TypeOK, TextLoaded, Rows, Statuses
    <2> HIDE DEF new
    <2> QED
        BY <1>8, <2>1, SaveStatus DEF Complete, SessionInv, TypeOK, Indexers
<1>9. ASSUME NEW r \in Requests, Reply(r) \/ ReadForFailure(r) PROVE SessionInv'
    BY <1>1, <1>9 DEF Reply, ReadForFailure, TypeOK, Ended
<1>10. ASSUME NEW r \in Requests, RecordFailure(r) PROVE SessionInv'
    <2>1. PICK code \in ErrorCodes :
              Save(r, [session[r] EXCEPT !.status = "FAILED", !.count = 0, !.error = code])
        BY <1>10 DEF RecordFailure
    <2> DEFINE new == [session[r] EXCEPT !.status = "FAILED", !.count = 0, !.error = code]
    <2>2. new \in Rows /\ new.status = "FAILED" /\ Save(r, new)
        BY <2>1 DEF TypeOK, Rows, Statuses
    <2> HIDE DEF new
    <2> QED
        BY <1>10, <2>2, SaveStatus DEF RecordFailure, SessionInv, TypeOK, Indexers
<1>11. ASSUME NEW r \in Requests, Fault(r) PROVE SessionInv'
    <2>1. row' = row /\ text' = text /\ session' = session
          /\ \A s \in Requests : s # r => pc'[s] = pc[s]
        BY <1>11 DEF Fault, PrepareFails, WorkFails, TransactionFails, SaveFails,
           RecordFailureFails, TypeOK
    <2>2. \/ pc'[r] \in Ended
          \/ pc[r] \in Indexers \cup {"committed"} /\ pc'[r] = "failing"
          \/ pc[r] \in Indexers /\ pc'[r] = "recording"
        BY <1>11 DEF Fault, PrepareFails, WorkFails, TransactionFails, SaveFails,
           RecordFailureFails, TypeOK, Ended, Indexers
    <2> QED
        BY <1>1, <2>1, <2>2 DEF Ended
<1>12. CASE ExtractionChanges
    BY <1>12 DEF ExtractionChanges, SessionInv
<1>13. CASE Crash
    BY <1>13 DEF Crash, AfterCrash, SessionInv, TypeOK, Busy, Indexers, Ended
<1>14. CASE UNCHANGED vars
    BY <1>14 DEF vars, SessionInv
<1> QED
    BY <1>2, <1>3, <1>4, <1>5, <1>6, <1>7, <1>8, <1>9, <1>10, <1>11, <1>12, <1>13, <1>14
       DEF Next, Progress

\* What requests know of their copies holds in every reachable state.
LEMMA SessionInvariant == Spec => []SessionInv
<1>1. Init => SessionInv
    BY DEF Init, SessionInv, NoRow, Indexers
<1> QED
    BY <1>1, SessionStep, Typed, PTL DEF Spec

-----------------------------------------------------------------------------
(* A row in progress is owned.  The witness is an owner before the step, or   *)
(* the request that steps.                                                    *)

\* However many requests interleave on stale copies, a row in progress has a request
\* that will end it, or one that was cut off.
THEOREM InProgressOwned == Spec => []InProgressIsOwned
<1>1. Init => InProgressIsOwned
    BY DEF Init, NoRow, InProgressIsOwned, InProgress
<1>2. TypeOK /\ SessionInv /\ InProgressIsOwned /\ [Next]_vars => InProgressIsOwned'
    <2> SUFFICES ASSUME TypeOK, SessionInv, InProgressIsOwned, [Next]_vars,
                        row'.status \in InProgress
                 PROVE  \E s \in Requests : Owns(s)' \/ pc'[s] = "abandoned"
        BY DEF InProgressIsOwned, Owns
    <2> DEFINE Owned == \E s \in Requests : Owns(s)' \/ pc'[s] = "abandoned"
    <2> USE DEF Goto, jobs
    <2>1. ASSUME NEW r \in Requests, row' = row,
                 Owns(r) \/ pc[r] = "abandoned" => Owns(r)' \/ pc'[r] = "abandoned",
                 \A s \in Requests : s # r => pc'[s] = pc[s] /\ session'[s] = session[s]
          PROVE  Owned
        BY <2>1 DEF InProgressIsOwned, Owns
    <2>2. ASSUME NEW r \in Requests, ReadExtraction(r) \/ ReadIndex(r) \/ Reply(r) PROVE Owned
        BY <2>1, <2>2 DEF ReadExtraction, ReadIndex, Reply, Owns, TypeOK, Indexers
    <2>3. ASSUME NEW r \in Requests, Create(r) \/ Reset(r) \/ StartWork(r) PROVE Owned
        <3>1. CASE pc'[r] \in {"claimed", "working"}
            BY <3>1 DEF Owns, Indexers
        <3>2. CASE pc'[r] \notin {"claimed", "working"}
            BY <2>1, <2>3, <3>2 DEF Create, Reset, StartWork, Owns, TypeOK, Indexers
        <3> QED
            BY <3>1, <3>2
    <2>4. ASSUME NEW r \in Requests,
                 DeleteChunks(r) \/ InsertChunks(r) \/ Embed(r) \/ ClearPoints(r)
                   \/ UpsertPoints(r) \/ CountPoints(r)
          PROVE  Owned
        <3>1. /\ row' = row /\ session' = session /\ pc[r] \in Indexers
              /\ pc'[r] \in Indexers \cup {"recording", "abandoned"}
              /\ \A s \in Requests : s # r => pc'[s] = pc[s]
            BY <2>4 DEF DeleteChunks, InsertChunks, Embed, ClearPoints, UpsertPoints,
                        CountPoints, TypeOK, Indexers
        <3>2. session[r].status = "PROCESSING"
            BY <3>1 DEF SessionInv, ProcessingRow, PendingRow
        <3> QED
            BY <2>1, <3>1, <3>2 DEF Owns
    <2>5. ASSUME NEW r \in Requests, Complete(r) PROVE Owned
        <3>1. row'.status = "COMPLETED"
            BY <2>5 DEF Complete, Save, Flush, Column, SessionInv, ProcessingRow,
                        PendingRow, Indexers
        <3> QED
            BY <3>1 DEF InProgress
    <2>6. ASSUME NEW r \in Requests, ReadForFailure(r) PROVE Owned
        <3>1. row = row' /\ session'[r].status # "FAILED" /\ pc'[r] = "recording"
            BY <2>6 DEF ReadForFailure, InProgress, TypeOK
        <3> QED
            BY <3>1 DEF Owns
    <2>7. ASSUME NEW r \in Requests, RecordFailure(r) PROVE Owned
        <3>1. PICK code \in ErrorCodes :
                  Save(r, [session[r] EXCEPT !.status = "FAILED", !.count = 0, !.error = code])
            BY <2>7 DEF RecordFailure
        <3>2. row'.status = IF session[r].status = "FAILED" THEN row.status ELSE "FAILED"
            BY <3>1 DEF Save, Flush, Column, TypeOK, Rows
        <3>3. ~Owns(r) /\ pc[r] # "abandoned"
            BY <2>7, <3>2 DEF RecordFailure, Owns, InProgress, Indexers
        <3>4. PICK o \in Requests : Owns(o) \/ pc[o] = "abandoned"
            BY <3>2 DEF InProgressIsOwned, InProgress
        <3>5. o # r /\ pc'[o] = pc[o] /\ session'[o] = session[o]
            BY <2>7, <3>1, <3>3, <3>4 DEF RecordFailure, Save, TypeOK
        <3> QED
            BY <3>4, <3>5 DEF Owns
    <2>8. ASSUME NEW r \in Requests, Fault(r) PROVE Owned
        BY <2>1, <2>8 DEF Fault, PrepareFails, WorkFails, TransactionFails, SaveFails,
           RecordFailureFails, Owns, TypeOK, Indexers, SessionInv, ProcessingRow,
           PendingRow
    <2>9. CASE Crash
        BY <2>9 DEF Crash, AfterCrash, InProgressIsOwned, Owns, TypeOK, Busy, Ended,
           Indexers
    <2>10. CASE ExtractionChanges \/ UNCHANGED vars
        BY <2>10 DEF ExtractionChanges, vars, InProgressIsOwned, Owns
    <2> QED
        BY <2>2, <2>3, <2>4, <2>5, <2>6, <2>7, <2>8, <2>9, <2>10 DEF Next, Progress
<1> QED
    BY <1>1, <1>2, Typed, SessionInvariant, PTL DEF Spec

-----------------------------------------------------------------------------
(* The first attempt is exclusive.  Until a request has ended its work the    *)
(* row is neither failed nor completed, so every request past its check had   *)
(* seen no row, and UNIQUE(document_id) lets only one of those write.         *)

EndedWork == {"committed", "failing", "recording", "completed", "failed", "abandoned"}

ExclusiveInv ==
    (\A e \in Requests : pc[e] \notin EndedWork) =>
        /\ row.status \notin {"FAILED", "COMPLETED"}
        /\ \A r \in Requests :
              /\ pc[r] = "prepare" => session[r].status = "ABSENT"
              /\ AtWork(r) => row.status # "ABSENT"
              /\ \A s \in Requests : AtWork(r) /\ AtWork(s) => r = s
        /\ row.status # "ABSENT" => \E r \in Requests : AtWork(r)

\* Two requests are at work at once only after the work of one has ended.
THEOREM FirstAttemptIsExclusive == Spec => []FirstAttemptExclusive
<1>1. Init => ExclusiveInv
    BY DEF Init, NoRow, ExclusiveInv, AtWork, Indexers
<1>2. TypeOK /\ TextLoaded /\ SessionInv /\ ExclusiveInv /\ [Next]_vars => ExclusiveInv'
    <2> SUFFICES ASSUME TypeOK, TextLoaded, SessionInv, ExclusiveInv, [Next]_vars,
                        \A e \in Requests : pc'[e] \notin EndedWork
                 PROVE  ExclusiveInv'
        BY DEF ExclusiveInv
    <2> USE DEF ExclusiveInv, EndedWork, AtWork, Indexers, Goto, jobs
    <2>0. \A e \in Requests : pc[e] \notin EndedWork
        <3>1. ASSUME NEW r \in Requests,
                     ReadExtraction(r) \/ ReadIndex(r) \/ Progress(r) \/ Fault(r)
              PROVE  \A e \in Requests : pc[e] \in EndedWork => pc'[e] \in EndedWork
            <4>1. \A e \in Requests : e # r => pc'[e] = pc[e]
                BY <3>1 DEF ReadExtraction, Progress, ReadIndex, Create, Reset,
                   StartWork, DeleteChunks, InsertChunks, Embed, ClearPoints,
                   UpsertPoints, CountPoints, Complete, Reply, ReadForFailure,
                   RecordFailure, Fault, PrepareFails, WorkFails, TransactionFails,
                   SaveFails, RecordFailureFails, TypeOK
            <4>2. CASE Progress(r)
                BY <4>1, <4>2 DEF Progress, ReadIndex, Create, Reset, StartWork,
                   DeleteChunks, InsertChunks, Embed, ClearPoints, UpsertPoints,
                   CountPoints, Complete, Reply, ReadForFailure, RecordFailure, TypeOK
            <4>3. CASE ReadExtraction(r) \/ ReadIndex(r) \/ Fault(r)
                BY <4>1, <4>3 DEF ReadExtraction, ReadIndex, Fault, PrepareFails,
                   WorkFails, TransactionFails, SaveFails, RecordFailureFails, TypeOK
            <4> QED
                BY <3>1, <4>2, <4>3
        <3>2. CASE Crash
            BY <3>2 DEF Crash, AfterCrash, TypeOK
        <3>3. CASE ExtractionChanges \/ UNCHANGED vars
            BY <3>3 DEF ExtractionChanges, vars
        <3> QED
            BY <3>1, <3>2, <3>3 DEF Next
    <2>1. ASSUME NEW r \in Requests, ReadExtraction(r) \/ ReadIndex(r) PROVE ExclusiveInv'
        BY <2>0, <2>1 DEF ReadExtraction, ReadIndex, Decision, IsCurrent, TypeOK, Rows,
                          Statuses, InProgress
    <2>2. ASSUME NEW r \in Requests, Create(r) PROVE ExclusiveInv'
        BY <2>0, <2>2 DEF Create, TypeOK, PendingRow
    <2>3. ASSUME NEW r \in Requests, StartWork(r) PROVE ExclusiveInv'
        <3>1. row'.status = "PROCESSING"
            <4>1. /\ Save(r, ProcessingRow(text[r])) /\ ProcessingRow(text[r]) \in Rows
                  /\ ProcessingRow(text[r]).status = "PROCESSING"
                BY <2>3, NewRows DEF StartWork, SessionInv
            <4>2. session[r].status = "PENDING"
                <5>1. session[r] = PendingRow(text[r])
                    BY <2>3 DEF StartWork, SessionInv
                <5> QED
                    BY <5>1 DEF PendingRow
            <4> QED
                BY <4>1, <4>2, SaveStatus
        <3> QED
            BY <2>0, <2>3, <3>1 DEF StartWork, Save, TypeOK
    <2>4. ASSUME NEW r \in Requests,
                 DeleteChunks(r) \/ InsertChunks(r) \/ Embed(r) \/ ClearPoints(r)
                   \/ UpsertPoints(r) \/ CountPoints(r) \/ PrepareFails(r)
          PROVE  ExclusiveInv'
        BY <2>0, <2>4 DEF DeleteChunks, InsertChunks, Embed, ClearPoints, UpsertPoints,
                          CountPoints, PrepareFails, TypeOK
    <2>5. ASSUME NEW r \in Requests,
                 Reset(r) \/ Complete(r) \/ Reply(r) \/ ReadForFailure(r) \/ RecordFailure(r)
                   \/ WorkFails(r) \/ TransactionFails(r) \/ SaveFails(r)
                   \/ RecordFailureFails(r)
          PROVE  FALSE
        BY <2>0, <2>5 DEF Reset, Complete, Reply, ReadForFailure, RecordFailure,
           WorkFails, TransactionFails, SaveFails, RecordFailureFails, TypeOK
    <2>6. CASE Crash
        BY <2>0, <2>6 DEF Crash, AfterCrash, TypeOK, Busy, Ended
    <2>7. CASE ExtractionChanges \/ UNCHANGED vars
        BY <2>0, <2>7 DEF ExtractionChanges, vars
    <2> QED
        BY <2>1, <2>2, <2>3, <2>4, <2>5, <2>6, <2>7 DEF Next, Progress, Fault
<1>3. ExclusiveInv => FirstAttemptExclusive
    BY DEF ExclusiveInv, FirstAttemptExclusive, EndedWork
<1> QED
    BY <1>1, <1>2, <1>3, Typed, SessionInvariant, PTL DEF Spec

-----------------------------------------------------------------------------
(* The chunk rows are those of one attempt. *)

OneAttempt(rows) == rows = {} \/ \E q \in Requests : text[q] # NoText /\ rows = Generated(q)

ChunkInv ==
    /\ ChunksAreOneAttempt
    /\ \A r \in Requests :
        /\ pc[r] = "idle" => text[r] = NoText
        /\ pc[r] = "replacing" => OneAttempt(old[r])

\* The text of a request, and what it is cut into, stay what they are.
LEMMA TextKept ==
    ASSUME TypeOK, ChunkInv, [Next]_vars
    PROVE  \A q \in Requests : text[q] # NoText =>
               text'[q] = text[q] /\ Generated(q)' = Generated(q)
<1>1. \A q \in Requests : text[q] # NoText => text'[q] = text[q]
    <2>1. ASSUME NEW r \in Requests, ReadExtraction(r)
          PROVE  \A q \in Requests : text[q] # NoText => text'[q] = text[q]
        BY <2>1 DEF ReadExtraction, ChunkInv, TypeOK
    <2>2. ASSUME NEW r \in Requests, Progress(r) \/ Fault(r) PROVE text' = text
        BY <2>2 DEF Progress, ReadIndex, Create, Reset, StartWork, DeleteChunks,
           InsertChunks, Embed, ClearPoints, UpsertPoints, CountPoints, Complete,
           Reply, ReadForFailure, RecordFailure, Fault, PrepareFails, WorkFails,
           TransactionFails, SaveFails, RecordFailureFails
    <2>3. CASE ExtractionChanges \/ Crash \/ UNCHANGED vars
        BY <2>3 DEF ExtractionChanges, Crash, vars, jobs
    <2> QED
        BY <2>1, <2>2, <2>3 DEF Next
<1> QED
    BY <1>1 DEF Generated

\* The chunks of two attempts have none in common, and collide unless one has none.
LEMMA AttemptsDiffer ==
    ASSUME TypeOK, NEW q \in Requests, NEW r \in Requests,
           text[q] # NoText, text[r] # NoText
    PROVE  /\ q # r => Generated(q) \cap Generated(r) = {}
           /\ Generated(q) # {} /\ Generated(r) # {} => Collides(Generated(q), Generated(r))
<1>1. q # r => Generated(q) \cap Generated(r) = {}
    BY DEF Generated, Cut
<1>2. ASSUME Generated(q) # {}, Generated(r) # {}
      PROVE  Collides(Generated(q), Generated(r))
    <2> DEFINE first(s) == [by |-> s, index |-> 1, text |-> text[s]]
    <2>1. ASSUME NEW s \in Requests, text[s] # NoText, Generated(s) # {}
          PROVE  first(s) \in Generated(s)
        <3>1. ChunkCount[text[s]] \in Nat
            BY <2>1, ConstantsAssumption DEF TypeOK
        <3>2. 1 \in (0 + 1)..ChunkCount[text[s]]
            BY <2>1, <3>1 DEF Generated, Cut
        <3> QED
            BY <3>2 DEF Generated, Cut
    <2>2. first(q).index = first(r).index
        OBVIOUS
    <2> QED
        BY <1>2, <2>1, <2>2 DEF Collides
<1> QED
    BY <1>1, <1>2

\* Whatever the DELETE has found, the INSERTs leave the rows of one attempt.
LEMMA InsertLeavesOne ==
    ASSUME TypeOK, TextLoaded, ChunkInv, NEW r \in Requests, InsertChunks(r)
    PROVE  OneAttempt(chunks')
<1>1. text[r] # NoText /\ OneAttempt(chunks) /\ OneAttempt(old[r])
    BY ConstantsAssumption
       DEF InsertChunks, TextLoaded, ChunkInv, ChunksAreOneAttempt, OneAttempt
<1> DEFINE kept == chunks \ old[r]
<1>2. OneAttempt(kept)
    <2>1. CASE chunks = {} \/ old[r] = {}
        BY <1>1, <2>1 DEF OneAttempt
    <2>2. CASE chunks # {} /\ old[r] # {}
        <3>1. PICK q \in Requests : text[q] # NoText /\ chunks = Generated(q)
            BY <1>1, <2>2 DEF OneAttempt
        <3>2. PICK p \in Requests : text[p] # NoText /\ old[r] = Generated(p)
            BY <1>1, <2>2 DEF OneAttempt
        <3>3. kept = {} \/ kept = chunks
            BY <3>1, <3>2, AttemptsDiffer
        <3> QED
            BY <1>1, <3>3 DEF OneAttempt
    <2> QED
        BY <2>1, <2>2
<1>3. CASE Collides(kept, Generated(r))
    BY <1>1, <1>3 DEF InsertChunks
<1>4. CASE ~Collides(kept, Generated(r))
    <2>1. chunks' = kept \cup Generated(r)
        BY <1>4 DEF InsertChunks
    <2>2. kept = {} \/ Generated(r) = {}
        BY <1>1, <1>2, <1>4, AttemptsDiffer DEF OneAttempt
    <2>3. chunks' = Generated(r) \/ chunks' = kept
        BY <2>1, <2>2
    <2> QED
        BY <1>1, <1>2, <2>3 DEF OneAttempt
<1> QED
    BY <1>3, <1>4

\* The chunk rows are those of one attempt before and after every step.
LEMMA ChunkStep ==
    ASSUME TypeOK, TextLoaded, ChunkInv, [Next]_vars PROVE ChunkInv'
<1> USE DEF Goto, jobs
<1> DEFINE OneAfter(rows) ==
        rows = {} \/ \E q \in Requests : text'[q] # NoText /\ rows = Generated(q)'
<1>1. \A rows : OneAttempt(rows) => OneAfter(rows)
    BY TextKept DEF OneAttempt
<1>2. OneAfter(chunks') => ChunksAreOneAttempt'
    BY DEF ChunksAreOneAttempt
<1>3. ChunksAreOneAttempt'
    <2>1. CASE chunks' = chunks
        BY <1>1, <1>2, <2>1 DEF ChunkInv, ChunksAreOneAttempt, OneAttempt
    <2>2. CASE \E r \in Requests : InsertChunks(r)
        BY <1>1, <1>2, <2>2, InsertLeavesOne
    <2> QED
        BY <2>1, <2>2 DEF Next, ReadExtraction, Progress, ReadIndex, Create, Reset,
           StartWork, DeleteChunks, Embed, ClearPoints, UpsertPoints, CountPoints,
           Complete, Reply, ReadForFailure, RecordFailure, Fault, PrepareFails,
           WorkFails, TransactionFails, SaveFails, RecordFailureFails,
           ExtractionChanges, Crash, vars
<1>4. \A r \in Requests : pc'[r] = "idle" => text'[r] = NoText
    <2>1. \A r \in Requests : pc'[r] = "idle" => pc[r] = "idle" /\ text'[r] = text[r]
        <3>1. ASSUME NEW r \in Requests, ReadExtraction(r)
              PROVE  \A s \in Requests : pc'[s] = "idle" => pc[s] = "idle" /\ text'[s] = text[s]
            BY <3>1 DEF ReadExtraction, TypeOK
        <3>2. ASSUME NEW r \in Requests, Progress(r) \/ Fault(r)
              PROVE  text' = text /\ \A s \in Requests : pc'[s] = "idle" => pc[s] = "idle"
            BY <3>2 DEF Progress, ReadIndex, Decision, Create, Reset, StartWork,
               DeleteChunks, InsertChunks, Embed, ClearPoints, UpsertPoints,
               CountPoints, Complete, Reply, ReadForFailure, RecordFailure, Fault,
               PrepareFails, WorkFails, TransactionFails, SaveFails,
               RecordFailureFails, TypeOK
        <3>3. CASE Crash
            BY <3>3 DEF Crash, AfterCrash
        <3>4. CASE ExtractionChanges \/ UNCHANGED vars
            BY <3>4 DEF ExtractionChanges, vars
        <3> QED
            BY <3>1, <3>2, <3>3, <3>4 DEF Next
    <2> QED
        BY <2>1 DEF ChunkInv
<1>5. \A r \in Requests : pc'[r] = "replacing" => OneAfter(old'[r])
    <2>1. ASSUME NEW r \in Requests, DeleteChunks(r)
          PROVE  \A s \in Requests : pc'[s] = "replacing" => OneAttempt(old'[s])
        BY <2>1 DEF DeleteChunks, ChunkInv, ChunksAreOneAttempt, OneAttempt, TypeOK
    <2>2. ASSUME NEW r \in Requests,
                 ReadExtraction(r) \/ (Progress(r) /\ ~DeleteChunks(r)) \/ Fault(r)
          PROVE  \A s \in Requests : pc'[s] = "replacing" =>
                     pc[s] = "replacing" /\ old'[s] = old[s]
        BY <2>2 DEF ReadExtraction, Progress, ReadIndex, Decision, Create, Reset,
           StartWork, InsertChunks, Embed, ClearPoints, UpsertPoints, CountPoints,
           Complete, Reply, ReadForFailure, RecordFailure, Fault, PrepareFails,
           WorkFails, TransactionFails, SaveFails, RecordFailureFails, TypeOK
    <2>3. CASE Crash
        BY <2>3, <1>1 DEF Crash, AfterCrash, ChunkInv, Indexers
    <2>4. CASE ExtractionChanges \/ UNCHANGED vars
        BY <2>4, <1>1 DEF ExtractionChanges, vars, ChunkInv
    <2> QED
        BY <1>1, <2>1, <2>2, <2>3, <2>4 DEF Next, ChunkInv
<1>6. \A r \in Requests : OneAfter(old'[r]) => OneAttempt(old[r])'
    BY DEF OneAttempt
<1> QED
    BY <1>3, <1>4, <1>5, <1>6 DEF ChunkInv

\* The invariant of the chunk rows holds in every reachable state.
LEMMA ChunkInvariant == Spec => []ChunkInv
<1>1. Init => ChunkInv
    BY DEF Init, ChunkInv, ChunksAreOneAttempt
<1> QED
    BY <1>1, ChunkStep, Typed, PTL DEF Spec

\* However many replacements interleave, the chunk rows are those of one attempt.
THEOREM ChunksOfOneAttempt == Spec => []ChunksAreOneAttempt
<1>1. ChunkInv => ChunksAreOneAttempt
    BY DEF ChunkInv
<1> QED
    BY <1>1, ChunkInvariant, PTL

\* A search beside the requests changes nothing of what they do.
LEMMA SearchChangesNothing == SearchSpec => Spec
<1>1. SearchInit => Init
    BY DEF SearchInit
<1>2. [SearchNext]_searchVars => [Next]_vars
    BY DEF SearchNext, SearchPoints, SearchFails, SearchRows, searchVars, vars, jobs
<1> QED
    BY <1>1, <1>2, PTL DEF SearchSpec, Spec

\* Whatever Qdrant holds, an answer comes from one attempt, and from the text that the
\* completed index names.
THEOREM AnswersAreOneIndex == SearchSpec => AnswerIsOneIndex
<1> DEFINE Answered ==
        answer' # answer =>
          /\ row.status = "COMPLETED" \/ answer' = {}
          /\ \A a, b \in answer' : a.by = b.by /\ a.text = row.source
<1>1. ChunkInv /\ [SearchNext]_searchVars => [Answered]_searchVars
    <2> SUFFICES ASSUME ChunkInv, SearchRows PROVE Answered
        BY DEF SearchNext, SearchPoints, SearchFails, vars
    <2>1. \A p \in answer' : p \in chunks /\ row.status = "COMPLETED" /\ p.text = row.source
        BY DEF SearchRows, Canonical
    <2>2. \A a, b \in chunks : a.by = b.by
        BY DEF ChunkInv, ChunksAreOneAttempt, Generated, Cut
    <2> QED
        BY <2>1, <2>2
<1> QED
    BY <1>1, SearchChangesNothing, ChunkInvariant, PTL DEF SearchSpec, AnswerIsOneIndex

-----------------------------------------------------------------------------
(* One request at a time.  Then the session's copy is the row, and what is   *)
(* stored follows the stage of the one request that is busy.                 *)

\* The first b chunks are the first a and those after them.
LEMMA CutJoins ==
    ASSUME NEW r \in Requests, NEW t \in Texts, NEW a \in Nat, NEW b \in Nat, a <= b
    PROVE  Cut(r, t, 0, a) \cup Cut(r, t, a, b) = Cut(r, t, 0, b)
<1>1. ((0 + 1)..a) \cup ((a + 1)..b) = (0 + 1)..b
    OBVIOUS
<1> QED
    BY <1>1 DEF Cut

\* A text is cut into as many chunks as the chunker says.
LEMMA CutCounted ==
    ASSUME NEW r \in Requests, NEW t \in Texts, NEW n \in Nat
    PROVE  Cardinality(Cut(r, t, 0, n)) = n
<1> DEFINE f == [i \in 1..n |-> [by |-> r, index |-> i, text |-> t]]
<1>1. f \in [1..n -> Cut(r, t, 0, n)]
    BY DEF Cut
<1>2. \A i, j \in 1..n : f[i] = f[j] => i = j
    <2>1. \A i \in 1..n : f[i].index = i
        OBVIOUS
    <2> HIDE DEF f
    <2> QED
        BY <2>1
<1>3. \A c \in Cut(r, t, 0, n) : \E i \in 1..n : f[i] = c
    BY DEF Cut
<1>4. ExistsBijection(1..n, Cut(r, t, 0, n))
    <2> HIDE DEF f
    <2> QED
        BY <1>1, <1>2, <1>3, Fun_IsBij DEF ExistsBijection
<1>5. IsFiniteSet(1..n) /\ Cardinality(1..n) = n
    BY FS_Interval
<1> QED
    BY <1>4, <1>5, FS_Bijection

Stored == {"embedding", "clearing", "upserting", "verified", "committed"}
Unsent == {"idle", "loaded", "prepare", "claimed", "working", "replacing", "embedding",
           "clearing"}

SerialInv ==
    /\ \A r \in Requests : pc[r] \in Unsent => sent[r] = 0
    /\ ~overlap =>
        /\ IndexComplete
        /\ \A r, s \in Requests : pc[r] \in Busy /\ pc[s] \in Busy => r = s
        /\ \A r \in Requests :
            /\ pc[r] \in Busy \ {"failing"} => session[r] = row
            /\ pc[r] \in {"failing", "recording"} => row.status \in {"PROCESSING", "COMPLETED"}
            /\ pc[r] = "replacing" => old[r] = chunks
            /\ pc[r] \in Stored => chunks = Generated(r)
            /\ pc[r] = "upserting" =>
                  /\ points = Cut(r, text[r], 0, sent[r])
                  /\ sent[r] <= ChunkCount[text[r]]
            /\ pc[r] = "verified" => points = Generated(r)

\* Nothing is sent before the upserts.
LEMMA UnsentStep ==
    ASSUME TypeOK, SerialInv, [Next]_vars
    PROVE  \A r \in Requests : pc'[r] \in Unsent => sent'[r] = 0
<1> USE DEF Goto, jobs, Unsent
<1>1. ASSUME NEW r \in Requests, ReadExtraction(r) \/ Fault(r) PROVE
      sent' = sent /\ \A s \in Requests : pc'[s] \in Unsent => pc[s] \in Unsent
    BY <1>1 DEF ReadExtraction, Fault, PrepareFails, WorkFails, TransactionFails,
       SaveFails, RecordFailureFails, TypeOK
<1>2. ASSUME NEW r \in Requests, Progress(r), ~UpsertPoints(r) PROVE
      sent' = sent /\ \A s \in Requests : pc'[s] \in Unsent => pc[s] \in Unsent
    BY <1>2 DEF Progress, ReadIndex, Decision, Create, Reset, StartWork, DeleteChunks,
       InsertChunks, Embed, ClearPoints, CountPoints, Complete, Reply, ReadForFailure,
       RecordFailure, TypeOK
<1>3. ASSUME NEW r \in Requests, UpsertPoints(r) PROVE
      \A s \in Requests : pc'[s] \in Unsent => pc[s] \in Unsent /\ sent'[s] = sent[s]
    BY <1>3 DEF UpsertPoints, TypeOK
<1>4. CASE Crash
    BY <1>4 DEF Crash, AfterCrash, Indexers, SerialInv
<1>5. CASE ExtractionChanges \/ UNCHANGED vars
    BY <1>5 DEF ExtractionChanges, vars, SerialInv
<1> QED
    BY <1>1, <1>2, <1>3, <1>4, <1>5 DEF Next, SerialInv

\* A request that saves has the row as it is, so the row becomes what it saves.
LEMMA SerialSave ==
    ASSUME TypeOK, NEW r \in Requests, NEW new \in Rows, Save(r, new), session[r] = row
    PROVE  row' = new /\ session' = [session EXCEPT ![r] = new]
BY DEF Save, Flush, Column, Rows, TypeOK

\* While requests come one at a time, the invariant is kept.
LEMMA SerialStep ==
    ASSUME TypeOK, TextLoaded, SessionInv, ChunkInv, SerialInv, [Next]_vars
    PROVE  SerialInv'
<1> SUFFICES ASSUME ~overlap' PROVE SerialInv'
    BY UnsentStep DEF SerialInv
<1> DEFINE Rest ==
        /\ IndexComplete
        /\ \A r, s \in Requests : pc[r] \in Busy /\ pc[s] \in Busy => r = s
        /\ \A r \in Requests :
            /\ pc[r] \in Busy \ {"failing"} => session[r] = row
            /\ pc[r] \in {"failing", "recording"} => row.status \in {"PROCESSING", "COMPLETED"}
            /\ pc[r] = "replacing" => old[r] = chunks
            /\ pc[r] \in Stored => chunks = Generated(r)
            /\ pc[r] = "upserting" =>
                  /\ points = Cut(r, text[r], 0, sent[r])
                  /\ sent[r] <= ChunkCount[text[r]]
            /\ pc[r] = "verified" => points = Generated(r)
<1> SUFFICES Rest'
    BY UnsentStep DEF SerialInv
<1> USE DEF Goto, jobs
<1>0. ~overlap /\ Rest
    <2>1. ~overlap
        BY DEF Next, ReadExtraction, Progress, ReadIndex, Create, Reset, StartWork,
           DeleteChunks, InsertChunks, Embed, ClearPoints, UpsertPoints, CountPoints,
           Complete, Reply, ReadForFailure, RecordFailure, Fault, PrepareFails,
           WorkFails, TransactionFails, SaveFails, RecordFailureFails,
           ExtractionChanges, Crash, vars, TypeOK
    <2> QED
        BY <2>1 DEF SerialInv
<1>1. ASSUME NEW r \in Requests, ReadExtraction(r) PROVE Rest'
    <2>1. /\ UNCHANGED <<row, chunks, points, session, old, sent>>
          /\ \A s \in Requests : s # r => pc'[s] = pc[s] /\ text'[s] = text[s]
          /\ pc'[r] \notin Busy
        BY <1>1 DEF ReadExtraction, TypeOK, Busy, Indexers
    <2> QED
        BY <1>0, <2>1 DEF Generated, IndexComplete, Busy, Indexers, Stored
<1>2. ASSUME NEW r \in Requests, row' = row,
             UNCHANGED <<text, chunks, points, old, sent>>,
             \A s \in Requests : s # r => pc'[s] = pc[s] /\ session'[s] = session[s],
             \/ pc'[r] \notin Busy
             \/ pc[r] \in Busy /\ pc'[r] = "failing" /\ row.status \in {"PROCESSING", "COMPLETED"}
             \/ pc[r] \in Indexers /\ pc'[r] = "recording" /\ session'[r] = session[r]
                /\ row.status = "PROCESSING"
             \/ pc[r] = "failing" /\ pc'[r] = "recording" /\ session'[r] = row
             \/ /\ pc'[r] = "prepare" /\ session'[r] = row
                /\ \A s \in Requests : pc[s] \notin Busy
      PROVE  Rest'
    BY <1>0, <1>2 DEF Generated, IndexComplete, Busy, Indexers, Stored
<1>3. ASSUME NEW r \in Requests, ReadIndex(r) PROVE Rest'
    <2>1. /\ UNCHANGED <<row, text, chunks, points, old, sent>>
          /\ \A s \in Requests : s # r => pc'[s] = pc[s] /\ session'[s] = session[s]
          /\ session'[r] = row /\ pc'[r] \in {"returned", "conflict", "prepare"}
          /\ pc'[r] = "prepare" => \A s \in Requests : pc[s] \notin Busy
        BY <1>3, Stages DEF ReadIndex, TypeOK
    <2>2. CASE pc'[r] = "prepare"
        BY <1>2, <2>1, <2>2
    <2>3. CASE pc'[r] # "prepare"
        BY <1>2, <2>1, <2>3 DEF Busy, Indexers
    <2> QED
        BY <2>2, <2>3
\* A write of the row that leaves everything else alone.
<1>4. ASSUME NEW r \in Requests, pc[r] \in Busy, pc'[r] \notin Stored \cup {"replacing"},
             row'.status # "COMPLETED",
             pc'[r] \in Busy => session'[r] = row',
             pc'[r] \notin {"failing", "recording"},
             \A s \in Requests : s # r => pc'[s] = pc[s]
      PROVE  Rest'
    BY <1>0, <1>4 DEF IndexComplete, Busy, Indexers, Stored
<1>5. ASSUME NEW r \in Requests, Create(r) PROVE Rest'
    <2>1. CASE pc'[r] = "claimed"
        BY <1>4, <1>5, <2>1 DEF Create, TypeOK, PendingRow, Busy, Stored
    <2>2. CASE pc'[r] # "claimed"
        BY <1>2, <1>5, <2>2 DEF Create, TypeOK, Busy, Indexers
    <2> QED
        BY <2>1, <2>2
<1>6. ASSUME NEW r \in Requests, Reset(r) PROVE Rest'
    <2>1. PendingRow(text[r]) \in Rows /\ PendingRow(text[r]).status = "PENDING"
        BY <1>6, NewRows DEF Reset
    <2>2. session[r] = row
        BY <1>0, <1>6 DEF Reset, Busy
    <2>3. row' = PendingRow(text[r]) /\ session'[r] = PendingRow(text[r])
        BY <1>6, <2>1, <2>2, SerialSave DEF Reset, TypeOK
    <2> QED
        BY <1>4, <1>6, <2>1, <2>3 DEF Reset, TypeOK, Busy, Stored
<1>7. ASSUME NEW r \in Requests, StartWork(r) PROVE Rest'
    <2>1. /\ Save(r, ProcessingRow(text[r])) /\ ProcessingRow(text[r]) \in Rows
          /\ ProcessingRow(text[r]).status = "PROCESSING"
        BY <1>7, NewRows DEF StartWork, SessionInv
    <2>2. session[r] = row
        BY <1>0, <1>7 DEF StartWork, Busy
    <2>3. row' = ProcessingRow(text[r]) /\ session'[r] = ProcessingRow(text[r])
        BY <1>7, <2>1, <2>2, SerialSave DEF StartWork, TypeOK
    <2> QED
        BY <1>4, <1>7, <2>1, <2>3 DEF StartWork, TypeOK, Busy, Stored
\* An indexer has the row as PROCESSING, so nothing is promised of the index.
<1>8. ASSUME NEW r \in Requests, pc[r] \in Indexers
      PROVE  row.status = "PROCESSING" /\ session[r] = row /\ text[r] \in Texts
    <2>1. session[r] = row /\ session[r] = ProcessingRow(text[r])
        BY <1>0, <1>8 DEF SessionInv, Busy, Indexers
    <2>2. ProcessingRow(text[r]).status = "PROCESSING"
        BY DEF ProcessingRow, PendingRow
    <2> QED
        BY <1>8, <2>1, <2>2 DEF TextLoaded, Indexers
<1>9. ASSUME NEW r \in Requests, pc[r] \in Indexers, UNCHANGED <<row, session, text>>,
             pc'[r] \in Indexers, \A s \in Requests : s # r => pc'[s] = pc[s],
             pc'[r] = "replacing" => old'[r] = chunks',
             pc'[r] \in Stored => chunks' = Generated(r),
             pc'[r] = "upserting" =>
                /\ points' = Cut(r, text[r], 0, sent'[r])
                /\ sent'[r] <= ChunkCount[text[r]],
             pc'[r] = "verified" => points' = Generated(r)
      PROVE  Rest'
    BY <1>0, <1>8, <1>9 DEF IndexComplete, Generated, Busy, Indexers, Stored
<1>10. ASSUME NEW r \in Requests, DeleteChunks(r) PROVE Rest'
    BY <1>9, <1>10 DEF DeleteChunks, TypeOK, Indexers, Stored
<1>11. ASSUME NEW r \in Requests, InsertChunks(r) PROVE Rest'
    <2>1. pc[r] = "replacing" /\ chunks \ old[r] = {}
        BY <1>0, <1>11 DEF InsertChunks
    <2>2. chunks' = Generated(r) /\ pc' = [pc EXCEPT ![r] = "embedding"]
        BY <1>11, <2>1 DEF InsertChunks, Collides
    <2> QED
        BY <1>9, <1>11, <2>1, <2>2 DEF InsertChunks, TypeOK, Indexers
<1>12. ASSUME NEW r \in Requests, Embed(r) PROVE Rest'
    BY <1>0, <1>9, <1>12 DEF Embed, TypeOK, Indexers, Stored
<1>13. ASSUME NEW r \in Requests, ClearPoints(r) PROVE Rest'
    <2>1. sent[r] = 0 /\ sent' = sent /\ chunks = Generated(r) /\ pc[r] \in Indexers
        BY <1>0, <1>13 DEF ClearPoints, SerialInv, Unsent, Stored, Indexers
    <2>2. Cut(r, text[r], 0, 0) = {}
        BY DEF Cut
    <2>3. 0 <= ChunkCount[text[r]]
        BY <1>8, <2>1, ConstantsAssumption
    <2> QED
        BY <1>9, <1>13, <2>1, <2>2, <2>3 DEF ClearPoints, TypeOK, Indexers
<1>14. ASSUME NEW r \in Requests, UpsertPoints(r) PROVE Rest'
    <2> DEFINE upto == Least(sent[r] + UpsertBatch, ChunkCount[text[r]])
    <2>1. /\ pc[r] = "upserting" /\ pc' = pc /\ chunks' = chunks /\ sent[r] \in Nat
          /\ points' = points \cup Cut(r, text[r], sent[r], upto) /\ sent'[r] = upto
        BY <1>14 DEF UpsertPoints, TypeOK
    <2>2. /\ text[r] \in Texts /\ ChunkCount[text[r]] \in Nat
          /\ points = Cut(r, text[r], 0, sent[r]) /\ sent[r] <= ChunkCount[text[r]]
          /\ chunks = Generated(r)
        BY <1>0, <1>8, <2>1, ConstantsAssumption DEF Indexers, Stored
    <2>3. upto \in Nat /\ sent[r] <= upto /\ upto <= ChunkCount[text[r]]
        BY <2>1, <2>2, ConstantsAssumption DEF Least
    <2>4. points' = Cut(r, text[r], 0, upto)
        BY <2>1, <2>2, <2>3, CutJoins
    <2> QED
        BY <1>9, <1>14, <2>1, <2>2, <2>3, <2>4 DEF UpsertPoints, Indexers
<1>15. ASSUME NEW r \in Requests, CountPoints(r) PROVE Rest'
    <2>1. /\ pc[r] = "upserting" /\ sent[r] = ChunkCount[text[r]]
          /\ UNCHANGED <<row, chunks, points, session, text, old, sent>>
          /\ pc'[r] \in {"verified", "recording"}
          /\ \A s \in Requests : s # r => pc'[s] = pc[s]
        BY <1>15 DEF CountPoints, TypeOK
    <2>2. points = Generated(r) /\ chunks = Generated(r) /\ row.status = "PROCESSING"
        BY <1>0, <1>8, <2>1 DEF Generated, Indexers, Stored
    <2>3. CASE pc'[r] = "verified"
        BY <1>9, <2>1, <2>2, <2>3 DEF Indexers
    <2>4. CASE pc'[r] = "recording"
        BY <1>2, <2>1, <2>2, <2>4 DEF Indexers
    <2> QED
        BY <2>1, <2>3, <2>4
<1>16. ASSUME NEW r \in Requests, Complete(r) PROVE Rest'
    <2> DEFINE new == [session[r] EXCEPT !.status = "COMPLETED", !.error = NoError,
                                         !.count = ChunkCount[text[r]]]
    <2>1. pc[r] = "verified" /\ text[r] \in Texts /\ session[r] = row
        BY <1>8, <1>16 DEF Complete, Indexers
    <2>2. session[r] = ProcessingRow(text[r]) /\ ProcessingRow(text[r]).source = text[r]
        BY <2>1 DEF SessionInv, Indexers, ProcessingRow, PendingRow
    <2>3. /\ new \in Rows /\ new.status = "COMPLETED" /\ new.source = text[r]
          /\ new.count = ChunkCount[text[r]]
        BY <2>1, <2>2, ConstantsAssumption DEF TypeOK, Rows, Statuses
    <2>4. Save(r, new)
        BY <1>16 DEF Complete
    <2> HIDE DEF new
    <2>5. row' = new /\ session'[r] = new
        BY <2>1, <2>3, <2>4, SerialSave DEF TypeOK
    <2>6. /\ pc'[r] = "committed" /\ UNCHANGED <<chunks, points, text>>
          /\ \A s \in Requests : s # r => pc'[s] = pc[s]
        BY <1>16 DEF Complete, TypeOK
    <2>7. points = Generated(r) /\ chunks = Generated(r)
        BY <1>0, <2>1 DEF Stored
    <2>8. IndexComplete'
        <3>1. Cardinality(Generated(r)) = ChunkCount[text[r]]
            BY <2>1, CutCounted, ConstantsAssumption DEF Generated
        <3>2. \A c \in Generated(r) : c.text = text[r]
            BY DEF Generated, Cut
        <3> QED
            BY <2>3, <2>5, <2>6, <2>7, <3>1, <3>2 DEF IndexComplete
    <2> QED
        BY <1>0, <2>1, <2>5, <2>6, <2>7, <2>8 DEF Generated, Busy, Indexers, Stored
<1>17. ASSUME NEW r \in Requests, Reply(r) \/ ReadForFailure(r) PROVE Rest'
    BY <1>2, <1>17 DEF Reply, ReadForFailure, TypeOK, Busy, Indexers
<1>18. ASSUME NEW r \in Requests, RecordFailure(r) PROVE Rest'
    <2>1. PICK code \in ErrorCodes :
              Save(r, [session[r] EXCEPT !.status = "FAILED", !.count = 0, !.error = code])
        BY <1>18 DEF RecordFailure
    <2> DEFINE new == [session[r] EXCEPT !.status = "FAILED", !.count = 0, !.error = code]
    <2>2. new \in Rows /\ new.status = "FAILED" /\ Save(r, new)
        BY <2>1 DEF TypeOK, Rows, Statuses
    <2>3. session[r] = row /\ pc[r] \in Busy
        BY <1>0, <1>18 DEF RecordFailure, Busy
    <2> HIDE DEF new
    <2>4. row' = new
        BY <2>2, <2>3, SerialSave
    <2> QED
        BY <1>4, <1>18, <2>2, <2>3, <2>4 DEF RecordFailure, TypeOK, Busy, Indexers,
           Stored
<1>19. ASSUME NEW r \in Requests, Fault(r) PROVE Rest'
    <2>1. /\ UNCHANGED <<row, text, chunks, points, old, sent, session>>
          /\ \A s \in Requests : s # r => pc'[s] = pc[s]
          /\ \/ pc'[r] \notin Busy
             \/ pc'[r] = "failing" /\ pc[r] \in Indexers \cup {"committed"}
             \/ pc'[r] = "recording" /\ pc[r] \in Indexers
        BY <1>19 DEF Fault, PrepareFails, WorkFails, TransactionFails, SaveFails,
           RecordFailureFails, TypeOK, Busy, Indexers
    <2>2. pc[r] = "committed" => row.status = "COMPLETED"
        BY <1>0 DEF SessionInv, Busy
    <2> QED
        BY <1>2, <1>8, <2>1, <2>2 DEF Busy
<1>20. CASE Crash
    <2>1. \A s \in Requests : pc'[s] \notin Busy
        BY <1>20 DEF Crash, AfterCrash, TypeOK, Busy, Ended, Indexers
    <2> QED
        BY <1>0, <1>20, <2>1 DEF Crash, IndexComplete, Busy, Indexers, Stored
<1>21. CASE ExtractionChanges \/ UNCHANGED vars
    <2>1. UNCHANGED <<row, chunks, points, session, text, old, sent, pc>>
        BY <1>21 DEF ExtractionChanges, vars
    <2> QED
        BY <1>0, <2>1 DEF IndexComplete, Generated
<1> QED
    BY <1>1, <1>3, <1>5, <1>6, <1>7, <1>10, <1>11, <1>12, <1>13, <1>14, <1>15, <1>16,
       <1>17, <1>18, <1>19, <1>20, <1>21 DEF Next, Progress

\* The invariant of requests that come one at a time, in every reachable state.
LEMMA SerialInvariant == Spec => []SerialInv
<1>1. Init => SerialInv
    BY DEF Init, SerialInv, NoRow, IndexComplete, Busy, Indexers, Stored
<1> QED
    BY <1>1, SerialStep, Typed, SessionInvariant, ChunkInvariant, PTL DEF Spec

\* Through every fault, restart, retry and change of the text, a completed index is
\* complete: what it names is stored, counted and can be found.
THEOREM CompletedIndexIsComplete == Spec => []SerialIndexComplete
<1>1. SerialInv => SerialIndexComplete
    BY DEF SerialInv, SerialIndexComplete
<1> QED
    BY <1>1, SerialInvariant, PTL

-----------------------------------------------------------------------------
(* Refinement: one request at a time implements Lifecycle. *)

\* The serial specification is the full one in which no two requests overlap.
LEMMA SerialSpecIsSpec == SerialSpec => Spec /\ []~overlap
<1>1. Init => ~overlap
    BY DEF Init
<1>2. ~overlap /\ [Next /\ ~overlap']_vars => ~overlap'
    BY DEF vars
<1>3. [Next /\ ~overlap']_vars => [Next]_vars
    BY DEF vars
<1> QED
    BY <1>1, <1>2, <1>3, PTL DEF SerialSpec, Spec

\* While requests come one at a time the index goes through Lifecycle's states; a
\* completed one is renewed only when nobody can take its completion back.
THEOREM SerialImplementsLifecycle == SerialSpec => ImplementsLifecycle
<1>1. Init => Promise!Init
    BY DEF Init, NoRow, Promise!Init, Final
<1>2. TypeOK /\ TextLoaded /\ SessionInv /\ SerialInv /\ ~overlap /\ [Next /\ ~overlap']_vars
        => [Promise!Next]_(Promise!lifecycle)
    <2> SUFFICES ASSUME TypeOK, TextLoaded, SessionInv, SerialInv, ~overlap,
                        [Next /\ ~overlap']_vars
                 PROVE  [Promise!Next]_(Promise!lifecycle)
        OBVIOUS
    <2> USE DEF Goto, jobs
    <2> DEFINE Step == \/ /\ row'.status = row.status
                          /\ (Final' <=> Final) \/ (row.status = "COMPLETED" /\ Final')
                       \/ Promise!Claim \/ Promise!Start \/ Promise!Succeed
                       \/ Promise!Fail
    <2>0. ASSUME Step PROVE [Promise!Next]_(Promise!lifecycle)
        BY <2>0 DEF Promise!Next, Promise!lifecycle, Promise!Settle, Final
    <2>1. /\ \A r, s \in Requests : pc[r] \in Busy /\ pc[s] \in Busy => r = s
          /\ \A r \in Requests :
                /\ pc[r] \in Busy \ {"failing"} => session[r] = row
                /\ pc[r] \in {"failing", "recording"} =>
                      row.status \in {"PROCESSING", "COMPLETED"}
        BY DEF SerialInv
    <2>2. ASSUME NEW r \in Requests, row' = row,
                 \A s \in Requests : s # r => pc'[s] = pc[s],
                 pc[r] \notin {"committed", "failing", "recording"},
                 pc'[r] \in {"committed", "failing", "recording"} => row.status # "COMPLETED"
          PROVE  Step
        BY <2>2 DEF Final
    <2>3. ASSUME NEW r \in Requests, ReadExtraction(r) \/ ReadIndex(r) PROVE Step
        BY <2>2, <2>3, Stages DEF ReadExtraction, ReadIndex, TypeOK
    <2>4. ASSUME NEW r \in Requests, Create(r) PROVE Step
        BY <2>2, <2>4 DEF Create, Final, PendingRow, Promise!Claim, TypeOK
    <2>5. ASSUME NEW r \in Requests, Reset(r) PROVE Step
        <3>1. PendingRow(text[r]) \in Rows /\ PendingRow(text[r]).status = "PENDING"
            BY <2>5, NewRows DEF Reset
        <3>2. session[r] = row /\ row.status \in {"COMPLETED", "FAILED"}
            BY <2>1, <2>5 DEF Reset, Busy, SessionInv, TypeOK, Rows, Statuses,
               InProgress
        <3>3. row'.status = "PENDING"
            BY <2>5, <3>1, <3>2, SerialSave DEF Reset
        <3>4. row.status = "COMPLETED" => Final
            BY <2>1, <2>5 DEF Reset, Final, Busy
        <3> QED
            BY <3>2, <3>3, <3>4 DEF Final, Promise!Claim
    <2>6. ASSUME NEW r \in Requests, StartWork(r) PROVE Step
        <3>1. /\ Save(r, ProcessingRow(text[r])) /\ ProcessingRow(text[r]) \in Rows
              /\ ProcessingRow(text[r]).status = "PROCESSING"
            BY <2>6, NewRows DEF StartWork, SessionInv
        <3>2. session[r] = row /\ session[r] = PendingRow(text[r])
            BY <2>1, <2>6 DEF StartWork, Busy, SessionInv
        <3>3. row.status = "PENDING"
            BY <3>2 DEF PendingRow
        <3>4. row'.status = "PROCESSING"
            BY <3>1, <3>2, SerialSave
        <3> QED
            BY <3>3, <3>4 DEF Final, Promise!Start
    <2>7. ASSUME NEW r \in Requests, pc[r] \in Indexers
          PROVE  row.status = "PROCESSING" /\ session[r] = row
        <3>1. session[r] = row /\ session[r] = ProcessingRow(text[r])
            BY <2>1, <2>7 DEF SessionInv, Busy, Indexers
        <3>2. ProcessingRow(text[r]).status = "PROCESSING"
            BY DEF ProcessingRow, PendingRow
        <3> QED
            BY <3>1, <3>2
    <2>8. ASSUME NEW r \in Requests,
                 DeleteChunks(r) \/ InsertChunks(r) \/ Embed(r) \/ ClearPoints(r)
                   \/ UpsertPoints(r) \/ CountPoints(r)
          PROVE  Step
        <3>1. /\ row' = row /\ pc[r] \in Indexers
              /\ \A s \in Requests : s # r => pc'[s] = pc[s]
            BY <2>8 DEF DeleteChunks, InsertChunks, Embed, ClearPoints, UpsertPoints,
                        CountPoints, TypeOK, Indexers
        <3> QED
            BY <2>2, <2>7, <3>1 DEF Indexers
    <2>9. ASSUME NEW r \in Requests, Complete(r) PROVE Step
        <3>1. pc[r] \in Indexers /\ pc'[r] = "committed"
            BY <2>9 DEF Complete, Indexers, TypeOK
        <3>2. row'.status = "COMPLETED"
            BY <2>7, <2>9, <3>1 DEF Complete, Save, Flush, Column, TypeOK, Rows
        <3> QED
            BY <2>7, <3>1, <3>2 DEF Final, Promise!Succeed
    <2>10. ASSUME NEW r \in Requests, Reply(r) PROVE Step
        <3>1. row' = row /\ row.status = "COMPLETED"
            BY <2>1, <2>10 DEF Reply, SessionInv, Busy
        <3>2. Final'
            BY <2>1, <2>10, <3>1 DEF Reply, Final, Busy, TypeOK
        <3> QED
            BY <3>1, <3>2
    <2>11. ASSUME NEW r \in Requests, ReadForFailure(r) PROVE Step
        <3>1. row' = row /\ ~Final /\ ~Final'
            BY <2>11 DEF ReadForFailure, Final, TypeOK
        <3> QED
            BY <3>1
    <2>12. ASSUME NEW r \in Requests, RecordFailure(r) PROVE Step
        <3>1. row'.status = "FAILED"
            BY <2>1, <2>12 DEF RecordFailure, Save, Flush, Column, Rows, TypeOK, Busy
        <3>2. row.status \in {"PROCESSING", "COMPLETED"} /\ ~Final
            BY <2>1, <2>12 DEF RecordFailure, Final
        <3> QED
            BY <3>1, <3>2 DEF Final, Promise!Fail
    <2>13. ASSUME NEW r \in Requests, Fault(r) PROVE Step
        <3>1. row' = row /\ (\A s \in Requests : s # r => pc'[s] = pc[s])
            BY <2>13 DEF Fault, PrepareFails, WorkFails, TransactionFails, SaveFails,
               RecordFailureFails, TypeOK
        <3>2. CASE pc[r] \in {"failing", "recording", "committed"}
            <4>1. ~Final
                BY <3>2 DEF Final
            <4>2. Final' => row.status = "COMPLETED"
                BY <3>1 DEF Final
            <4> QED
                BY <3>1, <4>1, <4>2
        <3>3. CASE pc[r] \notin {"failing", "recording", "committed"}
            <4>1. pc'[r] \in {"committed", "failing", "recording"} => pc[r] \in Indexers
                BY <2>13, <3>3 DEF Fault, PrepareFails, WorkFails, TransactionFails,
                   SaveFails, RecordFailureFails, TypeOK, Indexers
            <4> QED
                BY <2>2, <2>7, <3>1, <3>3, <4>1
        <3> QED
            BY <3>2, <3>3
    <2>14. ASSUME Crash PROVE Step
        <3>1. \A r \in Requests : pc'[r] \notin {"committed", "failing", "recording"}
            BY <2>14 DEF Crash, AfterCrash, Indexers
        <3> QED
            BY <2>14, <3>1 DEF Crash, Final
    <2>15. ASSUME ExtractionChanges \/ UNCHANGED vars PROVE Step
        BY <2>15 DEF ExtractionChanges, vars, Final
    <2> QED
        BY <2>0, <2>3, <2>4, <2>5, <2>6, <2>8, <2>9, <2>10, <2>11, <2>12, <2>13, <2>14,
           <2>15 DEF Next, Progress
<1> QED
    BY <1>1, <1>2, SerialSpecIsSpec, Typed, SessionInvariant, SerialInvariant,
       PTL DEF SerialSpec, ImplementsLifecycle, Promise!Spec

-----------------------------------------------------------------------------
\* All of it holds of requests with a search beside them, too.
THEOREM SearchLeavesIndexSound ==
    SearchSpec => [](TypeOK /\ InProgressIsOwned /\ ChunksAreOneAttempt /\ SerialIndexComplete)
BY SearchChangesNothing, IndexTyped, InProgressOwned, ChunksOfOneAttempt,
   CompletedIndexIsComplete, PTL
=============================================================================
