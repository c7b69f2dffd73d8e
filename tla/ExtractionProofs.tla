-------------------------- MODULE ExtractionProofs --------------------------
(***************************************************************************)
(* What holds of Extraction for every set of requests, texts and codes.    *)
(***************************************************************************)
EXTENDS ExtractionPage, TLAPS

\* A flush leaves each column as it was, or with the session's new value.
LEMMA FlushType ==
    ASSUME NEW a \in Rows, NEW b \in Rows, NEW c \in Rows
    PROVE  Flush(a, b, c) \in Rows
BY DEF Flush, Column, Rows

\* No row, and the row a claim leaves, are rows.
LEMMA RowsTyped == NoRow \in Rows /\ PendingRow \in Rows
BY ConstantsAssumption DEF Rows, NoRow, PendingRow, Statuses, InProgress

\* What the decision, and the crash, can make of a stage.
LEMMA Stages ==
    ASSUME TypeOK, NEW r \in Requests
    PROVE  /\ Decision(row) \in {"returned", "conflict", "prepare"}
           /\ AfterCrash(pc[r]) \in {"idle"} \cup Busy \cup Ended
BY DEF TypeOK, Decision, AfterCrash, Busy, Ended

\* Each variable stays in its type, in every step of every request.
THEOREM TypeCorrect == Spec => []TypeOK
<1>1. Init => TypeOK
  BY RowsTyped DEF Init, TypeOK
<1>2. TypeOK /\ [Next]_vars => TypeOK'
  <2> SUFFICES ASSUME TypeOK, [Next]_vars PROVE TypeOK'
    OBVIOUS
  <2> USE DEF TypeOK, Goto
  <2>1. ASSUME NEW r \in Requests, Read(r) PROVE TypeOK'
    BY <2>1, Stages DEF Read, Busy, Ended
  <2>2. ASSUME NEW r \in Requests, NEW new \in Rows, Save(r, new)
        PROVE  row' \in Rows /\ session' \in [Requests -> Rows]
    BY <2>2, FlushType DEF Save
  <2>3. ASSUME NEW r \in Requests, Progress(r) PROVE TypeOK'
    <3>1. CASE Create(r)
      BY <3>1, RowsTyped DEF Create, Busy, Ended
    <3>2. CASE Reset(r)
      BY <3>2, <2>2, RowsTyped DEF Reset, Busy
    <3>3. CASE StartWork(r)
      <4>1. [session[r] EXCEPT !.status = "PROCESSING"] \in Rows
        BY DEF Rows, Statuses, InProgress
      <4> QED
        BY <3>3, <4>1, <2>2 DEF StartWork, Busy
    <3>4. CASE Complete(r)
      <4>1. ASSUME NEW t \in Texts
            PROVE  [status |-> "COMPLETED", text |-> t, error |-> NoError,
                    source |-> Original] \in Rows
        BY DEF Rows, Statuses
      <4> QED
        BY <3>4, <4>1, <2>2 DEF Complete, Busy
    <3>5. CASE Reply(r)
      BY <3>5 DEF Reply, Ended
    <3>6. CASE ReadForFailure(r)
      BY <3>6 DEF ReadForFailure, Busy
    <3>7. CASE RecordFailure(r)
      <4>1. ASSUME NEW code \in ErrorCodes
            PROVE  [session[r] EXCEPT !.status = "FAILED", !.text = Blank,
                                      !.error = code] \in Rows
        BY ConstantsAssumption DEF Rows, Statuses
      <4> QED
        BY <3>7, <4>1, <2>2 DEF RecordFailure, Ended
    <3> QED
      BY <2>3, <3>1, <3>2, <3>3, <3>4, <3>5, <3>6, <3>7 DEF Progress
  <2>4. ASSUME NEW r \in Requests, Fault(r) PROVE TypeOK'
    BY <2>4 DEF Fault, PrepareFails, WorkFails, TransactionFails, SaveFails,
       RecordFailureFails, Busy, Ended
  <2>5. CASE Crash
    BY <2>5, Stages DEF Crash
  <2>6. CASE UNCHANGED vars
    BY <2>6 DEF vars
  <2> QED
    BY <2>1, <2>3, <2>4, <2>5, <2>6 DEF Next
<1> QED
  BY <1>1, <1>2, PTL DEF Spec

-----------------------------------------------------------------------------
(* What a request knows of its own copy of the row, in every stage and       *)
(* whatever the others do to the row meanwhile.                              *)

ProcessingRow == [PendingRow EXCEPT !.status = "PROCESSING"]

SessionInv ==
    /\ row.status # "ABSENT" => row.source = Original
    /\ \A r \in Requests :
          /\ session[r].status # "ABSENT" =>
                row.status # "ABSENT" /\ session[r].source = Original
          /\ pc[r] = "prepare" => session[r].status \in {"ABSENT", "FAILED"}
          /\ pc[r] = "claimed" => session[r] = PendingRow
          /\ pc[r] = "working" => session[r] = ProcessingRow
          /\ pc[r] = "committed" => session[r].status = "COMPLETED"
          /\ pc[r] \in {"claimed", "working", "committed", "failing", "recording"} =>
                row.status # "ABSENT"
          /\ pc[r] = "recording" => session[r].status # "ABSENT"

\* What extract() has found when it returns early, refuses or goes on.
LEMMA DecisionCases ==
    ASSUME TypeOK, SessionInv
    PROVE  /\ Decision(row) = "returned" <=> row.status = "COMPLETED"
           /\ Decision(row) = "conflict" <=> row.status \in InProgress
           /\ Decision(row) = "prepare" <=> row.status \in {"ABSENT", "FAILED"}
BY DEF Decision, Reusable, SessionInv, TypeOK, Rows, Statuses, InProgress

\* What a request that saves leaves in the row, when it has something to change.
LEMMA SaveStatus ==
    ASSUME TypeOK, NEW r \in Requests, NEW new \in Rows, Save(r, new)
    PROVE  /\ session'[r] = new
           /\ \A s \in Requests : s # r => session'[s] = session[s]
           /\ row'.status = IF new.status = session[r].status THEN row.status
                                                              ELSE new.status
           /\ row'.source = IF new.source = session[r].source THEN row.source
                                                              ELSE new.source
BY DEF Save, Flush, Column, TypeOK

\* The session invariant holds in every reachable state.
LEMMA SessionInvariant == Spec => []SessionInv
<1>1. Init => SessionInv
  BY DEF Init, NoRow, SessionInv
<1>2. TypeOK /\ SessionInv /\ [Next]_vars => SessionInv'
  <2> SUFFICES ASSUME TypeOK, SessionInv, [Next]_vars PROVE SessionInv'
    OBVIOUS
  <2>1. ASSUME NEW r \in Requests, Read(r) PROVE SessionInv'
    BY <2>1, Stages, DecisionCases DEF Read, SessionInv, TypeOK, Goto
  <2>2. ASSUME NEW r \in Requests, Create(r) PROVE SessionInv'
    BY <2>2 DEF Create, SessionInv, TypeOK, Goto, PendingRow
  <2>3. ASSUME NEW r \in Requests, Reset(r) PROVE SessionInv'
    BY <2>3, SaveStatus, RowsTyped DEF Reset, SessionInv, TypeOK, Goto, PendingRow
  <2>4. ASSUME NEW r \in Requests, StartWork(r) PROVE SessionInv'
    <3>1. /\ ProcessingRow \in Rows
          /\ ProcessingRow = [session[r] EXCEPT !.status = "PROCESSING"]
      BY <2>4, RowsTyped DEF StartWork, SessionInv, ProcessingRow, Rows, Statuses,
                             InProgress
    <3> QED
      BY <2>4, <3>1, SaveStatus DEF StartWork, SessionInv, TypeOK, Goto, PendingRow,
                                    ProcessingRow
  <2>5. ASSUME NEW r \in Requests, Complete(r) PROVE SessionInv'
    <3>1. PICK t \in Texts : Save(r, [status |-> "COMPLETED", text |-> t,
                                      error |-> NoError, source |-> Original])
      BY <2>5 DEF Complete
    <3>2. [status |-> "COMPLETED", text |-> t, error |-> NoError,
           source |-> Original] \in Rows
      BY DEF Rows, Statuses
    <3> QED
      BY <2>5, <3>1, <3>2, SaveStatus DEF Complete, SessionInv, TypeOK, Goto,
                                          PendingRow, ProcessingRow
  <2>6. ASSUME NEW r \in Requests, RecordFailure(r) PROVE SessionInv'
    <3>1. PICK code \in ErrorCodes :
             Save(r, [session[r] EXCEPT !.status = "FAILED", !.text = Blank,
                                        !.error = code])
      BY <2>6 DEF RecordFailure
    <3> DEFINE new == [session[r] EXCEPT !.status = "FAILED", !.text = Blank,
                                         !.error = code]
    <3>2. /\ new \in Rows
          /\ new.status = "FAILED" /\ new.source = session[r].source
      BY ConstantsAssumption DEF TypeOK, Rows, Statuses
    <3>3. Save(r, new)
      BY <3>1
    <3> HIDE DEF new
    <3> QED
      BY <2>6, <3>2, <3>3, SaveStatus DEF RecordFailure, SessionInv, TypeOK, Goto
  <2>7. ASSUME NEW r \in Requests, Reply(r) PROVE SessionInv'
    BY <2>7 DEF Reply, SessionInv, TypeOK, Goto
  <2>8. ASSUME NEW r \in Requests, ReadForFailure(r) PROVE SessionInv'
    BY <2>8 DEF ReadForFailure, SessionInv, TypeOK, Goto
  <2>9. ASSUME NEW r \in Requests, Fault(r) PROVE SessionInv'
    BY <2>9 DEF Fault, PrepareFails, WorkFails, TransactionFails, SaveFails,
       RecordFailureFails, SessionInv, TypeOK, Goto, ProcessingRow, PendingRow
  <2>10. CASE Crash
    BY <2>10 DEF Crash, AfterCrash, SessionInv, TypeOK, Busy, Ended
  <2>11. CASE UNCHANGED vars
    BY <2>11 DEF vars, SessionInv
  <2> QED
    BY <2>1, <2>2, <2>3, <2>4, <2>5, <2>6, <2>7, <2>8, <2>9, <2>10, <2>11
       DEF Next, Progress
<1> QED
  BY <1>1, <1>2, TypeCorrect, PTL DEF Spec

-----------------------------------------------------------------------------
(* A row in progress is owned.  The witness is an owner before the step, or   *)
(* the request that steps.                                                    *)

\* However many requests interleave on stale copies, a row in progress has a request
\* that will end it, or one that was cut off.
THEOREM InProgressOwned == Spec => []InProgressIsOwned
<1>1. Init => InProgressIsOwned
  BY DEF Init, NoRow, InProgressIsOwned, InProgress
<1>2. TypeOK /\ SessionInv /\ InProgressIsOwned /\ [Next]_vars => InProgressIsOwned'
  <2> SUFFICES ASSUME TypeOK, SessionInv, InProgressIsOwned, [Next]_vars,
                      row'.status \in InProgress
               PROVE  \E s \in Requests : Owns(s)' \/ pc'[s] = "abandoned"
    BY DEF InProgressIsOwned, Owns
  <2> DEFINE Owned == \E s \in Requests : Owns(s)' \/ pc'[s] = "abandoned"
  <2>1. ASSUME NEW r \in Requests, row' = row,
               Owns(r) \/ pc[r] = "abandoned" => Owns(r)' \/ pc'[r] = "abandoned",
               \A s \in Requests : s # r => pc'[s] = pc[s] /\ session'[s] = session[s]
        PROVE  Owned
    BY <2>1 DEF InProgressIsOwned, Owns
  <2>2. ASSUME NEW r \in Requests, Read(r) PROVE Owned
    BY <2>1, <2>2 DEF Read, Owns, TypeOK, Goto
  <2>3. ASSUME NEW r \in Requests, Create(r) \/ Reset(r) \/ StartWork(r)
        PROVE  Owned
    <3>1. CASE pc'[r] \in {"claimed", "working"}
      BY <3>1 DEF Owns
    <3>2. CASE pc'[r] \notin {"claimed", "working"}
      BY <2>1, <2>3, <3>2 DEF Create, Reset, StartWork, Owns, TypeOK, Goto
    <3> QED
      BY <3>1, <3>2
  <2>4. ASSUME NEW r \in Requests, Complete(r) PROVE Owned
    <3>1. PICK t \in Texts : Save(r, [status |-> "COMPLETED", text |-> t,
                                      error |-> NoError, source |-> Original])
      BY <2>4 DEF Complete
    <3>2. row'.status = "COMPLETED"
      BY <2>4, <3>1 DEF Complete, Save, Flush, Column, SessionInv, ProcessingRow,
                        PendingRow
    <3> QED
      BY <3>2 DEF InProgress
  <2>5. ASSUME NEW r \in Requests, Reply(r) PROVE Owned
    BY <2>1, <2>5 DEF Reply, Owns, TypeOK, Goto
  <2>6. ASSUME NEW r \in Requests, ReadForFailure(r) PROVE Owned
    <3>1. row = row' /\ session'[r].status # "FAILED" /\ pc'[r] = "recording"
      BY <2>6 DEF ReadForFailure, InProgress, TypeOK, Goto
    <3> QED
      BY <3>1 DEF Owns
  <2>7. ASSUME NEW r \in Requests, RecordFailure(r) PROVE Owned
    <3>1. PICK code \in ErrorCodes :
             Save(r, [session[r] EXCEPT !.status = "FAILED", !.text = Blank,
                                        !.error = code])
      BY <2>7 DEF RecordFailure
    <3>2. row'.status = IF session[r].status = "FAILED" THEN row.status ELSE "FAILED"
      BY <3>1 DEF Save, Flush, Column, TypeOK, Rows
    <3>3. ~Owns(r) /\ pc[r] # "abandoned"
      BY <2>7, <3>2 DEF RecordFailure, Owns, InProgress
    <3>4. PICK o \in Requests : Owns(o) \/ pc[o] = "abandoned"
      BY <3>2 DEF InProgressIsOwned, InProgress
    <3>5. o # r /\ pc'[o] = pc[o] /\ session'[o] = session[o]
      BY <2>7, <3>1, <3>3, <3>4 DEF RecordFailure, Save, Goto, TypeOK
    <3> QED
      BY <3>4, <3>5 DEF Owns
  <2>8. ASSUME NEW r \in Requests, Fault(r) PROVE Owned
    BY <2>1, <2>8 DEF Fault, PrepareFails, WorkFails, TransactionFails, SaveFails,
                      RecordFailureFails, Owns, TypeOK, Goto, SessionInv,
                      ProcessingRow, PendingRow
  <2>9. CASE Crash
    BY <2>9 DEF Crash, AfterCrash, InProgressIsOwned, Owns, TypeOK, Busy, Ended
  <2>10. CASE UNCHANGED vars
    BY <2>10 DEF vars, InProgressIsOwned, Owns
  <2> QED
    BY <2>2, <2>3, <2>4, <2>5, <2>6, <2>7, <2>8, <2>9, <2>10 DEF Next, Progress
<1> QED
  BY <1>1, <1>2, TypeCorrect, SessionInvariant, PTL DEF Spec

-----------------------------------------------------------------------------
(* The first attempt is exclusive.  As long as no failure is recorded, the   *)
(* row is never FAILED, so every request past its check had seen no row, and *)
(* UNIQUE(document_id) lets only one of those write.                         *)

Wrote == {"claimed", "working", "committed", "failing", "recording", "completed",
          "abandoned"}

ExclusiveInv ==
    (\A f \in Requests : pc[f] # "failed") =>
        /\ row.status # "FAILED"
        /\ \A r \in Requests :
              /\ pc[r] = "prepare" => session[r].status = "ABSENT"
              /\ pc[r] \in Wrote => row.status # "ABSENT"
              /\ pc[r] = "claimed" => row.status = "PENDING"
              /\ pc[r] = "working" => row.status = "PROCESSING"
              /\ \A s \in Requests : pc[r] \in Wrote /\ pc[s] \in Wrote => r = s

\* The strengthening for the first attempt holds in every reachable state.
LEMMA ExclusiveInvariant == Spec => []ExclusiveInv
<1>1. Init => ExclusiveInv
  BY DEF Init, NoRow, ExclusiveInv, Wrote
<1>2. TypeOK /\ SessionInv /\ ExclusiveInv /\ [Next]_vars => ExclusiveInv'
  <2> SUFFICES ASSUME TypeOK, SessionInv, ExclusiveInv, [Next]_vars
               PROVE  ExclusiveInv'
    OBVIOUS
  <2> USE DEF ExclusiveInv, Wrote, Goto
  <2>1. ASSUME NEW r \in Requests, Read(r) PROVE ExclusiveInv'
    BY <2>1, Stages, DecisionCases DEF Read, TypeOK
  <2>2. ASSUME NEW r \in Requests, Create(r) PROVE ExclusiveInv'
    BY <2>2 DEF Create, TypeOK, PendingRow
  <2>3. ASSUME NEW r \in Requests, Reset(r) PROVE ExclusiveInv'
    BY <2>3, RowsTyped, SaveStatus DEF Reset, TypeOK, PendingRow, SessionInv
  <2>4. ASSUME NEW r \in Requests, StartWork(r) PROVE ExclusiveInv'
    <3>1. row'.status = "PROCESSING"
      BY <2>4 DEF StartWork, Save, Flush, Column, SessionInv, PendingRow
    <3> QED
      BY <2>4, <3>1 DEF StartWork, Save, TypeOK
  <2>5. ASSUME NEW r \in Requests, Complete(r) PROVE ExclusiveInv'
    <3>1. row'.status = "COMPLETED"
      BY <2>5 DEF Complete, Save, Flush, Column, SessionInv, PendingRow,
                  ProcessingRow
    <3> QED
      BY <2>5, <3>1 DEF Complete, Save, TypeOK
  <2>6. ASSUME NEW r \in Requests, Reply(r) PROVE ExclusiveInv'
    BY <2>6 DEF Reply, TypeOK
  <2>7. ASSUME NEW r \in Requests, ReadForFailure(r) PROVE ExclusiveInv'
    BY <2>7 DEF ReadForFailure, TypeOK
  <2>8. ASSUME NEW r \in Requests, RecordFailure(r) PROVE ExclusiveInv'
    BY <2>8 DEF RecordFailure, TypeOK
  <2>9. ASSUME NEW r \in Requests, Fault(r) PROVE ExclusiveInv'
    BY <2>9 DEF Fault, PrepareFails, WorkFails, TransactionFails, SaveFails,
       RecordFailureFails, TypeOK
  <2>10. CASE Crash
    BY <2>10 DEF Crash, AfterCrash, TypeOK, Busy, Ended
  <2>11. CASE UNCHANGED vars
    BY <2>11 DEF vars
  <2> QED
    BY <2>1, <2>2, <2>3, <2>4, <2>5, <2>6, <2>7, <2>8, <2>9, <2>10, <2>11
       DEF Next, Progress
<1> QED
  BY <1>1, <1>2, TypeCorrect, SessionInvariant, PTL DEF Spec

\* Two requests are at work at once only after a failure has been recorded.
THEOREM FirstAttemptIsExclusive == Spec => []FirstAttemptExclusive
<1>1. ExclusiveInv => FirstAttemptExclusive
  BY DEF ExclusiveInv, FirstAttemptExclusive, AtWork, Wrote
<1> QED
  BY <1>1, ExclusiveInvariant, PTL

\* Nothing but a recorded failure touches a completed row.
THEOREM CompletedIsKept == Spec => CompletedKept
<1>1. TypeOK /\ ExclusiveInv /\ [Next]_vars =>
          (row.status = "COMPLETED" /\ row' # row => \E f \in Requests : pc'[f] = "failed")
  <2> SUFFICES ASSUME TypeOK, ExclusiveInv, [Next]_vars, row.status = "COMPLETED",
                      row' # row, \A f \in Requests : pc'[f] # "failed"
               PROVE  FALSE
    OBVIOUS
  <2> USE DEF TypeOK, Goto
  <2>1. \A f \in Requests : pc[f] # "failed"
    BY DEF Next, Read, Progress, Create, Reset, StartWork, Complete, Reply,
       ReadForFailure, RecordFailure, Fault, PrepareFails, WorkFails,
       TransactionFails, SaveFails, RecordFailureFails, Crash, AfterCrash, vars,
       Ended, Busy
  <2>2. PICK r \in Requests : Create(r) \/ Reset(r) \/ StartWork(r) \/ Complete(r)
                              \/ RecordFailure(r)
    BY DEF Next, Read, Progress, Reply, ReadForFailure, Fault, PrepareFails,
           WorkFails, TransactionFails, SaveFails, RecordFailureFails, Crash, vars
  <2> QED
    BY <2>1, <2>2 DEF Create, Reset, StartWork, Complete, RecordFailure, ExclusiveInv
<1> QED
  BY <1>1, TypeCorrect, ExclusiveInvariant, PTL DEF Spec, CompletedKept

-----------------------------------------------------------------------------
(* One request at a time.  Then the session's copy is the row, and the row's *)
(* columns follow the stage of the one request that is busy.                  *)

Consistent(e) ==
    /\ e.status = "COMPLETED" => e.error = NoError
    /\ e.status = "FAILED" => e.text = Blank /\ e.error \in ErrorCodes
    /\ e.status \in InProgress => e.text = Blank /\ e.error = NoError

SerialInv ==
    ~overlap =>
        /\ Consistent(row)
        /\ \A r, s \in Requests : pc[r] \in Busy /\ pc[s] \in Busy => r = s
        /\ \A r \in Requests :
              /\ pc[r] \in Busy \ {"failing"} => session[r] = row
              /\ pc[r] = "failing" => row.status \in {"PROCESSING", "COMPLETED"}
              /\ pc[r] = "recording" => row.status \in {"PROCESSING", "COMPLETED"}

\* The strengthening for requests one at a time holds in every reachable state.
LEMMA SerialInvariant == Spec => []SerialInv
<1>1. Init => SerialInv
  BY DEF Init, NoRow, SerialInv, Consistent, InProgress, Busy
<1>2. TypeOK /\ SessionInv /\ SerialInv /\ [Next]_vars => SerialInv'
  <2> SUFFICES ASSUME TypeOK, SessionInv, SerialInv, [Next]_vars, ~overlap'
               PROVE  SerialInv'
    BY DEF SerialInv
  <2> USE DEF SerialInv, Goto, Busy
  <2>0. ~overlap
    BY DEF Next, Read, Progress, Create, Reset, StartWork, Complete, Reply,
       ReadForFailure, RecordFailure, Fault, PrepareFails, WorkFails,
       TransactionFails, SaveFails, RecordFailureFails, Crash, vars, TypeOK
  <2>a. ASSUME NEW r \in Requests, NEW new \in Rows, Save(r, new), session[r] = row
        PROVE  row' = new /\ session' = [session EXCEPT ![r] = new]
    BY <2>a DEF Save, Flush, Column, Rows, TypeOK
  <2>1. ASSUME NEW r \in Requests, Read(r) PROVE SerialInv'
    BY <2>0, <2>1, Stages DEF Read, TypeOK, Consistent
  <2>2. ASSUME NEW r \in Requests, Create(r) PROVE SerialInv'
    BY <2>0, <2>2 DEF Create, TypeOK, PendingRow, Consistent, InProgress
  <2>3. ASSUME NEW r \in Requests, Reset(r) PROVE SerialInv'
    BY <2>0, <2>a, <2>3, RowsTyped DEF Reset, TypeOK, PendingRow, Consistent, InProgress
  <2>4. ASSUME NEW r \in Requests, StartWork(r) PROVE SerialInv'
    <3>1. [session[r] EXCEPT !.status = "PROCESSING"] = ProcessingRow
          /\ ProcessingRow \in Rows
      BY <2>4, RowsTyped DEF StartWork, SessionInv, ProcessingRow, Rows, Statuses,
                             InProgress
    <3> QED
      BY <2>0, <2>a, <2>4, <3>1 DEF StartWork, TypeOK, ProcessingRow, PendingRow,
                                    Consistent, InProgress
  <2>5. ASSUME NEW r \in Requests, Complete(r) PROVE SerialInv'
    <3>1. PICK t \in Texts : Save(r, [status |-> "COMPLETED", text |-> t,
                                      error |-> NoError, source |-> Original])
      BY <2>5 DEF Complete
    <3> DEFINE new == [status |-> "COMPLETED", text |-> t, error |-> NoError,
                       source |-> Original]
    <3>2. new \in Rows /\ Consistent(new)
      BY DEF Rows, Statuses, Consistent, InProgress
    <3>3. row' = new /\ session' = [session EXCEPT ![r] = new]
      BY <2>0, <2>a, <2>5, <3>1, <3>2 DEF Complete
    <3> QED
      BY <2>0, <2>5, <3>2, <3>3 DEF Complete, TypeOK
  <2>6. ASSUME NEW r \in Requests, Reply(r) PROVE SerialInv'
    BY <2>0, <2>6 DEF Reply, TypeOK, Consistent
  <2>7. ASSUME NEW r \in Requests, ReadForFailure(r) PROVE SerialInv'
    BY <2>0, <2>7 DEF ReadForFailure, TypeOK, Consistent
  <2>8. ASSUME NEW r \in Requests, RecordFailure(r) PROVE SerialInv'
    <3>1. PICK code \in ErrorCodes :
             Save(r, [session[r] EXCEPT !.status = "FAILED", !.text = Blank,
                                        !.error = code])
      BY <2>8 DEF RecordFailure
    <3> DEFINE new == [session[r] EXCEPT !.status = "FAILED", !.text = Blank,
                                         !.error = code]
    <3>2. new \in Rows /\ Consistent(new)
      BY ConstantsAssumption DEF TypeOK, Rows, Statuses, Consistent, InProgress
    <3>3. row' = new /\ session' = [session EXCEPT ![r] = new]
      BY <2>0, <2>a, <2>8, <3>1, <3>2 DEF RecordFailure
    <3> HIDE DEF new
    <3> QED
      BY <2>0, <2>8, <3>2, <3>3 DEF RecordFailure, TypeOK
  <2>9. ASSUME NEW r \in Requests, Fault(r) PROVE SerialInv'
    <3>1. row' = row /\ session' = session
      BY <2>9 DEF Fault, PrepareFails, WorkFails, TransactionFails, SaveFails,
         RecordFailureFails
    <3>2. /\ pc' = [pc EXCEPT ![r] = pc'[r]]
          /\ \/ pc'[r] \notin Busy
             \/ pc'[r] = "failing" /\ pc[r] \in {"working", "committed"}
             \/ pc'[r] = "recording" /\ pc[r] = "working"
      BY <2>9 DEF Fault, PrepareFails, WorkFails, TransactionFails, SaveFails,
         RecordFailureFails, TypeOK
    <3>3. pc[r] = "working" => row.status = "PROCESSING"
      BY <2>0 DEF SessionInv, ProcessingRow, PendingRow
    <3>4. pc[r] = "committed" => row.status = "COMPLETED"
      BY <2>0 DEF SessionInv
    <3> QED
      BY <2>0, <2>9, <3>1, <3>2, <3>3, <3>4
         DEF TypeOK, Consistent, Fault, PrepareFails, WorkFails, TransactionFails, SaveFails,
             RecordFailureFails
  <2>10. CASE Crash
    BY <2>0, <2>10 DEF Crash, AfterCrash, TypeOK, Ended, Consistent
  <2>11. CASE UNCHANGED vars
    BY <2>0, <2>11 DEF vars, Consistent
  <2> QED
    BY <2>1, <2>2, <2>3, <2>4, <2>5, <2>6, <2>7, <2>8, <2>9, <2>10, <2>11
       DEF Next, Progress
<1> QED
  BY <1>1, <1>2, TypeCorrect, SessionInvariant, PTL DEF Spec

\* Through faults, restarts and retries of requests that come one at a time, status,
\* text and error of the row agree.
THEOREM SerialRowIsConsistent == Spec => []SerialRowConsistent
<1>1. SerialInv => SerialRowConsistent
  BY DEF SerialInv, SerialRowConsistent, Consistent, Busy
<1> QED
  BY <1>1, SerialInvariant, PTL

-----------------------------------------------------------------------------
(* Refinement: one request at a time implements Lifecycle. *)

\* The serial specification is the full one in which no two requests overlap.
LEMMA SerialSpecIsSpec == SerialSpec => Spec /\ []~overlap
<1>1. Init => ~overlap
  BY DEF Init
<1>2. ~overlap /\ [Next /\ ~overlap']_vars => ~overlap'
  BY DEF vars
<1>3. [Next /\ ~overlap']_vars => [Next]_vars
  BY DEF vars
<1> QED
  BY <1>1, <1>2, <1>3, PTL DEF SerialSpec, Spec

\* While requests come one at a time the row goes through Lifecycle's states.
THEOREM SerialImplementsLifecycle == SerialSpec => ImplementsLifecycle
<1>1. Init => Promise!Init
  BY DEF Init, NoRow, Promise!Init, Final
<1>2. TypeOK /\ SessionInv /\ SerialInv /\ ~overlap /\ [Next /\ ~overlap']_vars
        => [Promise!Next]_(Promise!lifecycle)
  <2> SUFFICES ASSUME TypeOK, SessionInv, SerialInv, ~overlap,
                      [Next /\ ~overlap']_vars
               PROVE  [Promise!Next]_(Promise!lifecycle)
    OBVIOUS
  <2> USE DEF SerialInv, Goto, Busy, TypeOK
  <2> DEFINE Step == \/ /\ row'.status = row.status
                        /\ Final' = Final \/ (row.status = "COMPLETED" /\ Final')
                     \/ Promise!Claim \/ Promise!Start \/ Promise!Succeed
                     \/ Promise!Fail
  <2>0. ASSUME Step PROVE [Promise!Next]_(Promise!lifecycle)
    BY <2>0 DEF Promise!Next, Promise!lifecycle, Promise!Settle, Final
  <2>a. ASSUME NEW r \in Requests, NEW new \in Rows, Save(r, new), session[r] = row
        PROVE  row' = new
    BY <2>a DEF Save, Flush, Column, Rows
  <2>1. ASSUME NEW r \in Requests, Read(r) PROVE Step
    BY <2>1, Stages DEF Read, Final
  <2>2. ASSUME NEW r \in Requests, Create(r) PROVE Step
    BY <2>2 DEF Create, Final, PendingRow, Promise!Claim
  <2>3. ASSUME NEW r \in Requests, Reset(r) PROVE Step
    <3>1. row' = PendingRow /\ row.status = "FAILED"
      BY <2>a, <2>3, RowsTyped DEF Reset, SessionInv
    <3> QED
      BY <3>1 DEF Final, PendingRow, Promise!Claim
  <2>4. ASSUME NEW r \in Requests, StartWork(r) PROVE Step
    <3>1. row.status = "PENDING" /\ row'.status = "PROCESSING"
      BY <2>4 DEF StartWork, Save, Flush, Column, SessionInv, PendingRow
    <3> QED
      BY <3>1 DEF Final, Promise!Start
  <2>5. ASSUME NEW r \in Requests, Complete(r) PROVE Step
    <3>1. row.status = "PROCESSING" /\ row'.status = "COMPLETED"
      BY <2>5 DEF Complete, Save, Flush, Column, SessionInv, ProcessingRow, PendingRow
    <3>2. pc'[r] = "committed"
      BY <2>5 DEF Complete
    <3> QED
      BY <3>1, <3>2 DEF Final, Promise!Succeed
  <2>6. ASSUME NEW r \in Requests, Reply(r) PROVE Step
    <3>1. row' = row /\ row.status = "COMPLETED"
      BY <2>6 DEF Reply, SessionInv
    <3>2. Final'
      BY <2>6, <3>1 DEF Reply, Final
    <3> QED
      BY <3>1, <3>2
  <2>7. ASSUME NEW r \in Requests, ReadForFailure(r) PROVE Step
    BY <2>7 DEF ReadForFailure, Final
  <2>8. ASSUME NEW r \in Requests, RecordFailure(r) PROVE Step
    <3>1. row'.status = "FAILED"
      BY <2>8 DEF RecordFailure, Save, Flush, Column, Rows
    <3>2. row.status \in {"PROCESSING", "COMPLETED"} /\ ~Final
      BY <2>8 DEF RecordFailure, Final
    <3> QED
      BY <3>1, <3>2 DEF Final, Promise!Fail
  <2>9. ASSUME NEW r \in Requests, Fault(r) PROVE Step
    BY <2>9 DEF Fault, PrepareFails, WorkFails, TransactionFails, SaveFails,
       RecordFailureFails, Final, SessionInv, ProcessingRow, PendingRow
  <2>10. ASSUME Crash PROVE Step
    <3>1. \A r \in Requests : pc'[r] \notin {"committed", "failing", "recording"}
      BY <2>10 DEF Crash, AfterCrash, Ended
    <3> QED
      BY <2>10, <3>1 DEF Crash, Final
  <2>11. ASSUME UNCHANGED vars PROVE Step
    BY <2>11 DEF vars, Final
  <2> QED
    BY <2>0, <2>1, <2>2, <2>3, <2>4, <2>5, <2>6, <2>7, <2>8, <2>9, <2>10, <2>11
       DEF Next, Progress
<1> QED
  BY <1>1, <1>2, SerialSpecIsSpec, TypeCorrect, SessionInvariant, SerialInvariant,
     PTL DEF SerialSpec, ImplementsLifecycle, Promise!Spec

-----------------------------------------------------------------------------
\* However a browser polls, clicks, gives up and loses replies, the requests do what
\* Extraction says: the module with the page implements the one without.
THEOREM PageChangesNothing == PageSpec => Spec
<1>1. PageInit => Init
  BY DEF PageInit
<1>2. [PageNext]_pageVars => [Next]_vars
  BY DEF PageNext, Server, Browser, Mount, Poll, Serve, Deliver, Lose, Click,
         PostSucceeds, PostFails, Next, pageVars
<1> QED
  BY <1>1, <1>2, PTL DEF PageSpec, Spec

\* So what is proved of the requests holds of them with the page beside them.
THEOREM PageLeavesRowSound ==
  PageSpec => [](TypeOK /\ InProgressIsOwned /\ FirstAttemptExclusive
                   /\ SerialRowConsistent)
BY PageChangesNothing, TypeCorrect, InProgressOwned, FirstAttemptIsExclusive,
   SerialRowIsConsistent, PTL
=============================================================================
