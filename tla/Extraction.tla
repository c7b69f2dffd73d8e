----------------------------- MODULE Extraction -----------------------------
(***************************************************************************)
(* The extraction of one document: DocumentExtractionService.extract and   *)
(* the document_extractions row it drives                                  *)
(* (backend/app/services/extractions.py).                                  *)
(*                                                                         *)
(* Each request runs extract() once in a database session of its own.  A   *)
(* flush followed by its commit is one action (the row lock taken by the   *)
(* UPDATE is held until the commit), everything between two database calls *)
(* is another one, so requests interleave at the awaits of the code.  The  *)
(* transactions are READ COMMITTED and no SELECT takes a lock.             *)
(***************************************************************************)
EXTENDS Naturals

CONSTANTS
    Requests,    \* POST .../extraction requests
    Texts,       \* texts an extraction attempt can render
    Blank,       \* the empty text: the value of a reset row, and a legal result
    ErrorCodes,  \* codes of a recorded failure
    NoError,     \* NULL error_code
    Original,    \* sha256 of the stored original, which never changes
    NoHash       \* no row, hence no hash

ASSUME ConstantsAssumption ==
    /\ Blank \in Texts
    /\ NoError \notin ErrorCodes
    /\ Original # NoHash

VARIABLES
    row,      \* the committed document_extractions row; "ABSENT" when there is none
    session,  \* request -> its ORM copy of the row, as last loaded or flushed
    pc,       \* request -> how far extract() got
    overlap   \* history: two requests were past the status check at once

vars == <<row, session, pc, overlap>>

InProgress == {"PENDING", "PROCESSING"}
Statuses == InProgress \cup {"ABSENT", "COMPLETED", "FAILED"}

Rows == [status : Statuses, text : Texts, error : ErrorCodes \cup {NoError},
         source : {Original, NoHash}]

NoRow == [status |-> "ABSENT", text |-> Blank, error |-> NoError, source |-> NoHash]

\* What the row is created with, and what _reset_for_retry makes of an old one.
PendingRow == [status |-> "PENDING", text |-> Blank, error |-> NoError,
               source |-> Original]

\* Requests inside extract() and past the check that no other is in progress.
Busy == {"prepare", "claimed", "working", "committed", "failing", "recording"}
\* Answered: 200 with an old row, 409, 500 before any row was written, 200, an
\* error with the failure recorded; or ended with the row left as it was.
Ended == {"returned", "conflict", "refused", "completed", "failed", "abandoned"}

Goto(r, stage) == pc' = [pc EXCEPT ![r] = stage]

-----------------------------------------------------------------------------
(* The ORM: only the attributes that differ from the session's own copy are *)
(* in the UPDATE; the other columns keep whatever another request wrote.    *)
(* Sessions do not expire on commit, so that copy may be long out of date.  *)

Column(current, old, new) == IF new = old THEN current ELSE new

Flush(current, old, new) ==
    [status |-> Column(current.status, old.status, new.status),
     text   |-> Column(current.text, old.text, new.text),
     error  |-> Column(current.error, old.error, new.error),
     source |-> Column(current.source, old.source, new.source)]

\* Request r sets its copy to `new`, flushes and commits.
Save(r, new) ==
    /\ row' = Flush(row, session[r], new)
    /\ session' = [session EXCEPT ![r] = new]

-----------------------------------------------------------------------------
Init ==
    /\ row = NoRow
    /\ session = [r \in Requests |-> NoRow]
    /\ pc = [r \in Requests |-> "idle"]
    /\ overlap = FALSE

\* A completed extraction of the same original is returned as it is.
Reusable(e) == e.status = "COMPLETED" /\ e.source = Original

\* Mutant: no conflict with a request in progress.
Decision_NoConflict(e) == IF Reusable(e) THEN "returned" ELSE "prepare"

Decision(e) == CASE Reusable(e) -> "returned"
                 [] e.status \in InProgress -> "conflict"
                 [] OTHER -> "prepare"

\* The request arrives, reads the row and decides.
Read(r) ==
    /\ pc[r] = "idle"
    /\ session' = [session EXCEPT ![r] = row]
    /\ Goto(r, Decision(row))
    /\ overlap' = (overlap \/ /\ Decision(row) = "prepare"
                              /\ \E o \in Requests : pc[o] \in Busy)
    /\ UNCHANGED row

\* No row was seen: INSERT a pending one.  UNIQUE(document_id) refuses a second.
Create(r) ==
    /\ pc[r] = "prepare"
    /\ session[r].status = "ABSENT"
    /\ IF row.status = "ABSENT"
       THEN /\ row' = PendingRow
            /\ session' = [session EXCEPT ![r] = PendingRow]
            /\ Goto(r, "claimed")
       ELSE /\ Goto(r, "refused")
            /\ UNCHANGED <<row, session>>
    /\ UNCHANGED overlap

\* Mutant: the retry does not clear the old error.
Reset_KeepsError(r) ==
    /\ pc[r] = "prepare"
    /\ session[r].status # "ABSENT"
    /\ Save(r, [PendingRow EXCEPT !.error = session[r].error])
    /\ Goto(r, "claimed")
    /\ UNCHANGED overlap

\* A row was seen: reset it for the retry, without looking at it again.
Reset(r) ==
    /\ pc[r] = "prepare"
    /\ session[r].status # "ABSENT"
    /\ Save(r, PendingRow)
    /\ Goto(r, "claimed")
    /\ UNCHANGED overlap

StartWork(r) ==
    /\ pc[r] = "claimed"
    /\ Save(r, [session[r] EXCEPT !.status = "PROCESSING"])
    /\ Goto(r, "working")
    /\ UNCHANGED overlap

\* Either of the two writes before the work fails: 500, nothing is recorded.
PrepareFails(r) ==
    /\ pc[r] \in {"prepare", "claimed"}
    /\ Goto(r, IF pc[r] = "claimed" THEN "abandoned" ELSE "refused")
    /\ UNCHANGED <<row, session, overlap>>

\* The extractor returned a text and it is committed.
Complete(r) ==
    /\ pc[r] = "working"
    /\ \E t \in Texts :
          Save(r, [status |-> "COMPLETED", text |-> t, error |-> NoError,
                   source |-> Original])
    /\ Goto(r, "committed")
    /\ UNCHANGED overlap

\* The refresh after the commit succeeds: 200, with the row as it is by now.
Reply(r) ==
    /\ pc[r] = "committed"
    /\ session' = [session EXCEPT ![r] = row]
    /\ Goto(r, "completed")
    /\ UNCHANGED <<row, overlap>>

\* Storage or the extractor raises: a failure will be recorded.  No transaction is
\* open, so _record_failure rolls nothing back and expires nothing, and the row it
\* reads is the copy the session already has.
WorkFails(r) ==
    /\ pc[r] = "working"
    /\ Goto(r, "recording")
    /\ UNCHANGED <<row, session, overlap>>

\* The commit raises, or the refresh that follows it: the same, but the rollback
\* ends a transaction and expires the copy.
TransactionFails(r) ==
    /\ pc[r] \in {"working", "committed"}
    /\ Goto(r, "failing")
    /\ UNCHANGED <<row, session, overlap>>

\* The flush of the completed row raises: it expires every loaded object, and
\* the handler's own `document.id` raises before _record_failure is called.
SaveFails(r) ==
    /\ pc[r] = "working"
    /\ Goto(r, "abandoned")
    /\ UNCHANGED <<row, session, overlap>>

\* _record_failure after a rollback that expired the copy: read the row again,
ReadForFailure(r) ==
    /\ pc[r] = "failing"
    /\ session' = [session EXCEPT ![r] = row]
    /\ Goto(r, "recording")
    /\ UNCHANGED <<row, overlap>>

\* Mutant: the error is stored, the status is not.
RecordFailure_KeepsStatus(r) ==
    /\ pc[r] = "recording"
    /\ \E code \in ErrorCodes :
          Save(r, [session[r] EXCEPT !.text = Blank, !.error = code])
    /\ Goto(r, "failed")
    /\ UNCHANGED overlap

\* then save it as failed.
RecordFailure(r) ==
    /\ pc[r] = "recording"
    /\ \E code \in ErrorCodes :
          Save(r, [session[r] EXCEPT !.status = "FAILED", !.text = Blank,
                                     !.error = code])
    /\ Goto(r, "failed")
    /\ UNCHANGED overlap

\* Recording the failure fails as well: that is logged and swallowed.
RecordFailureFails(r) ==
    /\ pc[r] \in {"failing", "recording"}
    /\ Goto(r, "abandoned")
    /\ UNCHANGED <<row, session, overlap>>

\* Where a request ends when the process dies under it.
AfterCrash(stage) ==
    CASE stage = "prepare" -> "refused"
      [] stage \in {"claimed", "working", "failing", "recording"} -> "abandoned"
      [] stage = "committed" -> "completed"
      [] OTHER -> stage

\* The server process is killed and restarted.  Start-up looks at no row.
Crash ==
    /\ \E r \in Requests : pc[r] \in Busy
    /\ pc' = [r \in Requests |-> AfterCrash(pc[r])]
    /\ UNCHANGED <<row, session, overlap>>

-----------------------------------------------------------------------------
Progress(r) ==
    \/ Create(r)
    \/ Reset(r)
    \/ StartWork(r)
    \/ Complete(r)
    \/ Reply(r)
    \/ ReadForFailure(r)
    \/ RecordFailure(r)

Fault(r) ==
    \/ PrepareFails(r)
    \/ WorkFails(r)
    \/ TransactionFails(r)
    \/ SaveFails(r)
    \/ RecordFailureFails(r)

Next ==
    \/ \E r \in Requests : Read(r) \/ Progress(r) \/ Fault(r)
    \/ Crash

Spec == Init /\ [][Next]_vars

\* The event loop resumes every request whose database call or extractor has
\* answered.  A request need not arrive, and no fault need happen.
FairSpec == Spec /\ \A r \in Requests : WF_vars(Progress(r))

\* The same requests when none is started while another is past its check.
SerialSpec == Init /\ [][Next /\ ~overlap']_vars

-----------------------------------------------------------------------------
(* Properties *)

\* Every variable stays in its type.
TypeOK ==
    /\ row \in Rows
    /\ session \in [Requests -> Rows]
    /\ pc \in [Requests -> {"idle"} \cup Busy \cup Ended]
    /\ overlap \in BOOLEAN

\* A request that is still going to write the row's final status.
Owns(r) ==
    \/ pc[r] \in {"claimed", "working", "failing"}
    \/ pc[r] = "recording" /\ session[r].status # "FAILED"

\* The 409 "already in progress" is never a dead end without a cause: a row in
\* progress has a request at work on it, or one that a crash or a failed write
\* cut off.  No interleaving of stale ORM copies alone can strand the row.
InProgressIsOwned ==
    row.status \in InProgress =>
        \E r \in Requests : Owns(r) \/ pc[r] = "abandoned"

AtWork(r) == pc[r] \in {"claimed", "working"}

\* Until a failure has been recorded at most one request is at work: the unique
\* row and the status check together exclude the others.
FirstAttemptExclusive ==
    (\E r, s \in Requests : r # s /\ AtWork(r) /\ AtWork(s)) =>
        \E f \in Requests : pc[f] = "failed"

\* While requests come one at a time, through any sequence of faults, restarts
\* and retries, text and error say exactly what the status says, and a request
\* answered with 200 finds in the row what it wrote itself.
SerialRowConsistent ==
    ~overlap =>
        /\ row.status = "COMPLETED" => row.error = NoError
        /\ row.status = "FAILED" => row.text = Blank /\ row.error \in ErrorCodes
        /\ row.status \in InProgress => row.text = Blank /\ row.error = NoError
        /\ \A r \in Requests : pc[r] = "committed" => row = session[r]

\* A completed row is never touched again unless a failure gets recorded.
CompletedKept ==
    [][row.status = "COMPLETED" /\ row' # row =>
          \E f \in Requests : pc'[f] = "failed"]_vars

\* A row in progress leaves that state, unless a request was cut off.
InProgressSettles ==
    (row.status \in InProgress) ~>
        (row.status \notin InProgress \/ \E r \in Requests : pc[r] = "abandoned")

-----------------------------------------------------------------------------
(* What the documentation says, which the code does not keep. *)

\* "A completed extraction is returned idempotently": it stays as it is.
CompletedIsFinal == [][row.status = "COMPLETED" => row' = row]_vars

-----------------------------------------------------------------------------
(* Refinement *)

\* The row is completed and no request can still record a failure over it.
Final ==
    /\ row.status = "COMPLETED"
    /\ \A r \in Requests : pc[r] \notin {"committed", "failing", "recording"}

Promise == INSTANCE Lifecycle
    WITH status <- row.status, final <- Final, Renewable <- FALSE

\* Requests that come one at a time take the row through its documented
\* lifecycle, whatever fails: each step of theirs is one of Lifecycle's.
ImplementsLifecycle == Promise!Spec
=============================================================================
