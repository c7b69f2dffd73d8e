--------------------------- MODULE PipelineProofs ---------------------------
(***************************************************************************)
(* What Extraction and Indexing are proved to keep on their own, they keep *)
(* when their requests interleave in one process and a crash takes both:   *)
(* Pipeline implements each of them, so their theorems carry over.         *)
(***************************************************************************)
EXTENDS Pipeline, TLAPS

\* The components again, with their theorems.  The page and the search that
\* those modules' proofs also declare have no part here, hence the constants.
EP == INSTANCE ExtractionProofs
    WITH Requests <- ExtractRequests, row <- extraction, session <- extractSession,
         pc <- extractPc, overlap <- extractOverlap,
         Ours <- {}, shown <- "UNKNOWN", fetch <- "idle", retried <- FALSE, post <- <<>>

XP == INSTANCE IndexingProofs
    WITH Requests <- IndexRequests, extracted <- Extracted, row <- index,
         session <- indexSession, pc <- indexPc, overlap <- indexOverlap,
         TopK <- 1, hits <- {}, answer <- {}

\* What the two components assume of their constants.
LEMMA Assumptions ==
    /\ EP!ConstantsAssumption /\ EP!OursAssumption
    /\ XP!ConstantsAssumption /\ XP!TopKAssumption
BY PipelineAssumption

-----------------------------------------------------------------------------
(* E and EP, X and XP are the same specifications. *)

LEMMA SameExtractionNext == E!Next = EP!Next
BY DEF EP!Next, EP!Read, EP!Progress, EP!Fault, EP!Crash, EP!Create, EP!Reset,
   EP!StartWork, EP!Complete, EP!Reply, EP!ReadForFailure, EP!RecordFailure,
   EP!PrepareFails, EP!WorkFails, EP!TransactionFails, EP!SaveFails,
   EP!RecordFailureFails, EP!Goto, EP!Save, EP!Flush, EP!Column, EP!AfterCrash,
   EP!Busy, EP!PendingRow, EP!Decision, EP!Reusable, EP!InProgress, E!Next, E!Read,
   E!Progress, E!Fault, E!Crash, E!Create, E!Reset, E!StartWork, E!Complete, E!Reply,
   E!ReadForFailure, E!RecordFailure, E!PrepareFails, E!WorkFails, E!TransactionFails,
   E!SaveFails, E!RecordFailureFails, E!Goto, E!Save, E!Flush, E!Column, E!AfterCrash,
   E!Busy, E!PendingRow, E!Decision, E!Reusable, E!InProgress

LEMMA SameExtractionInit == E!Init <=> EP!Init
BY DEF E!Init, EP!Init, E!NoRow, EP!NoRow

LEMMA SameExtraction == (E!Spec <=> EP!Spec) /\ (E!SerialSpec <=> EP!SerialSpec)
<1>1. /\ [E!Next]_(E!vars) <=> [EP!Next]_(EP!vars)
      /\ [E!Next /\ ~extractOverlap']_(E!vars) <=> [EP!Next /\ ~extractOverlap']_(EP!vars)
  BY SameExtractionNext DEF E!vars, EP!vars
<1>. QED
  BY <1>1, SameExtractionInit, PTL DEF E!Spec, EP!Spec, E!SerialSpec, EP!SerialSpec

LEMMA SameCardinality == \A S : X!Cardinality(S) = XP!Cardinality(S)
BY DEF X!Cardinality, XP!Cardinality

LEMMA SameIndexingActions ==
  ASSUME NEW r \in IndexRequests
  PROVE  (X!ReadExtraction(r) \/ X!Progress(r) \/ X!Fault(r))
           <=> (XP!ReadExtraction(r) \/ XP!Progress(r) \/ XP!Fault(r))
<1>1. X!ReadExtraction(r) <=> XP!ReadExtraction(r)
  BY DEF X!ReadExtraction, X!Goto, XP!ReadExtraction, XP!Goto
<1>2. X!ReadIndex(r) <=> XP!ReadIndex(r)
  BY DEF X!ReadIndex, X!Goto, X!Decision, X!IsCurrent, X!InProgress, X!Busy,
         X!Indexers, XP!ReadIndex, XP!Goto, XP!Decision, XP!IsCurrent,
         XP!InProgress, XP!Busy, XP!Indexers
<1>3. /\ X!Create(r) <=> XP!Create(r)
      /\ X!Reset(r) <=> XP!Reset(r)
      /\ X!StartWork(r) <=> XP!StartWork(r)
      /\ X!Complete(r) <=> XP!Complete(r)
      /\ X!RecordFailure(r) <=> XP!RecordFailure(r)
  BY DEF X!Create, X!Reset, X!StartWork, X!Complete, X!RecordFailure, X!Goto,
         X!PendingRow, X!Save, X!Flush, X!Column, XP!Create, XP!Reset, XP!StartWork,
         XP!Complete, XP!RecordFailure, XP!Goto, XP!PendingRow, XP!Save, XP!Flush,
         XP!Column
<1>4. /\ X!DeleteChunks(r) <=> XP!DeleteChunks(r)
      /\ X!InsertChunks(r) <=> XP!InsertChunks(r)
      /\ X!Embed(r) <=> XP!Embed(r)
      /\ X!ClearPoints(r) <=> XP!ClearPoints(r)
  BY DEF X!DeleteChunks, X!InsertChunks, X!Embed, X!ClearPoints, X!Goto, X!Collides,
         X!Generated, X!Cut, XP!DeleteChunks, XP!InsertChunks, XP!Embed,
         XP!ClearPoints, XP!Goto, XP!Collides, XP!Generated, XP!Cut
<1>5. /\ X!UpsertPoints(r) <=> XP!UpsertPoints(r)
      /\ X!CountPoints(r) <=> XP!CountPoints(r)
      /\ X!Reply(r) <=> XP!Reply(r)
      /\ X!ReadForFailure(r) <=> XP!ReadForFailure(r)
  BY SameCardinality DEF X!UpsertPoints, X!CountPoints, X!Reply, X!ReadForFailure,
     X!Goto, X!Least, X!Cut, XP!UpsertPoints, XP!CountPoints, XP!Reply,
     XP!ReadForFailure, XP!Goto, XP!Least, XP!Cut
<1>6. /\ X!PrepareFails(r) <=> XP!PrepareFails(r)
      /\ X!WorkFails(r) <=> XP!WorkFails(r)
      /\ X!TransactionFails(r) <=> XP!TransactionFails(r)
      /\ X!SaveFails(r) <=> XP!SaveFails(r)
      /\ X!RecordFailureFails(r) <=> XP!RecordFailureFails(r)
  BY DEF X!PrepareFails, X!WorkFails, X!TransactionFails, X!SaveFails,
     X!RecordFailureFails, X!Goto, X!Indexers, XP!PrepareFails, XP!WorkFails,
     XP!TransactionFails, XP!SaveFails, XP!RecordFailureFails, XP!Goto, XP!Indexers
<1>. QED
  BY <1>1, <1>2, <1>3, <1>4, <1>5, <1>6 DEF X!Progress, X!Fault, XP!Progress, XP!Fault

LEMMA SameIndexingNext == X!Next <=> XP!Next
<1>1. X!ExtractionChanges <=> XP!ExtractionChanges
  BY DEF X!ExtractionChanges, X!jobs, XP!ExtractionChanges, XP!jobs
<1>2. X!Crash <=> XP!Crash
  BY DEF X!Crash, X!Busy, X!Indexers, X!AfterCrash, XP!Crash, XP!Busy, XP!Indexers,
         XP!AfterCrash
<1>. QED
  BY <1>1, <1>2, SameIndexingActions DEF X!Next, XP!Next

LEMMA SameIndexing == (X!Spec <=> XP!Spec) /\ (X!SerialSpec <=> XP!SerialSpec)
<1>1. /\ [X!Next]_(X!vars) <=> [XP!Next]_(XP!vars)
      /\ [X!Next /\ ~indexOverlap']_(X!vars) <=> [XP!Next /\ ~indexOverlap']_(XP!vars)
  BY SameIndexingNext DEF X!vars, XP!vars
<1>2. X!Init <=> XP!Init
  BY DEF X!Init, XP!Init, X!NoRow, XP!NoRow
<1>. QED
  BY <1>1, <1>2, PTL DEF X!Spec, XP!Spec, X!SerialSpec, XP!SerialSpec

-----------------------------------------------------------------------------
\* Both pc's are functions of the requests; their values are the components'.
Domains ==
    /\ extractPc = [r \in ExtractRequests |-> extractPc[r]]
    /\ indexPc = [r \in IndexRequests |-> indexPc[r]]

LEMMA ExtractStepIsOne ==
  ASSUME NEW r \in ExtractRequests, ExtractStep(r)
  PROVE  E!Next
BY DEF ExtractStep, E!Next

LEMMA IndexStepIsOne ==
  ASSUME NEW r \in IndexRequests, IndexStep(r)
  PROVE  X!Next
BY DEF IndexStep, X!Next

LEMMA DomainsInductive == Domains /\ [Next]_vars => Domains'
<1>. SUFFICES ASSUME Domains, [Next]_vars PROVE Domains'
  OBVIOUS
<1>1. ASSUME NEW r \in ExtractRequests, ExtractStep(r) PROVE Domains'
  BY <1>1 DEF Domains, ExtractStep, indexVars, E!Read, E!Progress, E!Fault, E!Create,
     E!Reset, E!StartWork, E!Complete, E!Reply, E!ReadForFailure, E!RecordFailure,
     E!PrepareFails, E!WorkFails, E!TransactionFails, E!SaveFails,
     E!RecordFailureFails, E!Goto
<1>2. ASSUME NEW r \in IndexRequests, IndexStep(r) PROVE Domains'
  BY <1>2 DEF Domains, IndexStep, extractVars, X!ReadExtraction, X!Progress, X!Fault,
     X!ReadIndex, X!Create, X!Reset, X!StartWork, X!DeleteChunks, X!InsertChunks,
     X!Embed, X!ClearPoints, X!UpsertPoints, X!CountPoints, X!Complete, X!Reply,
     X!ReadForFailure, X!RecordFailure, X!PrepareFails, X!WorkFails,
     X!TransactionFails, X!SaveFails, X!RecordFailureFails, X!Goto
<1>3. CASE Crash
  BY <1>3 DEF Domains, Crash
<1>4. CASE UNCHANGED vars
  BY <1>4 DEF Domains, vars, extractVars, indexVars
<1>. QED
  BY <1>1, <1>2, <1>3, <1>4 DEF Next

LEMMA DomainsHold == FreeSpec => []Domains
<1>1. Init => Domains
  BY DEF Init, E!Init, Domains
<1>. QED
  BY <1>1, DomainsInductive, PTL DEF FreeSpec

-----------------------------------------------------------------------------
(* Extraction *)

\* Every step of the pipeline is one of Extraction's, or nothing to it.
LEMMA StepsExtraction == Domains /\ [Next]_vars => [E!Next]_(E!vars)
<1>. SUFFICES ASSUME Domains, [Next]_vars PROVE [E!Next]_(E!vars)
  OBVIOUS
<1>1. ASSUME NEW r \in ExtractRequests, ExtractStep(r) PROVE E!Next
  BY <1>1, ExtractStepIsOne
<1>2. ASSUME NEW r \in IndexRequests, IndexStep(r) PROVE UNCHANGED E!vars
  BY <1>2 DEF IndexStep, extractVars, E!vars
<1>3. CASE Crash
  <2>1. CASE \E r \in ExtractRequests : extractPc[r] \in E!Busy
    BY <1>3, <2>1 DEF Crash, E!Next, E!Crash
  <2>2. CASE \A r \in ExtractRequests : extractPc[r] \notin E!Busy
    <3>1. \A r \in ExtractRequests : E!AfterCrash(extractPc[r]) = extractPc[r]
      BY <2>2 DEF E!AfterCrash, E!Busy
    <3>. QED
      BY <1>3, <3>1 DEF Crash, Domains, E!vars
  <2>. QED
    BY <2>1, <2>2
<1>4. CASE UNCHANGED vars
  BY <1>4 DEF vars, extractVars, E!vars
<1>. QED
  BY <1>1, <1>2, <1>3, <1>4 DEF Next

\* Whatever the index requests do, the extraction is one that Extraction allows.
THEOREM ExtractionIsImplemented == FreeSpec => E!Spec
<1>1. Init => E!Init
  BY DEF Init
<1>. QED
  BY <1>1, StepsExtraction, DomainsHold, PTL DEF FreeSpec, E!Spec

LEMMA ExtractionTyped == FreeSpec => []EP!TypeOK
BY Assumptions, EP!TypeCorrect, SameExtraction, ExtractionIsImplemented, PTL

-----------------------------------------------------------------------------
(* Indexing *)

LEMMA ExtractedTyped == EP!TypeOK => Extracted \in Texts \cup {NoText}
BY DEF EP!TypeOK, EP!Rows, Extracted

LEMMA StepsIndexing ==
  EP!TypeOK' /\ Domains /\ [Next]_vars => [X!Next]_(X!vars)
<1>. SUFFICES ASSUME EP!TypeOK', Domains, [Next]_vars PROVE [X!Next]_(X!vars)
  OBVIOUS
<1>1. ASSUME NEW r \in ExtractRequests, ExtractStep(r) PROVE [X!Next]_(X!vars)
  <2>1. Extracted' \in Texts \cup {NoText}
    BY DEF EP!TypeOK, EP!Rows, Extracted
  <2>2. CASE Extracted' = Extracted
    BY <1>1, <2>2 DEF ExtractStep, indexVars, X!vars
  <2>3. CASE Extracted' # Extracted
    BY <1>1, <2>1, <2>3 DEF ExtractStep, indexVars, X!Next, X!ExtractionChanges, X!jobs
  <2>. QED
    BY <2>2, <2>3
<1>2. ASSUME NEW r \in IndexRequests, IndexStep(r) PROVE X!Next
  BY <1>2, IndexStepIsOne
<1>3. CASE Crash
  <2>0. Extracted' = Extracted
    BY <1>3 DEF Crash, Extracted
  <2>1. CASE \E r \in IndexRequests : indexPc[r] \in X!Busy \cup {"loaded"}
    BY <1>3, <2>0, <2>1 DEF Crash, X!Next, X!Crash
  <2>2. CASE \A r \in IndexRequests : indexPc[r] \notin X!Busy \cup {"loaded"}
    <3>1. \A r \in IndexRequests : X!AfterCrash(indexPc[r]) = indexPc[r]
      BY <2>2 DEF X!AfterCrash, X!Busy, X!Indexers
    <3>. QED
      BY <1>3, <2>0, <3>1 DEF Crash, Domains, X!vars
  <2>. QED
    BY <2>1, <2>2
<1>4. CASE UNCHANGED vars
  BY <1>4 DEF vars, extractVars, indexVars, X!vars, Extracted
<1>. QED
  BY <1>1, <1>2, <1>3, <1>4 DEF Next

LEMMA InitIndexing == Init => X!Init
BY DEF Init, X!Init, X!NoRow, E!Init, E!NoRow, Extracted

LEMMA FreeIndexing == FreeSpec => X!Spec
BY InitIndexing, StepsIndexing, ExtractionTyped, DomainsHold, PTL DEF FreeSpec, X!Spec

LEMMA SpecIsFree == Spec => FreeSpec
BY PTL DEF Spec, FreeSpec

\* Seen from the index, extraction does what Indexing allows its environment: the
\* text it is given is absent or one of Texts, and changes at any time.
THEOREM IndexingImplemented == Spec => IndexingIsImplemented
BY FreeIndexing, SpecIsFree, PTL DEF IndexingIsImplemented

-----------------------------------------------------------------------------
(* The safety of each component, with requests of both kinds as they like. *)

LEMMA SameExtractionInvariants ==
  /\ E!TypeOK <=> EP!TypeOK
  /\ E!InProgressIsOwned <=> EP!InProgressIsOwned
  /\ E!FirstAttemptExclusive <=> EP!FirstAttemptExclusive
  /\ E!SerialRowConsistent <=> EP!SerialRowConsistent
<1>1. E!TypeOK <=> EP!TypeOK
  BY DEF E!TypeOK, E!Rows, E!Statuses, E!InProgress, E!Busy, E!Ended,
         EP!TypeOK, EP!Rows, EP!Statuses, EP!InProgress, EP!Busy, EP!Ended
<1>2. E!InProgressIsOwned <=> EP!InProgressIsOwned
  BY DEF E!InProgressIsOwned, E!InProgress, E!Owns, EP!InProgressIsOwned,
     EP!InProgress, EP!Owns
<1>3. E!FirstAttemptExclusive <=> EP!FirstAttemptExclusive
  BY DEF E!FirstAttemptExclusive, E!AtWork, EP!FirstAttemptExclusive, EP!AtWork
<1>4. E!SerialRowConsistent <=> EP!SerialRowConsistent
  BY DEF E!SerialRowConsistent, E!InProgress, EP!SerialRowConsistent, EP!InProgress
<1>. QED
  BY <1>1, <1>2, <1>3, <1>4

LEMMA SameIndexingInvariants ==
  /\ X!TypeOK <=> XP!TypeOK
  /\ X!InProgressIsOwned <=> XP!InProgressIsOwned
  /\ X!FirstAttemptExclusive <=> XP!FirstAttemptExclusive
  /\ X!ChunksAreOneAttempt <=> XP!ChunksAreOneAttempt
  /\ X!SerialIndexComplete <=> XP!SerialIndexComplete
<1>1. X!TypeOK <=> XP!TypeOK
  BY DEF X!TypeOK, X!Rows, X!Statuses, X!InProgress, X!Indexers, X!Busy, X!Ended,
     X!Chunks, XP!TypeOK, XP!Rows, XP!Statuses, XP!InProgress, XP!Indexers, XP!Busy,
     XP!Ended, XP!Chunks
<1>2. X!InProgressIsOwned <=> XP!InProgressIsOwned
  BY DEF X!InProgressIsOwned, X!InProgress, X!Owns, X!Indexers,
         XP!InProgressIsOwned, XP!InProgress, XP!Owns, XP!Indexers
<1>3. X!FirstAttemptExclusive <=> XP!FirstAttemptExclusive
  BY DEF X!FirstAttemptExclusive, X!AtWork, X!Indexers, XP!FirstAttemptExclusive,
     XP!AtWork, XP!Indexers
<1>4. X!ChunksAreOneAttempt <=> XP!ChunksAreOneAttempt
  BY DEF X!ChunksAreOneAttempt, X!Generated, X!Cut, XP!ChunksAreOneAttempt,
     XP!Generated, XP!Cut
<1>5. X!SerialIndexComplete <=> XP!SerialIndexComplete
  BY SameCardinality DEF X!SerialIndexComplete, X!IndexComplete,
     XP!SerialIndexComplete, XP!IndexComplete
<1>. QED
  BY <1>1, <1>2, <1>3, <1>4, <1>5

\* Whatever the index requests do meanwhile, and through crashes that cut off both
\* kinds: a row in progress has a request at work on it, the first attempt is
\* exclusive, and the row of serial extractions says what their status says.
THEOREM ExtractionStaysSound ==
  FreeSpec => [](E!TypeOK /\ E!InProgressIsOwned /\ E!FirstAttemptExclusive
                   /\ E!SerialRowConsistent)
BY Assumptions, ExtractionIsImplemented, SameExtraction, SameExtractionInvariants,
   EP!TypeCorrect, EP!InProgressOwned, EP!FirstAttemptIsExclusive,
   EP!SerialRowIsConsistent, PTL

\* Whatever the extraction requests do to the text meanwhile: a row in progress has
\* a request at work on it, the first attempt is exclusive, the chunk rows are those
\* of one attempt, and an index that serial requests completed is complete.
THEOREM IndexStaysSound ==
  FreeSpec => [](X!TypeOK /\ X!InProgressIsOwned /\ X!FirstAttemptExclusive
                   /\ X!ChunksAreOneAttempt /\ X!SerialIndexComplete)
BY Assumptions, FreeIndexing, SameIndexing, SameIndexingInvariants,
   XP!IndexTyped, XP!InProgressOwned, XP!FirstAttemptIsExclusive,
   XP!ChunksOfOneAttempt, XP!CompletedIndexIsComplete, PTL

-----------------------------------------------------------------------------
(* The lifecycle of each row, with requests of either kind one at a time. *)

LEMMA SerialExtraction == Spec => E!SerialSpec
<1>1. Domains /\ [Next /\ Serial']_vars => [E!Next /\ ~extractOverlap']_(E!vars)
  <2>. SUFFICES ASSUME Domains, [Next /\ Serial']_vars, ~UNCHANGED E!vars
                PROVE  E!Next /\ ~extractOverlap'
    OBVIOUS
  <2>1. E!Next
    BY StepsExtraction
  <2>2. Serial'
    BY DEF vars, extractVars, E!vars
  <2>. QED
    BY <2>1, <2>2 DEF Serial
<1>2. Init => E!Init
  BY DEF Init
<1>. QED
  BY <1>1, <1>2, SpecIsFree, DomainsHold, PTL DEF Spec, E!SerialSpec

LEMMA SerialIndexing == Spec => X!SerialSpec
<1>1. EP!TypeOK' /\ Domains /\ [Next /\ Serial']_vars
        => [X!Next /\ ~indexOverlap']_(X!vars)
  <2>. SUFFICES ASSUME EP!TypeOK', Domains, [Next /\ Serial']_vars, ~UNCHANGED X!vars
                PROVE  X!Next /\ ~indexOverlap'
    OBVIOUS
  <2>1. X!Next
    BY StepsIndexing
  <2>2. Serial'
    BY DEF vars, extractVars, indexVars, X!vars, Extracted
  <2>. QED
    BY <2>1, <2>2 DEF Serial
<1>. QED
  BY <1>1, InitIndexing, SpecIsFree, ExtractionTyped, DomainsHold, PTL
     DEF Spec, X!SerialSpec

LEMMA SameLifecycles ==
  /\ E!ImplementsLifecycle <=> EP!ImplementsLifecycle
  /\ X!ImplementsLifecycle <=> XP!ImplementsLifecycle
<1>1. E!ImplementsLifecycle <=> EP!ImplementsLifecycle
  BY PTL DEF E!ImplementsLifecycle, E!Promise!Spec, E!Promise!Next, E!Promise!Init,
     E!Promise!Claim, E!Promise!Start, E!Promise!Succeed, E!Promise!Settle,
     E!Promise!Fail, E!Promise!lifecycle, E!Final, EP!ImplementsLifecycle,
     EP!Promise!Spec, EP!Promise!Next, EP!Promise!Init, EP!Promise!Claim,
     EP!Promise!Start, EP!Promise!Succeed, EP!Promise!Settle, EP!Promise!Fail,
     EP!Promise!lifecycle, EP!Final
<1>2. X!ImplementsLifecycle <=> XP!ImplementsLifecycle
  BY PTL DEF X!ImplementsLifecycle, X!Promise!Spec, X!Promise!Next, X!Promise!Init,
     X!Promise!Claim, X!Promise!Start, X!Promise!Succeed, X!Promise!Settle,
     X!Promise!Fail, X!Promise!lifecycle, X!Final, XP!ImplementsLifecycle,
     XP!Promise!Spec, XP!Promise!Next, XP!Promise!Init, XP!Promise!Claim,
     XP!Promise!Start, XP!Promise!Succeed, XP!Promise!Settle, XP!Promise!Fail,
     XP!Promise!lifecycle, XP!Final
<1>. QED
  BY <1>1, <1>2

\* While index requests run beside it and crashes cut off both, every step of serial
\* extraction requests is one of the documented lifecycle of the extraction row.
THEOREM ExtractionKeepsLifecycle == Spec => ExtractionLifecycle
BY Assumptions, SerialExtraction, SameExtraction, SameLifecycles,
   EP!SerialImplementsLifecycle, PTL DEF ExtractionLifecycle

\* Likewise for the index row, whose text the extraction requests change meanwhile.
THEOREM IndexKeepsLifecycle == Spec => IndexLifecycle
BY Assumptions, SerialIndexing, SameIndexing, SameLifecycles,
   XP!SerialImplementsLifecycle, PTL DEF IndexLifecycle
=============================================================================
