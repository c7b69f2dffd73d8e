----------------------------- MODULE Pipeline -----------------------------
(***************************************************************************)
(* A document from extraction to index: the requests of Extraction and of  *)
(* Indexing interleave in one server process, and what the second reads as *)
(* the extracted text is what the first has committed                      *)
(* (DocumentIndexingService.index reads the document_extractions row).     *)
(***************************************************************************)
EXTENDS Naturals, FiniteSets

CONSTANTS
    ExtractRequests,  \* POST .../extraction requests
    IndexRequests,    \* POST .../index requests
    Texts, Blank,     \* texts an extraction can end with; the empty one
    NoText,           \* there is no completed extraction
    ChunkCount, UpsertBatch, ErrorCodes, NoError, Original, NoHash

\* Those of Extraction and of Indexing.
ASSUME PipelineAssumption ==
    /\ Blank \in Texts /\ NoText \notin Texts
    /\ NoError \notin ErrorCodes
    /\ Original # NoHash
    /\ ChunkCount \in [Texts -> Nat]
    /\ UpsertBatch \in Nat \ {0}

VARIABLES
    extraction, extractSession, extractPc, extractOverlap,
    index, chunks, points, indexSession, text, old, sent, indexPc, indexOverlap

extractVars == <<extraction, extractSession, extractPc, extractOverlap>>
indexVars == <<index, chunks, points, indexSession, text, old, sent, indexPc,
               indexOverlap>>
vars == <<extractVars, indexVars>>

E == INSTANCE Extraction
    WITH Requests <- ExtractRequests, row <- extraction,
         session <- extractSession, pc <- extractPc, overlap <- extractOverlap

\* The text an index request is given: that of a completed extraction only.
Extracted == IF extraction.status = "COMPLETED" THEN extraction.text ELSE NoText

X == INSTANCE Indexing
    WITH Requests <- IndexRequests, extracted <- Extracted, row <- index,
         session <- indexSession, pc <- indexPc, overlap <- indexOverlap

-----------------------------------------------------------------------------
Init ==
    /\ E!Init
    /\ index = X!NoRow
    /\ chunks = {} /\ points = {}
    /\ indexSession = [r \in IndexRequests |-> X!NoRow]
    /\ text = [r \in IndexRequests |-> NoText]
    /\ old = [r \in IndexRequests |-> {}]
    /\ sent = [r \in IndexRequests |-> 0]
    /\ indexPc = [r \in IndexRequests |-> "idle"]
    /\ indexOverlap = FALSE

ExtractStep(r) ==
    /\ E!Read(r) \/ E!Progress(r) \/ E!Fault(r)
    /\ UNCHANGED indexVars

IndexStep(r) ==
    /\ UNCHANGED extractVars
    /\ X!ReadExtraction(r) \/ X!Progress(r) \/ X!Fault(r)

\* Mutant: the restart creates the Qdrant collection anew.
Crash_DropsPoints ==
    /\ \/ \E r \in ExtractRequests : extractPc[r] \in E!Busy
       \/ \E r \in IndexRequests : indexPc[r] \in X!Busy \cup {"loaded"}
    /\ extractPc' = [r \in ExtractRequests |-> E!AfterCrash(extractPc[r])]
    /\ indexPc' = [r \in IndexRequests |-> X!AfterCrash(indexPc[r])]
    /\ points' = {}
    /\ UNCHANGED <<extraction, extractSession, extractOverlap, index, chunks,
                   indexSession, text, old, sent, indexOverlap>>

\* One process serves both: a crash cuts all of their requests off.
Crash ==
    /\ \/ \E r \in ExtractRequests : extractPc[r] \in E!Busy
       \/ \E r \in IndexRequests : indexPc[r] \in X!Busy \cup {"loaded"}
    /\ extractPc' = [r \in ExtractRequests |-> E!AfterCrash(extractPc[r])]
    /\ indexPc' = [r \in IndexRequests |-> X!AfterCrash(indexPc[r])]
    /\ UNCHANGED <<extraction, extractSession, extractOverlap, index, chunks, points,
                   indexSession, text, old, sent, indexOverlap>>

Next ==
    \/ \E r \in ExtractRequests : ExtractStep(r)
    \/ \E r \in IndexRequests : IndexStep(r)
    \/ Crash

\* Requests of either kind come as they like.
FreeSpec == Init /\ [][Next]_vars

\* Requests of either kind come one at a time, as a single user's do; the two
\* kinds still interleave.
Serial == ~extractOverlap /\ ~indexOverlap

Spec == Init /\ [][Next /\ Serial']_vars

-----------------------------------------------------------------------------
(* Properties *)

\* Each of the two rows goes through the documented lifecycle, whatever fails.
ExtractionLifecycle == E!ImplementsLifecycle
IndexLifecycle == X!ImplementsLifecycle

\* Seen from the index, extraction does what Indexing allows its environment.
IndexingIsImplemented == X!Spec
=============================================================================
