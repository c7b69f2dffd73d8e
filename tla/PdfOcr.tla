------------------------------- MODULE PdfOcr -------------------------------
(***************************************************************************)
(* The text of PDF documents, extracted at once in worker threads that     *)
(* share one OCR engine: PDFExtractor                                      *)
(* (backend/app/documents/extractors/pdf.py) with TesseractOCRProvider     *)
(* (backend/app/documents/ocr/tesseract.py).                               *)
(*                                                                         *)
(* Time is counted down: left[d] is what remains of the OCR time of d, and *)
(* timer[d] of the timeout of the call that d waits in.                    *)
(***************************************************************************)
EXTENDS Integers, FiniteSets

CONSTANTS
    Documents,     \* PDFs extracted at the same time
    MaxPages,      \* OCR_MAX_PAGES
    Slots,         \* OCR_MAX_CONCURRENCY
    Budget,        \* OCR_TIMEOUT_SECONDS, in units of the clock
    ProbeTimeout,  \* PROBE_TIMEOUT_SECONDS
    PageCounts,    \* page counts of the PDFs
    Nobody         \* the probe lock is free

ASSUME ConstantsAssumption ==
    /\ IsFiniteSet(Documents) /\ Nobody \notin Documents
    /\ {MaxPages, Slots, Budget, ProbeTimeout} \subseteq Nat \ {0}
    /\ PageCounts \subseteq Nat

VARIABLES
    enabled,     \* OCR_ENABLED
    runtime,     \* _runtime_info is set: the engine was verified
    lock,        \* holder of _probe_lock
    slots,       \* free slots of _semaphore
    count,       \* page_count
    insufficient,  \* ocr_page_numbers: the pages without meaningful text
    recognized,  \* pages whose text comes from OCR
    left, timer,
    outcome,     \* "none", "completed", or the code of the ExtractionError
    pc           \* where the thread of a document is

engine == <<runtime, lock, slots>>
vars == <<enabled, engine, count, insufficient, recognized, left, timer, outcome, pc>>

\* The calls with a timeout: the probe, a slot, a recognition.
Timed == {"probing", "queueing", "recognizing"}

Lesser(a, b) == IF a <= b THEN a ELSE b

Goto(d, step) == pc' = [pc EXCEPT ![d] = step]

End(d, code) ==
    /\ outcome' = [outcome EXCEPT ![d] = code]
    /\ Goto(d, "ended")

Init ==
    /\ enabled \in BOOLEAN
    /\ runtime = FALSE /\ lock = Nobody /\ slots = Slots
    /\ count = [d \in Documents |-> 0]
    /\ insufficient = [d \in Documents |-> {}]
    /\ recognized = [d \in Documents |-> {}]
    /\ left = [d \in Documents |-> 0]
    /\ timer = [d \in Documents |-> 0]
    /\ outcome = [d \in Documents |-> "none"]
    /\ pc = [d \in Documents |-> "idle"]

-----------------------------------------------------------------------------
(* The document *)

\* The file cannot be opened.
OpenFails(d) ==
    /\ pc[d] = "idle"
    /\ End(d, "DOCUMENT_CORRUPTED")
    /\ UNCHANGED <<enabled, engine, count, insufficient, recognized, left, timer>>

\* The file is opened; with OCR on, too many pages are refused before any is read.
Open(d) ==
    /\ pc[d] = "idle"
    /\ \E n \in PageCounts :
        /\ count' = [count EXCEPT ![d] = n]
        /\ IF enabled /\ n > MaxPages THEN End(d, "OCR_PAGE_LIMIT_EXCEEDED")
           ELSE Goto(d, "reading") /\ UNCHANGED outcome
    /\ UNCHANGED <<enabled, engine, insufficient, recognized, left, timer>>

\* Reading a page fails.
ReadFails(d) ==
    /\ pc[d] = "reading" /\ count[d] > 0
    /\ End(d, "DOCUMENT_CORRUPTED")
    /\ UNCHANGED <<enabled, engine, count, insufficient, recognized, left, timer>>

\* is_meaningful_text counts characters: which pages lack meaningful text depends on
\* nothing but the document.
Insufficient(d) == SUBSET (1 .. count[d])

\* The text of every page is read, and the pages told apart that need OCR. The time
\* for OCR starts to run when there are any.
ReadPages(d) ==
    /\ pc[d] = "reading"
    /\ \E P \in Insufficient(d) :
        /\ insufficient' = [insufficient EXCEPT ![d] = P]
        /\ \/ P = {} /\ End(d, "completed") /\ UNCHANGED left
           \/ P # {} /\ ~enabled /\ End(d, "OCR_DISABLED") /\ UNCHANGED left
           \/ /\ P # {} /\ enabled
              /\ left' = [left EXCEPT ![d] = Budget]
              /\ Goto(d, "verifying") /\ UNCHANGED outcome
    /\ UNCHANGED <<enabled, engine, count, recognized, timer>>

-----------------------------------------------------------------------------
(* verify: the engine is probed once, under a lock *)

\* The timeout of the probe is settled here, before the lock is waited for.
Verify(d) ==
    /\ pc[d] = "verifying"
    /\ IF runtime THEN Goto(d, "paging") /\ UNCHANGED timer
       ELSE /\ timer' = [timer EXCEPT ![d] = Lesser(left[d], ProbeTimeout)]
            /\ Goto(d, "locking")
    /\ UNCHANGED <<enabled, engine, count, insufficient, recognized, left, outcome>>

\* The lock is waited for without a timeout; whoever gets it looks again whether
\* the engine has been verified.
TakeLock(d) ==
    /\ pc[d] = "locking" /\ lock = Nobody
    /\ IF runtime THEN Goto(d, "paging") /\ UNCHANGED lock
       ELSE lock' = d /\ Goto(d, "probing")
    /\ UNCHANGED <<enabled, runtime, slots, count, insufficient, recognized, left,
                   timer, outcome>>

\* Both commands have answered in time.
ProbeSucceeds(d) ==
    /\ pc[d] = "probing"
    /\ runtime' = TRUE
    /\ lock' = Nobody
    /\ Goto(d, "paging")
    /\ UNCHANGED <<enabled, slots, count, insufficient, recognized, left, timer, outcome>>

\* Mutant: the lock is only released by a probe that succeeds.
ProbeFails_KeepsLock(d) ==
    /\ pc[d] = "probing"
    /\ \/ \E code \in {"OCR_UNAVAILABLE", "OCR_LANGUAGE_UNAVAILABLE",
                       "OCR_PROCESSING_FAILED"} : End(d, code)
       \/ timer[d] = 0 /\ End(d, "OCR_TIMEOUT")
    /\ UNCHANGED <<enabled, engine, count, insufficient, recognized, left, timer>>

\* No engine, no language, an exception that verify does not expect, or the time is
\* up. Nothing is remembered: the next document probes again.
ProbeFails(d) ==
    /\ pc[d] = "probing"
    /\ \/ \E code \in {"OCR_UNAVAILABLE", "OCR_LANGUAGE_UNAVAILABLE",
                       "OCR_PROCESSING_FAILED"} : End(d, code)
       \/ timer[d] = 0 /\ End(d, "OCR_TIMEOUT")
    /\ lock' = Nobody
    /\ UNCHANGED <<enabled, runtime, slots, count, insufficient, recognized, left, timer>>

-----------------------------------------------------------------------------
(* The loop over the pages *)

Missing(d) == insufficient[d] \ recognized[d]

\* Mutant: when the time is up the loop ends with what there is.
NextPage_Stops(d) ==
    /\ pc[d] = "paging"
    /\ \/ (Missing(d) = {} \/ left[d] = 0) /\ End(d, "completed")
       \/ /\ Missing(d) # {} /\ left[d] > 0
          /\ \/ \E code \in {"OCR_RENDER_FAILED", "OCR_IMAGE_LIMIT_EXCEEDED"} : End(d, code)
             \/ Goto(d, "rendering") /\ UNCHANGED outcome
    /\ UNCHANGED <<enabled, engine, count, insufficient, recognized, left, timer>>

\* The extraction completes after the last page, fails if the time is up or the
\* image would be too large, or renders the next page.
NextPage(d) ==
    /\ pc[d] = "paging"
    /\ \/ Missing(d) = {} /\ End(d, "completed")
       \/ Missing(d) # {} /\ left[d] = 0 /\ End(d, "OCR_TIMEOUT")
       \/ /\ Missing(d) # {} /\ left[d] > 0
          /\ \/ \E code \in {"OCR_RENDER_FAILED", "OCR_IMAGE_LIMIT_EXCEEDED"} : End(d, code)
             \/ Goto(d, "rendering") /\ UNCHANGED outcome
    /\ UNCHANGED <<enabled, engine, count, insufficient, recognized, left, timer>>

\* Mutant: each page is given the whole time.
Rendered_WholeBudget(d) ==
    /\ pc[d] = "rendering"
    /\ IF left[d] = 0 THEN End(d, "OCR_TIMEOUT") /\ UNCHANGED timer
       ELSE /\ timer' = [timer EXCEPT ![d] = Budget]
            /\ Goto(d, "queueing") /\ UNCHANGED outcome
    /\ UNCHANGED <<enabled, engine, count, insufficient, recognized, left>>

\* The image is there, after however long: recognize is called with what is left of
\* the time. (The engine it verifies first is verified by now.)
Rendered(d) ==
    /\ pc[d] = "rendering"
    /\ IF left[d] = 0 THEN End(d, "OCR_TIMEOUT") /\ UNCHANGED timer
       ELSE /\ timer' = [timer EXCEPT ![d] = left[d]]
            /\ Goto(d, "queueing") /\ UNCHANGED outcome
    /\ UNCHANGED <<enabled, engine, count, insufficient, recognized, left>>

RenderFails(d) ==
    /\ pc[d] = "rendering"
    /\ End(d, "OCR_RENDER_FAILED")
    /\ UNCHANGED <<enabled, engine, count, insufficient, recognized, left, timer>>

-----------------------------------------------------------------------------
(* recognize: at most Slots pages at a time *)

\* A slot is free. One that comes when the time is up is given back.
Acquire(d) ==
    /\ pc[d] = "queueing" /\ slots > 0
    /\ IF timer[d] = 0 THEN End(d, "OCR_TIMEOUT") /\ UNCHANGED slots
       ELSE slots' = slots - 1 /\ Goto(d, "recognizing") /\ UNCHANGED outcome
    /\ UNCHANGED <<enabled, runtime, lock, count, insufficient, recognized, left, timer>>

\* Mutant: the slot is released even if it was not acquired.
QueueTimeout_Releases(d) ==
    /\ pc[d] = "queueing" /\ timer[d] = 0
    /\ slots' = slots + 1
    /\ End(d, "OCR_TIMEOUT")
    /\ UNCHANGED <<enabled, runtime, lock, count, insufficient, recognized, left, timer>>

\* No slot in time: there is none to release.
QueueTimeout(d) ==
    /\ pc[d] = "queueing" /\ timer[d] = 0
    /\ End(d, "OCR_TIMEOUT")
    /\ UNCHANGED <<enabled, engine, count, insufficient, recognized, left, timer>>

\* The first missing page has its text.
Recognize(d) ==
    /\ pc[d] = "recognizing"
    /\ \E p \in Missing(d) :
        /\ \A q \in Missing(d) : p <= q
        /\ recognized' = [recognized EXCEPT ![d] = @ \cup {p}]
    /\ slots' = slots + 1
    /\ Goto(d, "paging")
    /\ UNCHANGED <<enabled, runtime, lock, count, insufficient, left, timer, outcome>>

\* The engine is gone, fails or is stopped when the time is up. (Its own failures
\* are RuntimeErrors too and are reported as a timeout.)
RecognizeFails(d) ==
    /\ pc[d] = "recognizing"
    /\ \E code \in {"OCR_UNAVAILABLE", "OCR_PROCESSING_FAILED", "OCR_TIMEOUT"} :
        End(d, code)
    /\ slots' = slots + 1
    /\ UNCHANGED <<enabled, runtime, lock, count, insufficient, recognized, left, timer>>

-----------------------------------------------------------------------------
Passed(t) == IF t = 0 THEN 0 ELSE t - 1

\* Time passes. A timeout takes effect when it is due.
Tick ==
    /\ \A d \in Documents : pc[d] \in Timed => timer[d] > 0
    /\ left' = [d \in Documents |-> IF pc[d] = "ended" THEN left[d] ELSE Passed(left[d])]
    /\ timer' = [d \in Documents |-> IF pc[d] \in Timed THEN Passed(timer[d]) ELSE timer[d]]
    /\ UNCHANGED <<enabled, engine, count, insufficient, recognized, outcome, pc>>

Progress(d) ==
    \/ ReadPages(d) \/ Verify(d) \/ TakeLock(d) \/ ProbeSucceeds(d) \/ NextPage(d)
    \/ Rendered(d) \/ Acquire(d) \/ QueueTimeout(d) \/ Recognize(d)

Fault(d) ==
    \/ ReadFails(d) \/ ProbeFails(d) \/ RenderFails(d) \/ RecognizeFails(d)

Next ==
    \/ \E d \in Documents : Open(d) \/ OpenFails(d) \/ Progress(d) \/ Fault(d)
    \/ Tick

Spec == Init /\ [][Next]_vars

-----------------------------------------------------------------------------
(* Properties *)

AtWork == {d \in Documents : pc[d] = "recognizing"}

\* Types; the lock is held by the one document that probes, and every slot is free
\* or taken by one recognition, whatever times out or fails.
TypeOK ==
    /\ enabled \in BOOLEAN /\ runtime \in BOOLEAN
    /\ lock \in Documents \cup {Nobody}
    /\ \A d \in Documents : pc[d] = "probing" <=> lock = d
    /\ slots = Slots - Cardinality(AtWork) /\ slots >= 0
    /\ count \in [Documents -> PageCounts \cup {0}]
    /\ \A d \in Documents : insufficient[d] \subseteq 1 .. count[d]
    /\ \A d \in Documents : recognized[d] \subseteq insufficient[d]
    /\ left \in [Documents -> 0 .. Budget]
    /\ timer \in [Documents -> 0 .. Budget]

\* A page is waited for and recognized within the time of its document, however long
\* the probe, the other pages and the other documents took.
RecognizedInTime ==
    \A d \in Documents : pc[d] \in {"queueing", "recognizing"} => timer[d] <= left[d]

\* "A limit failure fails the whole extraction rather than completing partially": a
\* completed extraction has read every page with text directly and every other one
\* by OCR, with a verified engine and no more pages than allowed.
WholeOrFailed ==
    \A d \in Documents : outcome[d] = "completed" =>
        /\ recognized[d] = insufficient[d]
        /\ recognized[d] # {} => runtime /\ enabled
        /\ enabled => count[d] <= MaxPages
=============================================================================
