---------------------------- MODULE WorkersProofs ----------------------------
(***************************************************************************)
(* Proofs about PdfOcr and Workers, for any number of documents, requests, *)
(* threads, slots, pages and fields and any time limits.                   *)
(***************************************************************************)
EXTENDS Workers, TLAPS, FiniteSetTheorems

Steps == {"idle", "reading", "verifying", "locking", "probing", "paging", "rendering",
          "queueing", "recognizing", "ended"}

Codes == {"none", "completed", "DOCUMENT_CORRUPTED", "OCR_DISABLED", "OCR_UNAVAILABLE",
          "OCR_LANGUAGE_UNAVAILABLE", "OCR_TIMEOUT", "OCR_PAGE_LIMIT_EXCEEDED",
          "OCR_IMAGE_LIMIT_EXCEEDED", "OCR_RENDER_FAILED", "OCR_PROCESSING_FAILED"}

Typed ==
    /\ enabled \in BOOLEAN /\ runtime \in BOOLEAN
    /\ lock \in Documents \cup {Nobody}
    /\ slots \in Int
    /\ count \in [Documents -> PageCounts \cup {0}]
    /\ insufficient \in [Documents -> SUBSET Nat]
    /\ recognized \in [Documents -> SUBSET Nat]
    /\ left \in [Documents -> 0 .. Budget]
    /\ timer \in [Documents -> 0 .. Budget]
    /\ outcome \in [Documents -> Codes]
    /\ pc \in [Documents -> Steps]

LockHeld == \A d \in Documents : pc[d] = "probing" <=> lock = d

SlotsCounted == slots = Slots - Cardinality(AtWork) /\ slots >= 0

PagesOfDocument ==
    \A d \in Documents :
        /\ insufficient[d] \subseteq 1 .. count[d]
        /\ recognized[d] \subseteq insufficient[d]

\* What a document that has come this far has passed.
Passing ==
    \A d \in Documents :
        /\ pc[d] \in {"idle", "reading"} => insufficient[d] = {}
        /\ pc[d] \notin {"idle", "ended"} /\ enabled => count[d] <= MaxPages
        /\ pc[d] \notin {"idle", "reading", "ended"} => enabled
        /\ pc[d] \in {"paging", "rendering", "queueing", "recognizing"} => runtime
        /\ recognized[d] # {} => runtime /\ enabled
        /\ outcome[d] = "completed" => pc[d] = "ended"

\* The inductive invariant.
OcrInv ==
    /\ Typed /\ LockHeld /\ SlotsCounted /\ PagesOfDocument
    /\ RecognizedInTime /\ Passing /\ WholeOrFailed

-----------------------------------------------------------------------------
\* The limits, one by one.
LEMMA Limits ==
    /\ MaxPages \in Nat /\ Slots \in Nat /\ Budget \in Nat /\ ProbeTimeout \in Nat
    /\ PageCounts \subseteq Nat /\ Nobody \notin Documents /\ IsFiniteSet(Documents)
BY ConstantsAssumption

\* Before the first document everything is free.
LEMMA InitInv == Init => OcrInv
<1> SUFFICES ASSUME Init PROVE OcrInv
    OBVIOUS
<1> USE Limits DEF Init
<1>1. Typed
    <2>1. left \in [Documents -> 0 .. Budget] /\ timer \in [Documents -> 0 .. Budget]
        BY DEF Init
    <2>2. slots \in Int
        BY DEF Init
    <2> QED
        BY <2>1, <2>2 DEF Typed, Steps, Codes
<1>2. LockHeld /\ PagesOfDocument /\ RecognizedInTime /\ Passing /\ WholeOrFailed
    BY DEF LockHeld, PagesOfDocument, RecognizedInTime, Passing, WholeOrFailed
<1>3. SlotsCounted
    <2>1. AtWork = {}
        BY DEF AtWork
    <2> QED
        BY <2>1, FS_EmptySet DEF SlotsCounted
<1> QED
    BY <1>1, <1>2, <1>3 DEF OcrInv

\* A document at work holds one slot: taken when it starts, given back when it stops.
LEMMA WorkersCounted ==
    ASSUME Typed, NEW d \in Documents, NEW step \in Steps, Goto(d, step)
    PROVE  /\ Cardinality(AtWork) \in Nat
           /\ pc[d] # "recognizing" /\ step # "recognizing" =>
                Cardinality(AtWork') = Cardinality(AtWork)
           /\ pc[d] # "recognizing" /\ step = "recognizing" =>
                Cardinality(AtWork') = Cardinality(AtWork) + 1
           /\ pc[d] = "recognizing" /\ step # "recognizing" =>
                Cardinality(AtWork') = Cardinality(AtWork) - 1
<1>1. IsFiniteSet(AtWork)
    BY ConstantsAssumption, FS_Subset DEF AtWork
<1>2. pc' = [pc EXCEPT ![d] = step] /\ pc \in [Documents -> Steps]
    BY DEF Goto, Typed
<1>3. Cardinality(AtWork) \in Nat
    BY <1>1, FS_CardinalityType
<1>4. CASE pc[d] # "recognizing" /\ step # "recognizing"
    BY <1>2, <1>3, <1>4 DEF AtWork
<1>5. CASE pc[d] # "recognizing" /\ step = "recognizing"
    <2>1. AtWork' = AtWork \cup {d} /\ d \notin AtWork
        BY <1>2, <1>5 DEF AtWork
    <2> QED
        BY <1>1, <1>3, <1>5, <2>1, FS_AddElement
<1>6. CASE pc[d] = "recognizing" /\ step # "recognizing"
    <2>1. AtWork' = AtWork \ {d} /\ d \in AtWork
        BY <1>2, <1>6 DEF AtWork
    <2> QED
        BY <1>1, <1>3, <1>6, <2>1, FS_RemoveElement
<1> QED
    BY <1>3, <1>4, <1>5, <1>6

\* Every step keeps the types.
LEMMA TypedStep ==
    ASSUME Typed, Next PROVE Typed'
<1> USE Limits DEF Typed, End, Goto, engine
<1>1. ASSUME NEW d \in Documents, Open(d) PROVE Typed'
    BY <1>1 DEF Open, Steps, Codes
<1>2. ASSUME NEW d \in Documents, OpenFails(d) PROVE Typed'
    BY <1>2 DEF OpenFails, Steps, Codes
<1>3. ASSUME NEW d \in Documents, ReadFails(d) PROVE Typed'
    BY <1>3 DEF ReadFails, Steps, Codes
<1>4. ASSUME NEW d \in Documents, ReadPages(d) PROVE Typed'
    BY <1>4 DEF ReadPages, Insufficient, Steps, Codes
<1>5. ASSUME NEW d \in Documents, Verify(d) PROVE Typed'
    BY <1>5 DEF Verify, Steps, Codes, Lesser
<1>6. ASSUME NEW d \in Documents, TakeLock(d) PROVE Typed'
    BY <1>6 DEF TakeLock, Steps, Codes
<1>7. ASSUME NEW d \in Documents, ProbeSucceeds(d) PROVE Typed'
    BY <1>7 DEF ProbeSucceeds, Steps, Codes
<1>8. ASSUME NEW d \in Documents, ProbeFails(d) PROVE Typed'
    BY <1>8 DEF ProbeFails, Steps, Codes
<1>9. ASSUME NEW d \in Documents, NextPage(d) PROVE Typed'
    BY <1>9 DEF NextPage, Steps, Codes
<1>10. ASSUME NEW d \in Documents, Rendered(d) PROVE Typed'
    BY <1>10 DEF Rendered, Steps, Codes
<1>11. ASSUME NEW d \in Documents, RenderFails(d) PROVE Typed'
    BY <1>11 DEF RenderFails, Steps, Codes
<1>12. ASSUME NEW d \in Documents, Acquire(d) PROVE Typed'
    BY <1>12 DEF Acquire, Steps, Codes
<1>13. ASSUME NEW d \in Documents, QueueTimeout(d) PROVE Typed'
    BY <1>13 DEF QueueTimeout, Steps, Codes
<1>14. ASSUME NEW d \in Documents, Recognize(d) PROVE Typed'
    BY <1>14 DEF Recognize, Steps, Codes, Missing
<1>15. ASSUME NEW d \in Documents, RecognizeFails(d) PROVE Typed'
    BY <1>15 DEF RecognizeFails, Steps, Codes
<1>16. CASE Tick
    BY <1>16 DEF Tick, Passed
<1> QED
    BY <1>1, <1>2, <1>3, <1>4, <1>5, <1>6, <1>7, <1>8, <1>9, <1>10, <1>11, <1>12,
       <1>13, <1>14, <1>15, <1>16 DEF Next, Progress, Fault

\* Every step keeps the lock with the document that probes.
LEMMA LockStep ==
    ASSUME Typed, LockHeld, Next PROVE LockHeld'
<1> USE Limits DEF Typed, LockHeld, End, Goto, engine
<1>1. ASSUME NEW d \in Documents, Open(d) PROVE LockHeld'
    BY <1>1 DEF Open
<1>2. ASSUME NEW d \in Documents, OpenFails(d) PROVE LockHeld'
    BY <1>2 DEF OpenFails
<1>3. ASSUME NEW d \in Documents, ReadFails(d) PROVE LockHeld'
    BY <1>3 DEF ReadFails
<1>4. ASSUME NEW d \in Documents, ReadPages(d) PROVE LockHeld'
    BY <1>4 DEF ReadPages, Insufficient
<1>5. ASSUME NEW d \in Documents, Verify(d) PROVE LockHeld'
    BY <1>5 DEF Verify
<1>6. ASSUME NEW d \in Documents, TakeLock(d) PROVE LockHeld'
    BY <1>6 DEF TakeLock
<1>7. ASSUME NEW d \in Documents, ProbeSucceeds(d) PROVE LockHeld'
    BY <1>7 DEF ProbeSucceeds
<1>8. ASSUME NEW d \in Documents, ProbeFails(d) PROVE LockHeld'
    BY <1>8 DEF ProbeFails
<1>9. ASSUME NEW d \in Documents, NextPage(d) PROVE LockHeld'
    BY <1>9 DEF NextPage
<1>10. ASSUME NEW d \in Documents, Rendered(d) PROVE LockHeld'
    BY <1>10 DEF Rendered
<1>11. ASSUME NEW d \in Documents, RenderFails(d) PROVE LockHeld'
    BY <1>11 DEF RenderFails
<1>12. ASSUME NEW d \in Documents, Acquire(d) PROVE LockHeld'
    BY <1>12 DEF Acquire
<1>13. ASSUME NEW d \in Documents, QueueTimeout(d) PROVE LockHeld'
    BY <1>13 DEF QueueTimeout
<1>14. ASSUME NEW d \in Documents, Recognize(d) PROVE LockHeld'
    BY <1>14 DEF Recognize
<1>15. ASSUME NEW d \in Documents, RecognizeFails(d) PROVE LockHeld'
    BY <1>15 DEF RecognizeFails
<1>16. CASE Tick
    BY <1>16 DEF Tick
<1> QED
    BY <1>1, <1>2, <1>3, <1>4, <1>5, <1>6, <1>7, <1>8, <1>9, <1>10, <1>11, <1>12,
       <1>13, <1>14, <1>15, <1>16 DEF Next, Progress, Fault

\* Every step reads pages of the document only.
LEMMA PagesStep ==
    ASSUME Typed, PagesOfDocument, Passing, Next PROVE PagesOfDocument'
<1> USE Limits DEF Typed, PagesOfDocument, End, Goto, engine
<1>1. ASSUME NEW d \in Documents, Open(d) PROVE PagesOfDocument'
    BY <1>1 DEF Open, Passing
<1>2. ASSUME NEW d \in Documents, OpenFails(d) PROVE PagesOfDocument'
    BY <1>2 DEF OpenFails
<1>3. ASSUME NEW d \in Documents, ReadFails(d) PROVE PagesOfDocument'
    BY <1>3 DEF ReadFails
<1>4. ASSUME NEW d \in Documents, ReadPages(d) PROVE PagesOfDocument'
    BY <1>4 DEF ReadPages, Insufficient, Passing
<1>5. ASSUME NEW d \in Documents, Verify(d) PROVE PagesOfDocument'
    BY <1>5 DEF Verify
<1>6. ASSUME NEW d \in Documents, TakeLock(d) PROVE PagesOfDocument'
    BY <1>6 DEF TakeLock
<1>7. ASSUME NEW d \in Documents, ProbeSucceeds(d) PROVE PagesOfDocument'
    BY <1>7 DEF ProbeSucceeds
<1>8. ASSUME NEW d \in Documents, ProbeFails(d) PROVE PagesOfDocument'
    BY <1>8 DEF ProbeFails
<1>9. ASSUME NEW d \in Documents, NextPage(d) PROVE PagesOfDocument'
    BY <1>9 DEF NextPage
<1>10. ASSUME NEW d \in Documents, Rendered(d) PROVE PagesOfDocument'
    BY <1>10 DEF Rendered
<1>11. ASSUME NEW d \in Documents, RenderFails(d) PROVE PagesOfDocument'
    BY <1>11 DEF RenderFails
<1>12. ASSUME NEW d \in Documents, Acquire(d) PROVE PagesOfDocument'
    BY <1>12 DEF Acquire
<1>13. ASSUME NEW d \in Documents, QueueTimeout(d) PROVE PagesOfDocument'
    BY <1>13 DEF QueueTimeout
<1>14. ASSUME NEW d \in Documents, Recognize(d) PROVE PagesOfDocument'
    BY <1>14 DEF Recognize, Missing
<1>15. ASSUME NEW d \in Documents, RecognizeFails(d) PROVE PagesOfDocument'
    BY <1>15 DEF RecognizeFails
<1>16. CASE Tick
    BY <1>16 DEF Tick
<1> QED
    BY <1>1, <1>2, <1>3, <1>4, <1>5, <1>6, <1>7, <1>8, <1>9, <1>10, <1>11, <1>12,
       <1>13, <1>14, <1>15, <1>16 DEF Next, Progress, Fault

\* Every step keeps the waits within the time of the document.
LEMMA InTimeStep ==
    ASSUME Typed, RecognizedInTime, Next PROVE RecognizedInTime'
<1> USE Limits DEF Typed, RecognizedInTime, End, Goto, engine
<1>1. ASSUME NEW d \in Documents, Open(d) PROVE RecognizedInTime'
    BY <1>1 DEF Open
<1>2. ASSUME NEW d \in Documents, OpenFails(d) PROVE RecognizedInTime'
    BY <1>2 DEF OpenFails
<1>3. ASSUME NEW d \in Documents, ReadFails(d) PROVE RecognizedInTime'
    BY <1>3 DEF ReadFails
<1>4. ASSUME NEW d \in Documents, ReadPages(d) PROVE RecognizedInTime'
    BY <1>4 DEF ReadPages, Insufficient
<1>5. ASSUME NEW d \in Documents, Verify(d) PROVE RecognizedInTime'
    BY <1>5 DEF Verify, Lesser
<1>6. ASSUME NEW d \in Documents, TakeLock(d) PROVE RecognizedInTime'
    BY <1>6 DEF TakeLock
<1>7. ASSUME NEW d \in Documents, ProbeSucceeds(d) PROVE RecognizedInTime'
    BY <1>7 DEF ProbeSucceeds
<1>8. ASSUME NEW d \in Documents, ProbeFails(d) PROVE RecognizedInTime'
    BY <1>8 DEF ProbeFails
<1>9. ASSUME NEW d \in Documents, NextPage(d) PROVE RecognizedInTime'
    BY <1>9 DEF NextPage
<1>10. ASSUME NEW d \in Documents, Rendered(d) PROVE RecognizedInTime'
    BY <1>10 DEF Rendered
<1>11. ASSUME NEW d \in Documents, RenderFails(d) PROVE RecognizedInTime'
    BY <1>11 DEF RenderFails
<1>12. ASSUME NEW d \in Documents, Acquire(d) PROVE RecognizedInTime'
    BY <1>12 DEF Acquire
<1>13. ASSUME NEW d \in Documents, QueueTimeout(d) PROVE RecognizedInTime'
    BY <1>13 DEF QueueTimeout
<1>14. ASSUME NEW d \in Documents, Recognize(d) PROVE RecognizedInTime'
    BY <1>14 DEF Recognize
<1>15. ASSUME NEW d \in Documents, RecognizeFails(d) PROVE RecognizedInTime'
    BY <1>15 DEF RecognizeFails
<1>16. CASE Tick
    BY <1>16 DEF Tick, Timed, Passed
<1> QED
    BY <1>1, <1>2, <1>3, <1>4, <1>5, <1>6, <1>7, <1>8, <1>9, <1>10, <1>11, <1>12,
       <1>13, <1>14, <1>15, <1>16 DEF Next, Progress, Fault

\* Every step keeps what the documents have passed.
LEMMA PassingStep ==
    ASSUME Typed, PagesOfDocument, Passing, Next PROVE Passing'
<1> USE Limits DEF Typed, Passing, End, Goto, engine
<1>1. ASSUME NEW d \in Documents, Open(d) PROVE Passing'
    BY <1>1 DEF Open, PagesOfDocument
<1>2. ASSUME NEW d \in Documents, OpenFails(d) PROVE Passing'
    BY <1>2 DEF OpenFails
<1>3. ASSUME NEW d \in Documents, ReadFails(d) PROVE Passing'
    BY <1>3 DEF ReadFails
<1>4. ASSUME NEW d \in Documents, ReadPages(d) PROVE Passing'
    BY <1>4 DEF ReadPages, Insufficient, PagesOfDocument
<1>5. ASSUME NEW d \in Documents, Verify(d) PROVE Passing'
    BY <1>5 DEF Verify
<1>6. ASSUME NEW d \in Documents, TakeLock(d) PROVE Passing'
    BY <1>6 DEF TakeLock
<1>7. ASSUME NEW d \in Documents, ProbeSucceeds(d) PROVE Passing'
    BY <1>7 DEF ProbeSucceeds
<1>8. ASSUME NEW d \in Documents, ProbeFails(d) PROVE Passing'
    BY <1>8 DEF ProbeFails
<1>9. ASSUME NEW d \in Documents, NextPage(d) PROVE Passing'
    BY <1>9 DEF NextPage
<1>10. ASSUME NEW d \in Documents, Rendered(d) PROVE Passing'
    BY <1>10 DEF Rendered
<1>11. ASSUME NEW d \in Documents, RenderFails(d) PROVE Passing'
    BY <1>11 DEF RenderFails
<1>12. ASSUME NEW d \in Documents, Acquire(d) PROVE Passing'
    BY <1>12 DEF Acquire
<1>13. ASSUME NEW d \in Documents, QueueTimeout(d) PROVE Passing'
    BY <1>13 DEF QueueTimeout
<1>14. ASSUME NEW d \in Documents, Recognize(d) PROVE Passing'
    BY <1>14 DEF Recognize, Missing
<1>15. ASSUME NEW d \in Documents, RecognizeFails(d) PROVE Passing'
    BY <1>15 DEF RecognizeFails
<1>16. CASE Tick
    BY <1>16 DEF Tick
<1> QED
    BY <1>1, <1>2, <1>3, <1>4, <1>5, <1>6, <1>7, <1>8, <1>9, <1>10, <1>11, <1>12,
       <1>13, <1>14, <1>15, <1>16 DEF Next, Progress, Fault

\* Every step completes documents only when all of their pages are read.
LEMMA WholeStep ==
    ASSUME Typed, PagesOfDocument, Passing, WholeOrFailed, Next PROVE WholeOrFailed'
<1> USE Limits DEF Typed, Passing, WholeOrFailed, End, Goto, engine
<1>1. ASSUME NEW d \in Documents, Open(d) PROVE WholeOrFailed'
    BY <1>1 DEF Open
<1>2. ASSUME NEW d \in Documents, OpenFails(d) PROVE WholeOrFailed'
    BY <1>2 DEF OpenFails
<1>3. ASSUME NEW d \in Documents, ReadFails(d) PROVE WholeOrFailed'
    BY <1>3 DEF ReadFails
<1>4. ASSUME NEW d \in Documents, ReadPages(d) PROVE WholeOrFailed'
    BY <1>4 DEF ReadPages, Insufficient, PagesOfDocument
<1>5. ASSUME NEW d \in Documents, Verify(d) PROVE WholeOrFailed'
    BY <1>5 DEF Verify
<1>6. ASSUME NEW d \in Documents, TakeLock(d) PROVE WholeOrFailed'
    BY <1>6 DEF TakeLock
<1>7. ASSUME NEW d \in Documents, ProbeSucceeds(d) PROVE WholeOrFailed'
    BY <1>7 DEF ProbeSucceeds
<1>8. ASSUME NEW d \in Documents, ProbeFails(d) PROVE WholeOrFailed'
    BY <1>8 DEF ProbeFails
<1>9. ASSUME NEW d \in Documents, NextPage(d) PROVE WholeOrFailed'
    BY <1>9 DEF NextPage, Missing, PagesOfDocument
<1>10. ASSUME NEW d \in Documents, Rendered(d) PROVE WholeOrFailed'
    BY <1>10 DEF Rendered
<1>11. ASSUME NEW d \in Documents, RenderFails(d) PROVE WholeOrFailed'
    BY <1>11 DEF RenderFails
<1>12. ASSUME NEW d \in Documents, Acquire(d) PROVE WholeOrFailed'
    BY <1>12 DEF Acquire
<1>13. ASSUME NEW d \in Documents, QueueTimeout(d) PROVE WholeOrFailed'
    BY <1>13 DEF QueueTimeout
<1>14. ASSUME NEW d \in Documents, Recognize(d) PROVE WholeOrFailed'
    BY <1>14 DEF Recognize, Missing
<1>15. ASSUME NEW d \in Documents, RecognizeFails(d) PROVE WholeOrFailed'
    BY <1>15 DEF RecognizeFails
<1>16. CASE Tick
    BY <1>16 DEF Tick
<1> QED
    BY <1>1, <1>2, <1>3, <1>4, <1>5, <1>6, <1>7, <1>8, <1>9, <1>10, <1>11, <1>12,
       <1>13, <1>14, <1>15, <1>16 DEF Next, Progress, Fault

\* Every step keeps the slots counted: one is taken by a document that starts a
\* recognition and given back by the one that stops.
LEMMA SlotsStep ==
    ASSUME Typed, SlotsCounted, Next PROVE SlotsCounted'
<1> USE Limits DEF Typed
<1>1. ASSUME NEW d \in Documents, NEW step \in Steps, Goto(d, step),
             pc[d] # "recognizing", step # "recognizing", slots' = slots
      PROVE  SlotsCounted'
    <2>1. Cardinality(AtWork') = Cardinality(AtWork)
        BY <1>1, WorkersCounted
    <2> QED
        BY <1>1, <2>1 DEF SlotsCounted
<1>2. ASSUME NEW d \in Documents, Open(d) PROVE SlotsCounted'
    <2>1. pc[d] # "recognizing" /\ slots' = slots
        BY <1>2 DEF Open, engine
    <2>2. \E step \in Steps \ {"recognizing"} : Goto(d, step)
        BY <1>2 DEF Open, End, Steps
    <2> QED
        BY <1>1, <2>1, <2>2
<1>3. ASSUME NEW d \in Documents, OpenFails(d) PROVE SlotsCounted'
    <2>1. pc[d] # "recognizing" /\ slots' = slots
        BY <1>3 DEF OpenFails, engine
    <2>2. \E step \in Steps \ {"recognizing"} : Goto(d, step)
        BY <1>3 DEF OpenFails, End, Steps
    <2> QED
        BY <1>1, <2>1, <2>2
<1>4. ASSUME NEW d \in Documents, ReadFails(d) PROVE SlotsCounted'
    <2>1. pc[d] # "recognizing" /\ slots' = slots
        BY <1>4 DEF ReadFails, engine
    <2>2. \E step \in Steps \ {"recognizing"} : Goto(d, step)
        BY <1>4 DEF ReadFails, End, Steps
    <2> QED
        BY <1>1, <2>1, <2>2
<1>5. ASSUME NEW d \in Documents, ReadPages(d) PROVE SlotsCounted'
    <2>1. pc[d] # "recognizing" /\ slots' = slots
        BY <1>5 DEF ReadPages, Insufficient, engine
    <2>2. \E step \in Steps \ {"recognizing"} : Goto(d, step)
        BY <1>5 DEF ReadPages, Insufficient, End, Steps
    <2> QED
        BY <1>1, <2>1, <2>2
<1>6. ASSUME NEW d \in Documents, Verify(d) PROVE SlotsCounted'
    <2>1. pc[d] # "recognizing" /\ slots' = slots
        BY <1>6 DEF Verify, engine
    <2>2. \E step \in Steps \ {"recognizing"} : Goto(d, step)
        BY <1>6 DEF Verify, End, Steps
    <2> QED
        BY <1>1, <2>1, <2>2
<1>7. ASSUME NEW d \in Documents, TakeLock(d) PROVE SlotsCounted'
    <2>1. pc[d] # "recognizing" /\ slots' = slots
        BY <1>7 DEF TakeLock, engine
    <2>2. \E step \in Steps \ {"recognizing"} : Goto(d, step)
        BY <1>7 DEF TakeLock, End, Steps
    <2> QED
        BY <1>1, <2>1, <2>2
<1>8. ASSUME NEW d \in Documents, ProbeSucceeds(d) PROVE SlotsCounted'
    <2>1. pc[d] # "recognizing" /\ slots' = slots
        BY <1>8 DEF ProbeSucceeds, engine
    <2>2. \E step \in Steps \ {"recognizing"} : Goto(d, step)
        BY <1>8 DEF ProbeSucceeds, End, Steps
    <2> QED
        BY <1>1, <2>1, <2>2
<1>9. ASSUME NEW d \in Documents, ProbeFails(d) PROVE SlotsCounted'
    <2>1. pc[d] # "recognizing" /\ slots' = slots
        BY <1>9 DEF ProbeFails, engine
    <2>2. \E step \in Steps \ {"recognizing"} : Goto(d, step)
        BY <1>9 DEF ProbeFails, End, Steps
    <2> QED
        BY <1>1, <2>1, <2>2
<1>10. ASSUME NEW d \in Documents, NextPage(d) PROVE SlotsCounted'
    <2>1. pc[d] # "recognizing" /\ slots' = slots
        BY <1>10 DEF NextPage, engine
    <2>2. \E step \in Steps \ {"recognizing"} : Goto(d, step)
        BY <1>10 DEF NextPage, End, Steps
    <2> QED
        BY <1>1, <2>1, <2>2
<1>11. ASSUME NEW d \in Documents, Rendered(d) PROVE SlotsCounted'
    <2>1. pc[d] # "recognizing" /\ slots' = slots
        BY <1>11 DEF Rendered, engine
    <2>2. \E step \in Steps \ {"recognizing"} : Goto(d, step)
        BY <1>11 DEF Rendered, End, Steps
    <2> QED
        BY <1>1, <2>1, <2>2
<1>12. ASSUME NEW d \in Documents, RenderFails(d) PROVE SlotsCounted'
    <2>1. pc[d] # "recognizing" /\ slots' = slots
        BY <1>12 DEF RenderFails, engine
    <2>2. \E step \in Steps \ {"recognizing"} : Goto(d, step)
        BY <1>12 DEF RenderFails, End, Steps
    <2> QED
        BY <1>1, <2>1, <2>2
<1>13. ASSUME NEW d \in Documents, QueueTimeout(d) PROVE SlotsCounted'
    <2>1. pc[d] # "recognizing" /\ slots' = slots
        BY <1>13 DEF QueueTimeout, engine
    <2>2. \E step \in Steps \ {"recognizing"} : Goto(d, step)
        BY <1>13 DEF QueueTimeout, End, Steps
    <2> QED
        BY <1>1, <2>1, <2>2
<1>14. ASSUME NEW d \in Documents, Acquire(d) PROVE SlotsCounted'
    <2>1. CASE timer[d] = 0
        <3>1. pc[d] # "recognizing" /\ slots' = slots /\ Goto(d, "ended")
            BY <1>14, <2>1 DEF Acquire, End
        <3> QED
            BY <1>1, <3>1 DEF Steps
    <2>2. CASE timer[d] # 0
        <3>1. /\ pc[d] # "recognizing" /\ slots' = slots - 1 /\ slots > 0
              /\ Goto(d, "recognizing")
            BY <1>14, <2>2 DEF Acquire
        <3>2. Cardinality(AtWork') = Cardinality(AtWork) + 1 /\ Cardinality(AtWork) \in Nat
            BY <3>1, WorkersCounted DEF Steps
        <3> QED
            BY <3>1, <3>2 DEF SlotsCounted
    <2> QED
        BY <2>1, <2>2
<1>15. ASSUME NEW d \in Documents, Recognize(d) \/ RecognizeFails(d) PROVE SlotsCounted'
    <2>1. pc[d] = "recognizing" /\ slots' = slots + 1
        BY <1>15 DEF Recognize, RecognizeFails
    <2>2. PICK step \in Steps \ {"recognizing"} : Goto(d, step)
        BY <1>15 DEF Recognize, RecognizeFails, End, Steps
    <2>3. Cardinality(AtWork') = Cardinality(AtWork) - 1 /\ Cardinality(AtWork) \in Nat
        BY <2>1, <2>2, WorkersCounted
    <2> QED
        BY <2>1, <2>3 DEF SlotsCounted
<1>16. CASE Tick
    BY <1>16 DEF Tick, engine, SlotsCounted, AtWork
<1> QED
    BY <1>2, <1>3, <1>4, <1>5, <1>6, <1>7, <1>8, <1>9, <1>10, <1>11, <1>12, <1>13,
       <1>14, <1>15, <1>16 DEF Next, Progress, Fault

\* Every step of the documents and of the clock keeps the invariant.
LEMMA StepInv == OcrInv /\ [Next]_vars => OcrInv'
<1> SUFFICES ASSUME OcrInv, [Next]_vars PROVE OcrInv'
    OBVIOUS
<1>1. CASE Next
    BY <1>1, TypedStep, LockStep, SlotsStep, PagesStep, InTimeStep, PassingStep,
       WholeStep
       DEF OcrInv
<1>2. CASE UNCHANGED vars
    BY <1>2 DEF vars, engine, OcrInv, Typed, LockHeld, SlotsCounted, AtWork,
                PagesOfDocument, RecognizedInTime, Passing, WholeOrFailed
<1> QED
    BY <1>1, <1>2

\* The invariant holds whenever documents are extracted.
LEMMA OcrInvHolds == Spec => []OcrInv
BY InitInv, StepInv, PTL DEF Spec

-----------------------------------------------------------------------------
\* For any number of documents and slots, the lock is held by the one document that
\* probes and there are never more recognitions than slots.
THEOREM SlotsAreKept == Spec => []TypeOK
<1>1. OcrInv => TypeOK
    BY DEF OcrInv, Typed, LockHeld, SlotsCounted, PagesOfDocument, TypeOK
<1> QED
    BY <1>1, OcrInvHolds, PTL

\* For all time limits, no page is waited for or recognized beyond the time of its
\* document.
THEOREM RecognitionIsInTime == Spec => []RecognizedInTime
<1>1. OcrInv => RecognizedInTime
    BY DEF OcrInv
<1> QED
    BY <1>1, OcrInvHolds, PTL

\* For any documents, a completed extraction has the text of all of its pages, each
\* from where it should come.
THEOREM ExtractionIsWhole == Spec => []WholeOrFailed
<1>1. OcrInv => WholeOrFailed
    BY DEF OcrInv
<1> QED
    BY <1>1, OcrInvHolds, PTL

-----------------------------------------------------------------------------
(* The threads and their jobs *)

Places == {"idle", "calling", "locking", "slotting", "answered", "failed"} \cup InExecutor

WorkTyped ==
    /\ coming \subseteq Jobs /\ waiting \subseteq Jobs /\ busy \subseteq Jobs
    /\ waiting \cap busy = {}
    /\ model \in BOOLEAN /\ loadLock \in Requests \cup {Nobody}
    /\ embedSlots \in Int
    /\ collection \in {"absent", "fit", "unfit"} /\ indexes \subseteq 1 .. Fields
    /\ missing \in [Requests -> SUBSET (1 .. Fields)]
    /\ todo \in [Requests -> Seq(Calls)]
    /\ at \in [Requests -> Places]

DocumentsInThreads ==
    \A d \in Documents :
        /\ d \in waiting => pc[d] = "idle"
        /\ d \in busy => pc[d] # "ended"
        /\ pc[d] \notin {"idle", "ended"} => d \in busy

RequestsInThreads == \A r \in Requests : at[r] \in InExecutor <=> r \in waiting \cup busy

LoadLockHeld == \A r \in Requests : at[r] = "loading" <=> loadLock = r

EmbedSlotsCounted == embedSlots = EmbedSlots - Cardinality(Embedding) /\ embedSlots >= 0

ThreadsCounted == Cardinality(busy) \in Nat /\ Cardinality(busy) <= Threads

\* What a request is doing is its next call.
AtCall ==
    \A r \in Requests :
        /\ at[r] = "working" => todo[r] # <<>> /\ Head(todo[r]) \in {"parse", "points"}
        /\ at[r] \in {"locking", "loading", "slotting", "embedding"} =>
                todo[r] # <<>> /\ Head(todo[r]) = "embed"
        /\ at[r] \in {"checking", "creating", "getting", "indexing"} =>
                todo[r] # <<>> /\ Head(todo[r]) = "ensure"

\* What a request that ensures the collection has found and made.
Ensuring ==
    \A r \in Requests :
        /\ at[r] = "getting" => collection # "absent"
        /\ at[r] = "indexing" =>
                collection = "fit" /\ 1 .. Fields \subseteq indexes \cup missing[r]

\* The inductive invariant, with the one of the PDF extractions.
WorkInv ==
    /\ OcrInv /\ WorkTyped /\ DocumentsInThreads /\ RequestsInThreads /\ LoadLockHeld
    /\ EmbedSlotsCounted /\ ThreadsCounted /\ LoadedOnce
    /\ AtCall /\ Ensuring /\ CollectionReady

-----------------------------------------------------------------------------
\* The limits and the sets of jobs, one by one.
LEMMA WorkLimits ==
    /\ IsFiniteSet(Requests) /\ Requests \cap Documents = {} /\ Nobody \notin Requests
    /\ Threads \in Nat /\ Threads > 0 /\ EmbedSlots \in Nat
    /\ Batches \in Nat /\ Fields \in Nat
BY WorkersAssumption

\* Jobs are finite in number, and so is every set of them.
LEMMA JobsFinite == \A S : S \subseteq Jobs => IsFiniteSet(S)
<1>1. IsFiniteSet(Jobs)
    BY Limits, WorkLimits, FS_Union DEF Jobs
<1> QED
    BY <1>1, FS_Subset

\* Every step is a step of the PDF extractions or leaves them alone.
LEMMA Simulates ==
    ASSUME WorkersNext PROVE [Next]_vars
<1> USE DEF vars, engine
<1>1. ASSUME NEW d \in Documents, Ask(d) PROVE [Next]_vars
    BY <1>1 DEF Ask
<1>2. ASSUME NEW d \in Documents, Extract(d) PROVE [Next]_vars
    BY <1>2 DEF Extract, InThread, Next
<1>3. ASSUME NEW r \in Requests, Begin(r) PROVE [Next]_vars
    BY <1>3 DEF Begin
<1>4. ASSUME NEW r \in Requests, Answer(r) PROVE [Next]_vars
    BY <1>4 DEF Answer
<1>5. ASSUME NEW r \in Requests, Work(r) PROVE [Next]_vars
    BY <1>5 DEF Work
<1>6. ASSUME NEW r \in Requests, GetModel(r) PROVE [Next]_vars
    BY <1>6 DEF GetModel
<1>7. ASSUME NEW r \in Requests, TakeLoadLock(r) PROVE [Next]_vars
    BY <1>7 DEF TakeLoadLock
<1>8. ASSUME NEW r \in Requests, TakeSlot(r) PROVE [Next]_vars
    BY <1>8 DEF TakeSlot
<1>9. ASSUME NEW r \in Requests, Ensure(r) PROVE [Next]_vars
    BY <1>9 DEF Ensure
<1>10. ASSUME NEW r \in Requests, WorkEndsWell(r) PROVE [Next]_vars
    BY <1>10 DEF WorkEndsWell
<1>11. ASSUME NEW r \in Requests, WorkFails(r) PROVE [Next]_vars
    BY <1>11 DEF WorkFails
<1>12. ASSUME NEW r \in Requests, LoadSucceeds(r) PROVE [Next]_vars
    BY <1>12 DEF LoadSucceeds
<1>13. ASSUME NEW r \in Requests, LoadFails(r) PROVE [Next]_vars
    BY <1>13 DEF LoadFails
<1>14. ASSUME NEW r \in Requests, EmbedSucceeds(r) PROVE [Next]_vars
    BY <1>14 DEF EmbedSucceeds
<1>15. ASSUME NEW r \in Requests, EmbedFails(r) PROVE [Next]_vars
    BY <1>15 DEF EmbedFails
<1>16. ASSUME NEW r \in Requests, Exists(r) PROVE [Next]_vars
    BY <1>16 DEF Exists
<1>17. ASSUME NEW r \in Requests, Create(r) PROVE [Next]_vars
    BY <1>17 DEF Create
<1>18. ASSUME NEW r \in Requests, Get(r) PROVE [Next]_vars
    BY <1>18 DEF Get
<1>19. ASSUME NEW r \in Requests, CreateIndex(r) PROVE [Next]_vars
    BY <1>19 DEF CreateIndex
<1>20. ASSUME NEW r \in Requests, Ensured(r) PROVE [Next]_vars
    BY <1>20 DEF Ensured
<1>21. ASSUME NEW j \in Jobs, Take(j) PROVE [Next]_vars
    BY <1>21 DEF Take
<1>22. CASE TimePasses
    BY <1>22 DEF TimePasses, Next
<1> QED
    BY <1>1, <1>2, <1>3, <1>4, <1>5, <1>6, <1>7, <1>8, <1>9, <1>10, <1>11, <1>12,
       <1>13, <1>14, <1>15, <1>16, <1>17, <1>18, <1>19, <1>20, <1>21, <1>22
       DEF WorkersNext, Proceed, JobStep

\* A call that returns leaves the calls after it.
LEMMA Tails ==
    ASSUME NEW s \in Seq(Calls), s # <<>>
    PROVE  /\ Tail(s) \in Seq(Calls)
           /\ Head(s) \in {s[i] : i \in DOMAIN s}
           /\ \A c \in Calls : c # Head(s) =>
                (c \in {Tail(s)[i] : i \in DOMAIN Tail(s)} <=> c \in {s[i] : i \in DOMAIN s})
           /\ \A c : c \in {Tail(s)[i] : i \in DOMAIN Tail(s)} => c \in {s[i] : i \in DOMAIN s}
<1>1. /\ Tail(s) \in Seq(Calls) /\ Len(s) \in Nat \ {0} /\ Len(Tail(s)) = Len(s) - 1
      /\ DOMAIN s = 1 .. Len(s) /\ DOMAIN Tail(s) = 1 .. Len(s) - 1 /\ Head(s) = s[1]
      /\ \A i \in 1 .. Len(s) - 1 : Tail(s)[i] = s[i + 1]
    OBVIOUS
<1>2. \A i \in DOMAIN s : i # 1 => i - 1 \in DOMAIN Tail(s) /\ Tail(s)[i - 1] = s[i]
    BY <1>1
<1>3. \A i \in DOMAIN Tail(s) : i + 1 \in DOMAIN s /\ Tail(s)[i] = s[i + 1]
    BY <1>1
<1>4. ASSUME NEW c, c \in {Tail(s)[i] : i \in DOMAIN Tail(s)}
      PROVE  c \in {s[i] : i \in DOMAIN s}
    BY <1>3, <1>4
<1>5. ASSUME NEW c, c # Head(s), c \in {s[i] : i \in DOMAIN s}
      PROVE  c \in {Tail(s)[i] : i \in DOMAIN Tail(s)}
    <2>1. PICK i \in DOMAIN s : c = s[i]
        BY <1>5
    <2>2. i # 1
        BY <1>1, <1>5, <2>1
    <2> QED
        BY <1>2, <2>1, <2>2
<1>6. Head(s) \in {s[i] : i \in DOMAIN s}
    BY <1>1
<1> QED
    BY <1>1, <1>4, <1>5, <1>6

\* A step of one PDF extraction starts or goes on with that one only.
LEMMA OneDocument ==
    ASSUME Typed, NEW d \in Documents, Open(d) \/ OpenFails(d) \/ Progress(d) \/ Fault(d)
    PROVE  /\ \A e \in Documents : e # d => pc'[e] = pc[e]
           /\ pc'[d] # "idle"
<1> USE DEF Typed, End, Goto
<1>1. \E step \in Steps \ {"idle"} : Goto(d, step)
    <2>1. CASE Open(d) \/ OpenFails(d)
        BY <2>1 DEF Open, OpenFails, Steps
    <2>2. CASE Progress(d)
        BY <2>2 DEF Progress, ReadPages, Verify, TakeLock, ProbeSucceeds, NextPage,
           Rendered, Acquire, QueueTimeout, Recognize, Insufficient, Steps
    <2>3. CASE Fault(d)
        BY <2>3 DEF Fault, ReadFails, ProbeFails, RenderFails, RecognizeFails, Steps
    <2> QED
        BY <2>1, <2>2, <2>3
<1> QED
    BY <1>1

\* Every step keeps the types.
LEMMA WorkTypedStep ==
    ASSUME WorkTyped, RequestsInThreads, AtCall, WorkersNext PROVE WorkTyped'
<1> USE WorkLimits DEF WorkTyped, Submit, Enter, Fail, Leave, Return, Calling, store,
        threads, embedder, Jobs, Places, InExecutor
<1>1. ASSUME NEW d \in Documents, Ask(d) PROVE WorkTyped'
    BY <1>1 DEF Ask
<1>2. ASSUME NEW d \in Documents, Extract(d) PROVE WorkTyped'
    BY <1>2 DEF Extract, InThread
<1>3. ASSUME NEW r \in Requests, Begin(r) PROVE WorkTyped'
    BY <1>3 DEF Begin
<1>4. ASSUME NEW r \in Requests, Answer(r) PROVE WorkTyped'
    BY <1>4 DEF Answer
<1>5. ASSUME NEW r \in Requests, Work(r) PROVE WorkTyped'
    BY <1>5 DEF Work, RequestsInThreads
<1>6. ASSUME NEW r \in Requests, GetModel(r) PROVE WorkTyped'
    BY <1>6 DEF GetModel
<1>7. ASSUME NEW r \in Requests, TakeLoadLock(r) PROVE WorkTyped'
    <2>1. r \notin busy
        BY <1>7 DEF TakeLoadLock, RequestsInThreads
    <2> QED
        BY <1>7, <2>1 DEF TakeLoadLock
<1>8. ASSUME NEW r \in Requests, TakeSlot(r) PROVE WorkTyped'
    <2>1. r \notin busy
        BY <1>8 DEF TakeSlot, RequestsInThreads
    <2> QED
        BY <1>8, <2>1 DEF TakeSlot
<1>9. ASSUME NEW r \in Requests, Ensure(r) PROVE WorkTyped'
    BY <1>9 DEF Ensure, RequestsInThreads
<1>10. ASSUME NEW r \in Requests, WorkEndsWell(r) PROVE WorkTyped'
    <2>1. todo[r] \in Seq(Calls) /\ todo[r] # <<>>
        BY <1>10 DEF WorkEndsWell, AtCall
    <2>2. Tail(todo[r]) \in Seq(Calls)
        BY <2>1, Tails
    <2> QED
        BY <1>10, <2>2 DEF WorkEndsWell
<1>11. ASSUME NEW r \in Requests, WorkFails(r) PROVE WorkTyped'
    BY <1>11 DEF WorkFails
<1>12. ASSUME NEW r \in Requests, LoadSucceeds(r) PROVE WorkTyped'
    BY <1>12 DEF LoadSucceeds
<1>13. ASSUME NEW r \in Requests, LoadFails(r) PROVE WorkTyped'
    BY <1>13 DEF LoadFails
<1>14. ASSUME NEW r \in Requests, EmbedSucceeds(r) PROVE WorkTyped'
    <2>1. todo[r] \in Seq(Calls) /\ todo[r] # <<>>
        BY <1>14 DEF EmbedSucceeds, AtCall
    <2>2. Tail(todo[r]) \in Seq(Calls)
        BY <2>1, Tails
    <2> QED
        BY <1>14, <2>2 DEF EmbedSucceeds
<1>15. ASSUME NEW r \in Requests, EmbedFails(r) PROVE WorkTyped'
    BY <1>15 DEF EmbedFails
<1>16. ASSUME NEW r \in Requests, Exists(r) PROVE WorkTyped'
    BY <1>16 DEF Exists
<1>17. ASSUME NEW r \in Requests, Create(r) PROVE WorkTyped'
    BY <1>17 DEF Create
<1>18. ASSUME NEW r \in Requests, Get(r) PROVE WorkTyped'
    <2>1. missing' \in [Requests -> SUBSET (1 .. Fields)]
        BY <1>18 DEF Get
    <2> QED
        BY <1>18, <2>1 DEF Get
<1>19. ASSUME NEW r \in Requests, CreateIndex(r) PROVE WorkTyped'
    BY <1>19 DEF CreateIndex
<1>20. ASSUME NEW r \in Requests, Ensured(r) PROVE WorkTyped'
    <2>1. todo[r] \in Seq(Calls) /\ todo[r] # <<>>
        BY <1>20 DEF Ensured, AtCall
    <2>2. Tail(todo[r]) \in Seq(Calls)
        BY <2>1, Tails
    <2> QED
        BY <1>20, <2>2 DEF Ensured
<1>21. ASSUME NEW j \in Jobs, Take(j) PROVE WorkTyped'
    BY <1>21 DEF Take
<1>22. CASE TimePasses
    BY <1>22 DEF TimePasses
<1> QED
    BY <1>1, <1>2, <1>3, <1>4, <1>5, <1>6, <1>7, <1>8, <1>9, <1>10, <1>11, <1>12,
       <1>13, <1>14, <1>15, <1>16, <1>17, <1>18, <1>19, <1>20, <1>21, <1>22
       DEF WorkersNext, Proceed, JobStep

\* Every step keeps the PDF extractions in their threads.
LEMMA DocumentsStep ==
    ASSUME WorkTyped, Typed, DocumentsInThreads, WorkersNext PROVE DocumentsInThreads'
<1> USE WorkLimits DEF WorkTyped, Submit, Enter, Fail, Leave, Return, Calling, store,
        threads, embedder, Jobs, DocumentsInThreads, vars, engine
<1>1. ASSUME NEW d \in Documents, Ask(d) PROVE DocumentsInThreads'
    BY <1>1 DEF Ask
<1>2. ASSUME NEW d \in Documents, Extract(d) PROVE DocumentsInThreads'
    <2>1. /\ \A e \in Documents : e # d => pc'[e] = pc[e]
          /\ pc'[d] # "idle"
        BY <1>2, OneDocument DEF Extract, InThread
    <2> QED
        BY <1>2, <2>1 DEF Extract, InThread
<1>3. ASSUME NEW r \in Requests, Begin(r) PROVE DocumentsInThreads'
    BY <1>3 DEF Begin
<1>4. ASSUME NEW r \in Requests, Answer(r) PROVE DocumentsInThreads'
    BY <1>4 DEF Answer
<1>5. ASSUME NEW r \in Requests, Work(r) PROVE DocumentsInThreads'
    BY <1>5 DEF Work
<1>6. ASSUME NEW r \in Requests, GetModel(r) PROVE DocumentsInThreads'
    BY <1>6 DEF GetModel
<1>7. ASSUME NEW r \in Requests, TakeLoadLock(r) PROVE DocumentsInThreads'
    BY <1>7 DEF TakeLoadLock
<1>8. ASSUME NEW r \in Requests, TakeSlot(r) PROVE DocumentsInThreads'
    BY <1>8 DEF TakeSlot
<1>9. ASSUME NEW r \in Requests, Ensure(r) PROVE DocumentsInThreads'
    BY <1>9 DEF Ensure
<1>10. ASSUME NEW r \in Requests, WorkEndsWell(r) PROVE DocumentsInThreads'
    BY <1>10 DEF WorkEndsWell
<1>11. ASSUME NEW r \in Requests, WorkFails(r) PROVE DocumentsInThreads'
    BY <1>11 DEF WorkFails
<1>12. ASSUME NEW r \in Requests, LoadSucceeds(r) PROVE DocumentsInThreads'
    BY <1>12 DEF LoadSucceeds
<1>13. ASSUME NEW r \in Requests, LoadFails(r) PROVE DocumentsInThreads'
    BY <1>13 DEF LoadFails
<1>14. ASSUME NEW r \in Requests, EmbedSucceeds(r) PROVE DocumentsInThreads'
    BY <1>14 DEF EmbedSucceeds
<1>15. ASSUME NEW r \in Requests, EmbedFails(r) PROVE DocumentsInThreads'
    BY <1>15 DEF EmbedFails
<1>16. ASSUME NEW r \in Requests, Exists(r) PROVE DocumentsInThreads'
    BY <1>16 DEF Exists
<1>17. ASSUME NEW r \in Requests, Create(r) PROVE DocumentsInThreads'
    BY <1>17 DEF Create
<1>18. ASSUME NEW r \in Requests, Get(r) PROVE DocumentsInThreads'
    BY <1>18 DEF Get
<1>19. ASSUME NEW r \in Requests, CreateIndex(r) PROVE DocumentsInThreads'
    BY <1>19 DEF CreateIndex
<1>20. ASSUME NEW r \in Requests, Ensured(r) PROVE DocumentsInThreads'
    BY <1>20 DEF Ensured
<1>21. ASSUME NEW j \in Jobs, Take(j) PROVE DocumentsInThreads'
    BY <1>21 DEF Take
<1>22. CASE TimePasses
    BY <1>22 DEF TimePasses, Tick
<1> QED
    BY <1>1, <1>2, <1>3, <1>4, <1>5, <1>6, <1>7, <1>8, <1>9, <1>10, <1>11, <1>12,
       <1>13, <1>14, <1>15, <1>16, <1>17, <1>18, <1>19, <1>20, <1>21, <1>22
       DEF WorkersNext, Proceed, JobStep

\* Every step keeps the jobs of the requests in the executor.
LEMMA RequestsStep ==
    ASSUME WorkTyped, RequestsInThreads, WorkersNext PROVE RequestsInThreads'
<1> USE WorkLimits DEF WorkTyped, Submit, Enter, Fail, Leave, Return, Calling, store,
        threads, embedder, Jobs, RequestsInThreads, InExecutor
<1>1. ASSUME NEW d \in Documents, Ask(d) PROVE RequestsInThreads'
    BY <1>1 DEF Ask
<1>2. ASSUME NEW d \in Documents, Extract(d) PROVE RequestsInThreads'
    BY <1>2 DEF Extract, InThread
<1>3. ASSUME NEW r \in Requests, Begin(r) PROVE RequestsInThreads'
    BY <1>3 DEF Begin
<1>4. ASSUME NEW r \in Requests, Answer(r) PROVE RequestsInThreads'
    BY <1>4 DEF Answer
<1>5. ASSUME NEW r \in Requests, Work(r) PROVE RequestsInThreads'
    BY <1>5 DEF Work
<1>6. ASSUME NEW r \in Requests, GetModel(r) PROVE RequestsInThreads'
    BY <1>6 DEF GetModel
<1>7. ASSUME NEW r \in Requests, TakeLoadLock(r) PROVE RequestsInThreads'
    BY <1>7 DEF TakeLoadLock
<1>8. ASSUME NEW r \in Requests, TakeSlot(r) PROVE RequestsInThreads'
    BY <1>8 DEF TakeSlot
<1>9. ASSUME NEW r \in Requests, Ensure(r) PROVE RequestsInThreads'
    BY <1>9 DEF Ensure
<1>10. ASSUME NEW r \in Requests, WorkEndsWell(r) PROVE RequestsInThreads'
    BY <1>10 DEF WorkEndsWell
<1>11. ASSUME NEW r \in Requests, WorkFails(r) PROVE RequestsInThreads'
    BY <1>11 DEF WorkFails
<1>12. ASSUME NEW r \in Requests, LoadSucceeds(r) PROVE RequestsInThreads'
    BY <1>12 DEF LoadSucceeds
<1>13. ASSUME NEW r \in Requests, LoadFails(r) PROVE RequestsInThreads'
    BY <1>13 DEF LoadFails
<1>14. ASSUME NEW r \in Requests, EmbedSucceeds(r) PROVE RequestsInThreads'
    BY <1>14 DEF EmbedSucceeds
<1>15. ASSUME NEW r \in Requests, EmbedFails(r) PROVE RequestsInThreads'
    BY <1>15 DEF EmbedFails
<1>16. ASSUME NEW r \in Requests, Exists(r) PROVE RequestsInThreads'
    BY <1>16 DEF Exists
<1>17. ASSUME NEW r \in Requests, Create(r) PROVE RequestsInThreads'
    BY <1>17 DEF Create
<1>18. ASSUME NEW r \in Requests, Get(r) PROVE RequestsInThreads'
    BY <1>18 DEF Get
<1>19. ASSUME NEW r \in Requests, CreateIndex(r) PROVE RequestsInThreads'
    BY <1>19 DEF CreateIndex
<1>20. ASSUME NEW r \in Requests, Ensured(r) PROVE RequestsInThreads'
    BY <1>20 DEF Ensured
<1>21. ASSUME NEW j \in Jobs, Take(j) PROVE RequestsInThreads'
    BY <1>21 DEF Take
<1>22. CASE TimePasses
    BY <1>22 DEF TimePasses
<1> QED
    BY <1>1, <1>2, <1>3, <1>4, <1>5, <1>6, <1>7, <1>8, <1>9, <1>10, <1>11, <1>12,
       <1>13, <1>14, <1>15, <1>16, <1>17, <1>18, <1>19, <1>20, <1>21, <1>22
       DEF WorkersNext, Proceed, JobStep

\* Every step keeps the lock with the request that loads.
LEMMA LoadLockStep ==
    ASSUME WorkTyped, LoadLockHeld, WorkersNext PROVE LoadLockHeld'
<1> USE WorkLimits DEF WorkTyped, Submit, Enter, Fail, Leave, Return, Calling, store,
        threads, embedder, Jobs, LoadLockHeld
<1>1. ASSUME NEW d \in Documents, Ask(d) PROVE LoadLockHeld'
    BY <1>1 DEF Ask
<1>2. ASSUME NEW d \in Documents, Extract(d) PROVE LoadLockHeld'
    BY <1>2 DEF Extract, InThread
<1>3. ASSUME NEW r \in Requests, Begin(r) PROVE LoadLockHeld'
    BY <1>3 DEF Begin
<1>4. ASSUME NEW r \in Requests, Answer(r) PROVE LoadLockHeld'
    BY <1>4 DEF Answer
<1>5. ASSUME NEW r \in Requests, Work(r) PROVE LoadLockHeld'
    BY <1>5 DEF Work
<1>6. ASSUME NEW r \in Requests, GetModel(r) PROVE LoadLockHeld'
    BY <1>6 DEF GetModel
<1>7. ASSUME NEW r \in Requests, TakeLoadLock(r) PROVE LoadLockHeld'
    BY <1>7 DEF TakeLoadLock
<1>8. ASSUME NEW r \in Requests, TakeSlot(r) PROVE LoadLockHeld'
    BY <1>8 DEF TakeSlot
<1>9. ASSUME NEW r \in Requests, Ensure(r) PROVE LoadLockHeld'
    BY <1>9 DEF Ensure
<1>10. ASSUME NEW r \in Requests, WorkEndsWell(r) PROVE LoadLockHeld'
    BY <1>10 DEF WorkEndsWell
<1>11. ASSUME NEW r \in Requests, WorkFails(r) PROVE LoadLockHeld'
    BY <1>11 DEF WorkFails
<1>12. ASSUME NEW r \in Requests, LoadSucceeds(r) PROVE LoadLockHeld'
    BY <1>12 DEF LoadSucceeds
<1>13. ASSUME NEW r \in Requests, LoadFails(r) PROVE LoadLockHeld'
    BY <1>13 DEF LoadFails
<1>14. ASSUME NEW r \in Requests, EmbedSucceeds(r) PROVE LoadLockHeld'
    BY <1>14 DEF EmbedSucceeds
<1>15. ASSUME NEW r \in Requests, EmbedFails(r) PROVE LoadLockHeld'
    BY <1>15 DEF EmbedFails
<1>16. ASSUME NEW r \in Requests, Exists(r) PROVE LoadLockHeld'
    BY <1>16 DEF Exists
<1>17. ASSUME NEW r \in Requests, Create(r) PROVE LoadLockHeld'
    BY <1>17 DEF Create
<1>18. ASSUME NEW r \in Requests, Get(r) PROVE LoadLockHeld'
    BY <1>18 DEF Get
<1>19. ASSUME NEW r \in Requests, CreateIndex(r) PROVE LoadLockHeld'
    BY <1>19 DEF CreateIndex
<1>20. ASSUME NEW r \in Requests, Ensured(r) PROVE LoadLockHeld'
    BY <1>20 DEF Ensured
<1>21. ASSUME NEW j \in Jobs, Take(j) PROVE LoadLockHeld'
    BY <1>21 DEF Take
<1>22. CASE TimePasses
    BY <1>22 DEF TimePasses
<1> QED
    BY <1>1, <1>2, <1>3, <1>4, <1>5, <1>6, <1>7, <1>8, <1>9, <1>10, <1>11, <1>12,
       <1>13, <1>14, <1>15, <1>16, <1>17, <1>18, <1>19, <1>20, <1>21, <1>22
       DEF WorkersNext, Proceed, JobStep

\* No step loads a model that is loaded.
LEMMA LoadedOnceStep ==
    ASSUME WorkTyped, LoadLockHeld, LoadedOnce, WorkersNext PROVE LoadedOnce'
<1> USE WorkLimits DEF WorkTyped, Submit, Enter, Fail, Leave, Return, Calling, store,
        threads, embedder, Jobs, LoadLockHeld, LoadedOnce
<1>1. ASSUME NEW d \in Documents, Ask(d) PROVE LoadedOnce'
    BY <1>1 DEF Ask
<1>2. ASSUME NEW d \in Documents, Extract(d) PROVE LoadedOnce'
    BY <1>2 DEF Extract, InThread
<1>3. ASSUME NEW r \in Requests, Begin(r) PROVE LoadedOnce'
    BY <1>3 DEF Begin
<1>4. ASSUME NEW r \in Requests, Answer(r) PROVE LoadedOnce'
    BY <1>4 DEF Answer
<1>5. ASSUME NEW r \in Requests, Work(r) PROVE LoadedOnce'
    BY <1>5 DEF Work
<1>6. ASSUME NEW r \in Requests, GetModel(r) PROVE LoadedOnce'
    BY <1>6 DEF GetModel
<1>7. ASSUME NEW r \in Requests, TakeLoadLock(r) PROVE LoadedOnce'
    BY <1>7 DEF TakeLoadLock
<1>8. ASSUME NEW r \in Requests, TakeSlot(r) PROVE LoadedOnce'
    BY <1>8 DEF TakeSlot
<1>9. ASSUME NEW r \in Requests, Ensure(r) PROVE LoadedOnce'
    BY <1>9 DEF Ensure
<1>10. ASSUME NEW r \in Requests, WorkEndsWell(r) PROVE LoadedOnce'
    BY <1>10 DEF WorkEndsWell
<1>11. ASSUME NEW r \in Requests, WorkFails(r) PROVE LoadedOnce'
    BY <1>11 DEF WorkFails
<1>12. ASSUME NEW r \in Requests, LoadSucceeds(r) PROVE LoadedOnce'
    BY <1>12 DEF LoadSucceeds
<1>13. ASSUME NEW r \in Requests, LoadFails(r) PROVE LoadedOnce'
    BY <1>13 DEF LoadFails
<1>14. ASSUME NEW r \in Requests, EmbedSucceeds(r) PROVE LoadedOnce'
    BY <1>14 DEF EmbedSucceeds
<1>15. ASSUME NEW r \in Requests, EmbedFails(r) PROVE LoadedOnce'
    BY <1>15 DEF EmbedFails
<1>16. ASSUME NEW r \in Requests, Exists(r) PROVE LoadedOnce'
    BY <1>16 DEF Exists
<1>17. ASSUME NEW r \in Requests, Create(r) PROVE LoadedOnce'
    BY <1>17 DEF Create
<1>18. ASSUME NEW r \in Requests, Get(r) PROVE LoadedOnce'
    BY <1>18 DEF Get
<1>19. ASSUME NEW r \in Requests, CreateIndex(r) PROVE LoadedOnce'
    BY <1>19 DEF CreateIndex
<1>20. ASSUME NEW r \in Requests, Ensured(r) PROVE LoadedOnce'
    BY <1>20 DEF Ensured
<1>21. ASSUME NEW j \in Jobs, Take(j) PROVE LoadedOnce'
    BY <1>21 DEF Take
<1>22. CASE TimePasses
    BY <1>22 DEF TimePasses
<1> QED
    BY <1>1, <1>2, <1>3, <1>4, <1>5, <1>6, <1>7, <1>8, <1>9, <1>10, <1>11, <1>12,
       <1>13, <1>14, <1>15, <1>16, <1>17, <1>18, <1>19, <1>20, <1>21, <1>22
       DEF WorkersNext, Proceed, JobStep

\* Every step keeps what the requests are doing.
LEMMA AtCallStep ==
    ASSUME WorkTyped, AtCall, WorkersNext PROVE AtCall'
<1> USE WorkLimits DEF WorkTyped, Submit, Enter, Fail, Leave, Return, Calling, store,
        threads, embedder, Jobs, AtCall
<1>1. ASSUME NEW d \in Documents, Ask(d) PROVE AtCall'
    BY <1>1 DEF Ask
<1>2. ASSUME NEW d \in Documents, Extract(d) PROVE AtCall'
    BY <1>2 DEF Extract, InThread
<1>3. ASSUME NEW r \in Requests, Begin(r) PROVE AtCall'
    BY <1>3 DEF Begin
<1>4. ASSUME NEW r \in Requests, Answer(r) PROVE AtCall'
    BY <1>4 DEF Answer
<1>5. ASSUME NEW r \in Requests, Work(r) PROVE AtCall'
    BY <1>5 DEF Work
<1>6. ASSUME NEW r \in Requests, GetModel(r) PROVE AtCall'
    BY <1>6 DEF GetModel
<1>7. ASSUME NEW r \in Requests, TakeLoadLock(r) PROVE AtCall'
    BY <1>7 DEF TakeLoadLock
<1>8. ASSUME NEW r \in Requests, TakeSlot(r) PROVE AtCall'
    BY <1>8 DEF TakeSlot
<1>9. ASSUME NEW r \in Requests, Ensure(r) PROVE AtCall'
    BY <1>9 DEF Ensure
<1>10. ASSUME NEW r \in Requests, WorkEndsWell(r) PROVE AtCall'
    BY <1>10 DEF WorkEndsWell
<1>11. ASSUME NEW r \in Requests, WorkFails(r) PROVE AtCall'
    BY <1>11 DEF WorkFails
<1>12. ASSUME NEW r \in Requests, LoadSucceeds(r) PROVE AtCall'
    BY <1>12 DEF LoadSucceeds
<1>13. ASSUME NEW r \in Requests, LoadFails(r) PROVE AtCall'
    BY <1>13 DEF LoadFails
<1>14. ASSUME NEW r \in Requests, EmbedSucceeds(r) PROVE AtCall'
    BY <1>14 DEF EmbedSucceeds
<1>15. ASSUME NEW r \in Requests, EmbedFails(r) PROVE AtCall'
    BY <1>15 DEF EmbedFails
<1>16. ASSUME NEW r \in Requests, Exists(r) PROVE AtCall'
    BY <1>16 DEF Exists
<1>17. ASSUME NEW r \in Requests, Create(r) PROVE AtCall'
    BY <1>17 DEF Create
<1>18. ASSUME NEW r \in Requests, Get(r) PROVE AtCall'
    BY <1>18 DEF Get
<1>19. ASSUME NEW r \in Requests, CreateIndex(r) PROVE AtCall'
    BY <1>19 DEF CreateIndex
<1>20. ASSUME NEW r \in Requests, Ensured(r) PROVE AtCall'
    BY <1>20 DEF Ensured
<1>21. ASSUME NEW j \in Jobs, Take(j) PROVE AtCall'
    BY <1>21 DEF Take
<1>22. CASE TimePasses
    BY <1>22 DEF TimePasses
<1> QED
    BY <1>1, <1>2, <1>3, <1>4, <1>5, <1>6, <1>7, <1>8, <1>9, <1>10, <1>11, <1>12,
       <1>13, <1>14, <1>15, <1>16, <1>17, <1>18, <1>19, <1>20, <1>21, <1>22
       DEF WorkersNext, Proceed, JobStep

\* No step takes back what an ensured collection has.
LEMMA EnsuringStep ==
    ASSUME WorkTyped, Ensuring, WorkersNext PROVE Ensuring'
<1> USE WorkLimits DEF WorkTyped, Submit, Enter, Fail, Leave, Return, Calling, store,
        threads, embedder, Jobs, Ensuring
<1>1. ASSUME NEW d \in Documents, Ask(d) PROVE Ensuring'
    BY <1>1 DEF Ask
<1>2. ASSUME NEW d \in Documents, Extract(d) PROVE Ensuring'
    BY <1>2 DEF Extract, InThread
<1>3. ASSUME NEW r \in Requests, Begin(r) PROVE Ensuring'
    BY <1>3 DEF Begin
<1>4. ASSUME NEW r \in Requests, Answer(r) PROVE Ensuring'
    BY <1>4 DEF Answer
<1>5. ASSUME NEW r \in Requests, Work(r) PROVE Ensuring'
    BY <1>5 DEF Work
<1>6. ASSUME NEW r \in Requests, GetModel(r) PROVE Ensuring'
    BY <1>6 DEF GetModel
<1>7. ASSUME NEW r \in Requests, TakeLoadLock(r) PROVE Ensuring'
    BY <1>7 DEF TakeLoadLock
<1>8. ASSUME NEW r \in Requests, TakeSlot(r) PROVE Ensuring'
    BY <1>8 DEF TakeSlot
<1>9. ASSUME NEW r \in Requests, Ensure(r) PROVE Ensuring'
    BY <1>9 DEF Ensure
<1>10. ASSUME NEW r \in Requests, WorkEndsWell(r) PROVE Ensuring'
    BY <1>10 DEF WorkEndsWell
<1>11. ASSUME NEW r \in Requests, WorkFails(r) PROVE Ensuring'
    BY <1>11 DEF WorkFails
<1>12. ASSUME NEW r \in Requests, LoadSucceeds(r) PROVE Ensuring'
    BY <1>12 DEF LoadSucceeds
<1>13. ASSUME NEW r \in Requests, LoadFails(r) PROVE Ensuring'
    BY <1>13 DEF LoadFails
<1>14. ASSUME NEW r \in Requests, EmbedSucceeds(r) PROVE Ensuring'
    BY <1>14 DEF EmbedSucceeds
<1>15. ASSUME NEW r \in Requests, EmbedFails(r) PROVE Ensuring'
    BY <1>15 DEF EmbedFails
<1>16. ASSUME NEW r \in Requests, Exists(r) PROVE Ensuring'
    BY <1>16 DEF Exists
<1>17. ASSUME NEW r \in Requests, Create(r) PROVE Ensuring'
    BY <1>17 DEF Create
<1>18. ASSUME NEW r \in Requests, Get(r) PROVE Ensuring'
    <2>1. CASE collection = "fit"
        <3>1. 1 .. Fields \subseteq indexes \cup ((1 .. Fields) \ indexes)
            OBVIOUS
        <3> QED
            BY <1>18, <2>1, <3>1 DEF Get
    <2>2. CASE collection # "fit"
        BY <1>18, <2>2 DEF Get
    <2> QED
        BY <2>1, <2>2
<1>19. ASSUME NEW r \in Requests, CreateIndex(r) PROVE Ensuring'
    BY <1>19 DEF CreateIndex
<1>20. ASSUME NEW r \in Requests, Ensured(r) PROVE Ensuring'
    BY <1>20 DEF Ensured
<1>21. ASSUME NEW j \in Jobs, Take(j) PROVE Ensuring'
    BY <1>21 DEF Take
<1>22. CASE TimePasses
    BY <1>22 DEF TimePasses
<1> QED
    BY <1>1, <1>2, <1>3, <1>4, <1>5, <1>6, <1>7, <1>8, <1>9, <1>10, <1>11, <1>12,
       <1>13, <1>14, <1>15, <1>16, <1>17, <1>18, <1>19, <1>20, <1>21, <1>22
       DEF WorkersNext, Proceed, JobStep

\* A call that returns leaves a collection that is ready for the next.
LEMMA ReadyStep ==
    ASSUME WorkTyped, AtCall, Ensuring, CollectionReady, WorkersNext PROVE CollectionReady'
<1> USE WorkLimits DEF WorkTyped, Submit, Enter, Fail, Leave, Return, Calling, store,
        threads, embedder, Jobs, CollectionReady, AtCall, Ensuring
<1>1. ASSUME NEW d \in Documents, Ask(d) PROVE CollectionReady'
    BY <1>1 DEF Ask
<1>2. ASSUME NEW d \in Documents, Extract(d) PROVE CollectionReady'
    BY <1>2 DEF Extract, InThread
<1>3. ASSUME NEW r \in Requests, Begin(r) PROVE CollectionReady'
    BY <1>3 DEF Begin
<1>4. ASSUME NEW r \in Requests, Answer(r) PROVE CollectionReady'
    BY <1>4 DEF Answer
<1>5. ASSUME NEW r \in Requests, Work(r) PROVE CollectionReady'
    BY <1>5 DEF Work
<1>6. ASSUME NEW r \in Requests, GetModel(r) PROVE CollectionReady'
    BY <1>6 DEF GetModel
<1>7. ASSUME NEW r \in Requests, TakeLoadLock(r) PROVE CollectionReady'
    BY <1>7 DEF TakeLoadLock
<1>8. ASSUME NEW r \in Requests, TakeSlot(r) PROVE CollectionReady'
    BY <1>8 DEF TakeSlot
<1>9. ASSUME NEW r \in Requests, Ensure(r) PROVE CollectionReady'
    BY <1>9 DEF Ensure
<1>10. ASSUME NEW r \in Requests, WorkEndsWell(r) PROVE CollectionReady'
    <2>1. todo[r] \in Seq(Calls) /\ todo[r] # <<>> /\ Head(todo[r]) # "ensure"
        BY <1>10 DEF WorkEndsWell
    <2>2. \A c \in {"points", "ensure"} : c # Head(todo[r]) =>
            (c \in {Tail(todo[r])[i] : i \in DOMAIN Tail(todo[r])} <=>
                c \in {todo[r][i] : i \in DOMAIN todo[r]})
        BY <2>1, Tails DEF Calls
    <2>3. "points" \in {Tail(todo[r])[i] : i \in DOMAIN Tail(todo[r])} =>
            "points" \in {todo[r][i] : i \in DOMAIN todo[r]}
        BY <2>1, Tails
    <2> QED
        BY <1>10, <2>1, <2>2, <2>3 DEF WorkEndsWell
<1>11. ASSUME NEW r \in Requests, WorkFails(r) PROVE CollectionReady'
    BY <1>11 DEF WorkFails
<1>12. ASSUME NEW r \in Requests, LoadSucceeds(r) PROVE CollectionReady'
    BY <1>12 DEF LoadSucceeds
<1>13. ASSUME NEW r \in Requests, LoadFails(r) PROVE CollectionReady'
    BY <1>13 DEF LoadFails
<1>14. ASSUME NEW r \in Requests, EmbedSucceeds(r) PROVE CollectionReady'
    <2>1. todo[r] \in Seq(Calls) /\ todo[r] # <<>> /\ Head(todo[r]) # "ensure"
        BY <1>14 DEF EmbedSucceeds
    <2>2. \A c \in {"points", "ensure"} : c # Head(todo[r]) =>
            (c \in {Tail(todo[r])[i] : i \in DOMAIN Tail(todo[r])} <=>
                c \in {todo[r][i] : i \in DOMAIN todo[r]})
        BY <2>1, Tails DEF Calls
    <2>3. "points" \in {Tail(todo[r])[i] : i \in DOMAIN Tail(todo[r])} =>
            "points" \in {todo[r][i] : i \in DOMAIN todo[r]}
        BY <2>1, Tails
    <2> QED
        BY <1>14, <2>1, <2>2, <2>3 DEF EmbedSucceeds
<1>15. ASSUME NEW r \in Requests, EmbedFails(r) PROVE CollectionReady'
    BY <1>15 DEF EmbedFails
<1>16. ASSUME NEW r \in Requests, Exists(r) PROVE CollectionReady'
    BY <1>16 DEF Exists
<1>17. ASSUME NEW r \in Requests, Create(r) PROVE CollectionReady'
    BY <1>17 DEF Create
<1>18. ASSUME NEW r \in Requests, Get(r) PROVE CollectionReady'
    <2>1. /\ at[r] # "failed" /\ todo' = todo /\ collection' = collection /\ indexes' = indexes
          /\ \E step \in {"indexing", "failed"} : at' = [at EXCEPT ![r] = step]
        BY <1>18 DEF Get
    <2> QED
        BY <2>1
<1>19. ASSUME NEW r \in Requests, CreateIndex(r) PROVE CollectionReady'
    BY <1>19 DEF CreateIndex
<1>20. ASSUME NEW r \in Requests, Ensured(r) PROVE CollectionReady'
    BY <1>20 DEF Ensured
<1>21. ASSUME NEW j \in Jobs, Take(j) PROVE CollectionReady'
    BY <1>21 DEF Take
<1>22. CASE TimePasses
    BY <1>22 DEF TimePasses
<1> QED
    BY <1>1, <1>2, <1>3, <1>4, <1>5, <1>6, <1>7, <1>8, <1>9, <1>10, <1>11, <1>12,
       <1>13, <1>14, <1>15, <1>16, <1>17, <1>18, <1>19, <1>20, <1>21, <1>22
       DEF WorkersNext, Proceed, JobStep

\* The requests that embed are finite in number.
LEMMA EmbeddingFinite == IsFiniteSet(Embedding)
BY WorkLimits, FS_Subset DEF Embedding

\* Every step keeps the slots of the model counted.
LEMMA EmbedSlotsStep ==
    ASSUME WorkTyped, EmbedSlotsCounted, WorkersNext PROVE EmbedSlotsCounted'
<1> USE WorkLimits DEF WorkTyped, Submit, Enter, Fail, Leave, Return, Calling, store,
        threads, embedder
<1>1. ASSUME NEW d \in Documents, Ask(d) PROVE EmbedSlotsCounted'
    <2>1. Embedding' = Embedding /\ embedSlots' = embedSlots
        BY <1>1 DEF Ask, Embedding
    <2> QED
        BY <2>1 DEF EmbedSlotsCounted
<1>2. ASSUME NEW d \in Documents, Extract(d) PROVE EmbedSlotsCounted'
    <2>1. Embedding' = Embedding /\ embedSlots' = embedSlots
        BY <1>2 DEF Extract, InThread, Embedding
    <2> QED
        BY <2>1 DEF EmbedSlotsCounted
<1>3. ASSUME NEW r \in Requests, Begin(r) PROVE EmbedSlotsCounted'
    <2>1. Embedding' = Embedding /\ embedSlots' = embedSlots
        BY <1>3 DEF Begin, Embedding
    <2> QED
        BY <2>1 DEF EmbedSlotsCounted
<1>4. ASSUME NEW r \in Requests, Answer(r) PROVE EmbedSlotsCounted'
    <2>1. Embedding' = Embedding /\ embedSlots' = embedSlots
        BY <1>4 DEF Answer, Embedding
    <2> QED
        BY <2>1 DEF EmbedSlotsCounted
<1>5. ASSUME NEW r \in Requests, Work(r) PROVE EmbedSlotsCounted'
    <2>1. Embedding' = Embedding /\ embedSlots' = embedSlots
        BY <1>5 DEF Work, Embedding
    <2> QED
        BY <2>1 DEF EmbedSlotsCounted
<1>6. ASSUME NEW r \in Requests, GetModel(r) PROVE EmbedSlotsCounted'
    <2>1. Embedding' = Embedding /\ embedSlots' = embedSlots
        BY <1>6 DEF GetModel, Embedding
    <2> QED
        BY <2>1 DEF EmbedSlotsCounted
<1>7. ASSUME NEW r \in Requests, TakeLoadLock(r) PROVE EmbedSlotsCounted'
    <2>1. Embedding' = Embedding /\ embedSlots' = embedSlots
        BY <1>7 DEF TakeLoadLock, Embedding
    <2> QED
        BY <2>1 DEF EmbedSlotsCounted
<1>8. ASSUME NEW r \in Requests, TakeSlot(r) PROVE EmbedSlotsCounted'
    <2>1. /\ Embedding' = Embedding \cup {r} /\ r \notin Embedding
          /\ embedSlots' = embedSlots - 1 /\ embedSlots > 0
        BY <1>8 DEF TakeSlot, Embedding
    <2>2. Cardinality(Embedding') = Cardinality(Embedding) + 1 /\ Cardinality(Embedding) \in Nat
        BY <2>1, EmbeddingFinite, FS_AddElement, FS_CardinalityType
    <2> QED
        BY <2>1, <2>2 DEF EmbedSlotsCounted
<1>9. ASSUME NEW r \in Requests, Ensure(r) PROVE EmbedSlotsCounted'
    <2>1. Embedding' = Embedding /\ embedSlots' = embedSlots
        BY <1>9 DEF Ensure, Embedding
    <2> QED
        BY <2>1 DEF EmbedSlotsCounted
<1>10. ASSUME NEW r \in Requests, WorkEndsWell(r) PROVE EmbedSlotsCounted'
    <2>1. Embedding' = Embedding /\ embedSlots' = embedSlots
        BY <1>10 DEF WorkEndsWell, Embedding
    <2> QED
        BY <2>1 DEF EmbedSlotsCounted
<1>11. ASSUME NEW r \in Requests, WorkFails(r) PROVE EmbedSlotsCounted'
    <2>1. Embedding' = Embedding /\ embedSlots' = embedSlots
        BY <1>11 DEF WorkFails, Embedding
    <2> QED
        BY <2>1 DEF EmbedSlotsCounted
<1>12. ASSUME NEW r \in Requests, LoadSucceeds(r) PROVE EmbedSlotsCounted'
    <2>1. Embedding' = Embedding /\ embedSlots' = embedSlots
        BY <1>12 DEF LoadSucceeds, Embedding
    <2> QED
        BY <2>1 DEF EmbedSlotsCounted
<1>13. ASSUME NEW r \in Requests, LoadFails(r) PROVE EmbedSlotsCounted'
    <2>1. Embedding' = Embedding /\ embedSlots' = embedSlots
        BY <1>13 DEF LoadFails, Embedding
    <2> QED
        BY <2>1 DEF EmbedSlotsCounted
<1>14. ASSUME NEW r \in Requests, EmbedSucceeds(r) PROVE EmbedSlotsCounted'
    <2>1. Embedding' = Embedding \ {r} /\ r \in Embedding /\ embedSlots' = embedSlots + 1
        BY <1>14 DEF EmbedSucceeds, Embedding
    <2>2. Cardinality(Embedding') = Cardinality(Embedding) - 1 /\ Cardinality(Embedding) \in Nat
        BY <2>1, EmbeddingFinite, FS_RemoveElement, FS_CardinalityType
    <2> QED
        BY <2>1, <2>2 DEF EmbedSlotsCounted
<1>15. ASSUME NEW r \in Requests, EmbedFails(r) PROVE EmbedSlotsCounted'
    <2>1. Embedding' = Embedding \ {r} /\ r \in Embedding /\ embedSlots' = embedSlots + 1
        BY <1>15 DEF EmbedFails, Embedding
    <2>2. Cardinality(Embedding') = Cardinality(Embedding) - 1 /\ Cardinality(Embedding) \in Nat
        BY <2>1, EmbeddingFinite, FS_RemoveElement, FS_CardinalityType
    <2> QED
        BY <2>1, <2>2 DEF EmbedSlotsCounted
<1>16. ASSUME NEW r \in Requests, Exists(r) PROVE EmbedSlotsCounted'
    <2>1. Embedding' = Embedding /\ embedSlots' = embedSlots
        BY <1>16 DEF Exists, Embedding
    <2> QED
        BY <2>1 DEF EmbedSlotsCounted
<1>17. ASSUME NEW r \in Requests, Create(r) PROVE EmbedSlotsCounted'
    <2>1. Embedding' = Embedding /\ embedSlots' = embedSlots
        BY <1>17 DEF Create, Embedding
    <2> QED
        BY <2>1 DEF EmbedSlotsCounted
<1>18. ASSUME NEW r \in Requests, Get(r) PROVE EmbedSlotsCounted'
    <2>1. Embedding' = Embedding /\ embedSlots' = embedSlots
        BY <1>18 DEF Get, Embedding
    <2> QED
        BY <2>1 DEF EmbedSlotsCounted
<1>19. ASSUME NEW r \in Requests, CreateIndex(r) PROVE EmbedSlotsCounted'
    <2>1. Embedding' = Embedding /\ embedSlots' = embedSlots
        BY <1>19 DEF CreateIndex, Embedding
    <2> QED
        BY <2>1 DEF EmbedSlotsCounted
<1>20. ASSUME NEW r \in Requests, Ensured(r) PROVE EmbedSlotsCounted'
    <2>1. Embedding' = Embedding /\ embedSlots' = embedSlots
        BY <1>20 DEF Ensured, Embedding
    <2> QED
        BY <2>1 DEF EmbedSlotsCounted
<1>21. ASSUME NEW j \in Jobs, Take(j) PROVE EmbedSlotsCounted'
    <2>1. Embedding' = Embedding /\ embedSlots' = embedSlots
        BY <1>21 DEF Take, Embedding
    <2> QED
        BY <2>1 DEF EmbedSlotsCounted
<1>22. CASE TimePasses
    <2>1. Embedding' = Embedding /\ embedSlots' = embedSlots
        BY <1>22 DEF TimePasses, Embedding
    <2> QED
        BY <2>1 DEF EmbedSlotsCounted
<1> QED
    BY <1>1, <1>2, <1>3, <1>4, <1>5, <1>6, <1>7, <1>8, <1>9, <1>10, <1>11, <1>12,
       <1>13, <1>14, <1>15, <1>16, <1>17, <1>18, <1>19, <1>20, <1>21, <1>22
       DEF WorkersNext, Proceed, JobStep

\* No step has more jobs at work than threads.
LEMMA ThreadsStep ==
    ASSUME WorkTyped, ThreadsCounted, WorkersNext PROVE ThreadsCounted'
<1> USE WorkLimits DEF WorkTyped, Submit, Leave, threads
<1>0. ASSUME busy' \subseteq busy PROVE ThreadsCounted'
    <2>1. IsFiniteSet(busy)
        BY JobsFinite
    <2>2. IsFiniteSet(busy') /\ Cardinality(busy') <= Cardinality(busy)
        BY <1>0, <2>1, FS_Subset
    <2>3. Cardinality(busy') \in Nat
        BY <2>2, FS_CardinalityType
    <2> QED
        BY <2>2, <2>3 DEF ThreadsCounted
<1>1. ASSUME NEW d \in Documents, Ask(d) PROVE ThreadsCounted'
    <2>1. busy' \subseteq busy
        BY <1>1 DEF Ask
    <2> QED
        BY <1>0, <2>1
<1>2. ASSUME NEW d \in Documents, Extract(d) PROVE ThreadsCounted'
    <2>1. busy' \subseteq busy
        BY <1>2 DEF Extract, InThread
    <2> QED
        BY <1>0, <2>1
<1>3. ASSUME NEW r \in Requests, Begin(r) PROVE ThreadsCounted'
    <2>1. busy' \subseteq busy
        BY <1>3 DEF Begin
    <2> QED
        BY <1>0, <2>1
<1>4. ASSUME NEW r \in Requests, Answer(r) PROVE ThreadsCounted'
    <2>1. busy' \subseteq busy
        BY <1>4 DEF Answer
    <2> QED
        BY <1>0, <2>1
<1>5. ASSUME NEW r \in Requests, Work(r) PROVE ThreadsCounted'
    <2>1. busy' \subseteq busy
        BY <1>5 DEF Work
    <2> QED
        BY <1>0, <2>1
<1>6. ASSUME NEW r \in Requests, GetModel(r) PROVE ThreadsCounted'
    <2>1. busy' \subseteq busy
        BY <1>6 DEF GetModel
    <2> QED
        BY <1>0, <2>1
<1>7. ASSUME NEW r \in Requests, TakeLoadLock(r) PROVE ThreadsCounted'
    <2>1. busy' \subseteq busy
        BY <1>7 DEF TakeLoadLock
    <2> QED
        BY <1>0, <2>1
<1>8. ASSUME NEW r \in Requests, TakeSlot(r) PROVE ThreadsCounted'
    <2>1. busy' \subseteq busy
        BY <1>8 DEF TakeSlot
    <2> QED
        BY <1>0, <2>1
<1>9. ASSUME NEW r \in Requests, Ensure(r) PROVE ThreadsCounted'
    <2>1. busy' \subseteq busy
        BY <1>9 DEF Ensure
    <2> QED
        BY <1>0, <2>1
<1>10. ASSUME NEW r \in Requests, WorkEndsWell(r) PROVE ThreadsCounted'
    <2>1. busy' \subseteq busy
        BY <1>10 DEF WorkEndsWell
    <2> QED
        BY <1>0, <2>1
<1>11. ASSUME NEW r \in Requests, WorkFails(r) PROVE ThreadsCounted'
    <2>1. busy' \subseteq busy
        BY <1>11 DEF WorkFails
    <2> QED
        BY <1>0, <2>1
<1>12. ASSUME NEW r \in Requests, LoadSucceeds(r) PROVE ThreadsCounted'
    <2>1. busy' \subseteq busy
        BY <1>12 DEF LoadSucceeds
    <2> QED
        BY <1>0, <2>1
<1>13. ASSUME NEW r \in Requests, LoadFails(r) PROVE ThreadsCounted'
    <2>1. busy' \subseteq busy
        BY <1>13 DEF LoadFails
    <2> QED
        BY <1>0, <2>1
<1>14. ASSUME NEW r \in Requests, EmbedSucceeds(r) PROVE ThreadsCounted'
    <2>1. busy' \subseteq busy
        BY <1>14 DEF EmbedSucceeds
    <2> QED
        BY <1>0, <2>1
<1>15. ASSUME NEW r \in Requests, EmbedFails(r) PROVE ThreadsCounted'
    <2>1. busy' \subseteq busy
        BY <1>15 DEF EmbedFails
    <2> QED
        BY <1>0, <2>1
<1>16. ASSUME NEW r \in Requests, Exists(r) PROVE ThreadsCounted'
    <2>1. busy' \subseteq busy
        BY <1>16 DEF Exists
    <2> QED
        BY <1>0, <2>1
<1>17. ASSUME NEW r \in Requests, Create(r) PROVE ThreadsCounted'
    <2>1. busy' \subseteq busy
        BY <1>17 DEF Create
    <2> QED
        BY <1>0, <2>1
<1>18. ASSUME NEW r \in Requests, Get(r) PROVE ThreadsCounted'
    <2>1. busy' \subseteq busy
        BY <1>18 DEF Get
    <2> QED
        BY <1>0, <2>1
<1>19. ASSUME NEW r \in Requests, CreateIndex(r) PROVE ThreadsCounted'
    <2>1. busy' \subseteq busy
        BY <1>19 DEF CreateIndex
    <2> QED
        BY <1>0, <2>1
<1>20. ASSUME NEW r \in Requests, Ensured(r) PROVE ThreadsCounted'
    <2>1. busy' \subseteq busy
        BY <1>20 DEF Ensured
    <2> QED
        BY <1>0, <2>1
<1>21. ASSUME NEW j \in Jobs, Take(j) PROVE ThreadsCounted'
    <2>1. /\ busy' = busy \cup {j} /\ j \notin busy /\ Cardinality(busy) < Threads
          /\ IsFiniteSet(busy)
        BY <1>21, JobsFinite DEF Take
    <2>2. Cardinality(busy') = Cardinality(busy) + 1
        BY <2>1, FS_AddElement
    <2> QED
        BY <2>1, <2>2 DEF ThreadsCounted
<1>22. CASE TimePasses
    <2>1. busy' \subseteq busy
        BY <1>22 DEF TimePasses
    <2> QED
        BY <1>0, <2>1
<1> QED
    BY <1>1, <1>2, <1>3, <1>4, <1>5, <1>6, <1>7, <1>8, <1>9, <1>10, <1>11, <1>12,
       <1>13, <1>14, <1>15, <1>16, <1>17, <1>18, <1>19, <1>20, <1>21, <1>22
       DEF WorkersNext, Proceed, JobStep

-----------------------------------------------------------------------------
\* A request that is to use points ensures the collection before.
LEMMA ScriptsEnsure ==
    ASSUME NEW s \in Scripts
    PROVE  /\ s \in Seq(Calls)
           /\ "points" \in {s[i] : i \in DOMAIN s} => "ensure" \in {s[i] : i \in DOMAIN s}
<1>1. CASE s = <<"parse">>
    BY <1>1 DEF Calls
<1>2. CASE s = <<"ensure", "embed", "points">>
    <2>1. s[1] = "ensure" /\ 1 \in DOMAIN s /\ s \in Seq(Calls)
        BY <1>2 DEF Calls
    <2> QED
        BY <2>1
<1>3. ASSUME NEW n \in 0 .. Batches,
             s = [i \in 1 .. n |-> "embed"] \o <<"ensure", "points", "points">>
      PROVE  s \in Seq(Calls) /\ "ensure" \in {s[i] : i \in DOMAIN s}
    <2> DEFINE e == [i \in 1 .. n |-> "embed"]
    <2>1. n \in Nat
        BY WorkLimits
    <2>2. e \in Seq(Calls) /\ Len(e) = n
        BY <2>1 DEF Calls
    <2>3. <<"ensure", "points", "points">> \in Seq(Calls)
        BY DEF Calls
    <2> HIDE DEF e
    <2>4. s = e \o <<"ensure", "points", "points">>
        BY <1>3 DEF e
    <2>5. s \in Seq(Calls) /\ DOMAIN s = 1 .. n + 3 /\ s[n + 1] = "ensure"
        BY <2>1, <2>2, <2>3, <2>4
    <2>6. n + 1 \in DOMAIN s
        BY <2>1, <2>5
    <2> QED
        BY <2>5, <2>6
<1> QED
    BY <1>1, <1>2, <1>3 DEF Scripts

\* At the start no thread, lock or slot is taken and no request has called anything.
LEMMA WorkInit == WorkersInit => WorkInv
<1> SUFFICES ASSUME WorkersInit PROVE WorkInv
    OBVIOUS
<1> USE WorkLimits DEF WorkersInit
<1>1. OcrInv
    BY InitInv
<1>2. todo \in [Requests -> Seq(Calls)]
    BY ScriptsEnsure
<1>3. WorkTyped
    <2>1. missing \in [Requests -> SUBSET (1 .. Fields)] /\ at \in [Requests -> Places]
        BY DEF Places
    <2>2. /\ coming \subseteq Jobs /\ waiting \subseteq Jobs /\ busy \subseteq Jobs
          /\ waiting \cap busy = {}
        OBVIOUS
    <2>3. model \in BOOLEAN /\ loadLock \in Requests \cup {Nobody}
        OBVIOUS
    <2>4. embedSlots \in Int
        OBVIOUS
    <2>5. collection \in {"absent", "fit", "unfit"}
        OBVIOUS
    <2>6. indexes \subseteq 1 .. Fields
        OBVIOUS
    <2> QED
        BY <1>2, <2>1, <2>2, <2>3, <2>4, <2>5, <2>6 DEF WorkTyped
<1>4. CollectionReady
    BY ScriptsEnsure DEF CollectionReady
<1>5. /\ DocumentsInThreads /\ RequestsInThreads /\ LoadLockHeld /\ LoadedOnce
      /\ AtCall /\ Ensuring
    BY DEF Init, DocumentsInThreads, RequestsInThreads, LoadLockHeld, LoadedOnce,
       AtCall, Ensuring, InExecutor
<1>6. EmbedSlotsCounted
    <2>1. Embedding = {}
        BY DEF Embedding
    <2> QED
        BY <2>1, FS_EmptySet DEF EmbedSlotsCounted
<1>7. ThreadsCounted
    BY FS_EmptySet DEF ThreadsCounted
<1> QED
    BY <1>1, <1>3, <1>4, <1>5, <1>6, <1>7 DEF WorkInv

\* Every step keeps the invariant.
LEMMA WorkStep == WorkInv /\ [WorkersNext]_wvars => WorkInv'
<1> SUFFICES ASSUME WorkInv, [WorkersNext]_wvars PROVE WorkInv'
    OBVIOUS
<1>1. CASE WorkersNext
    <2>1. OcrInv'
        BY <1>1, Simulates, StepInv DEF WorkInv
    <2> QED
        BY <1>1, <2>1, WorkTypedStep, DocumentsStep, RequestsStep, LoadLockStep,
           LoadedOnceStep, EmbedSlotsStep, ThreadsStep, AtCallStep, EnsuringStep,
           ReadyStep DEF WorkInv, OcrInv
<1>2. CASE UNCHANGED wvars
    <2>1. OcrInv'
        BY <1>2, StepInv DEF wvars, WorkInv
    <2> QED
        BY <1>2, <2>1 DEF wvars, vars, embedder, store, threads, WorkInv, WorkTyped,
           DocumentsInThreads, RequestsInThreads, LoadLockHeld, LoadedOnce,
           EmbedSlotsCounted, Embedding, ThreadsCounted, AtCall, Ensuring,
           CollectionReady
<1> QED
    BY <1>1, <1>2

\* The invariant holds whatever the backend does in its threads.
LEMMA WorkInvHolds == WorkersSpec => []WorkInv
BY WorkInit, WorkStep, PTL DEF WorkersSpec

-----------------------------------------------------------------------------
\* For any number of requests, threads and slots: never more jobs than threads, and
\* every thread, lock and slot belongs to the one who uses it.
THEOREM ThreadsAreKept == WorkersSpec => []WorkersTypeOK
<1>1. WorkInv => WorkersTypeOK
    BY DEF WorkInv, OcrInv, Typed, LockHeld, SlotsCounted, PagesOfDocument, TypeOK,
       WorkTyped, DocumentsInThreads, RequestsInThreads, LoadLockHeld,
       EmbedSlotsCounted, ThreadsCounted, WorkersTypeOK
<1> QED
    BY <1>1, WorkInvHolds, PTL

\* For any number of jobs, threads and slots: nobody waits in a circle. A job blocked
\* in a thread waits for a PDF that probes or recognizes, hence runs in a thread and
\* is not blocked; with no job in a thread every lock and slot of the model is free.
THEOREM ThreadsNeverDeadlock == WorkersSpec => []NoDeadlock
<1>1. WorkInv => NoDeadlock
    <2> SUFFICES ASSUME WorkInv, Unfinished, busy \subseteq Blocked
                 PROVE  \/ waiting # {} /\ Cardinality(busy) < Threads
                        \/ \E r \in Requests :
                              \/ at[r] = "calling"
                              \/ at[r] = "locking" /\ loadLock = Nobody
                              \/ at[r] = "slotting" /\ embedSlots > 0
        BY DEF NoDeadlock
    <2> USE Limits, WorkLimits
    <2>1. /\ Typed /\ LockHeld /\ SlotsCounted /\ WorkTyped /\ DocumentsInThreads
          /\ RequestsInThreads /\ LoadLockHeld /\ EmbedSlotsCounted
        BY DEF WorkInv, OcrInv
    <2>2. busy = {}
        <3> SUFFICES ASSUME NEW d \in busy PROVE FALSE
            OBVIOUS
        <3>1. d \in Documents /\ d \in Blocked
            BY DEF Blocked
        <3>2. CASE pc[d] = "locking" /\ lock # Nobody
            <4>1. lock \in Documents /\ pc[lock] = "probing"
                BY <2>1, <3>2 DEF Typed, LockHeld
            <4>2. lock \in busy /\ lock \notin Blocked
                BY <2>1, <4>1 DEF DocumentsInThreads, Blocked
            <4> QED
                BY <4>2
        <3>3. CASE pc[d] = "queueing" /\ slots = 0
            <4>1. AtWork # {}
                <5> SUFFICES ASSUME AtWork = {} PROVE FALSE
                    OBVIOUS
                <5>1. Slots = 0
                    BY <2>1, <3>3, FS_EmptySet DEF SlotsCounted
                <5> QED
                    BY <5>1, ConstantsAssumption
            <4>2. PICK e \in Documents : pc[e] = "recognizing"
                BY <4>1 DEF AtWork
            <4>3. e \in busy /\ e \notin Blocked
                BY <2>1, <4>2 DEF DocumentsInThreads, Blocked
            <4> QED
                BY <4>3
        <3> QED
            BY <3>1, <3>2, <3>3 DEF Blocked
    <2>3. CASE waiting # {}
        BY <2>2, <2>3, FS_EmptySet
    <2>4. CASE waiting = {}
        <3>1. PICK r \in Requests : at[r] \notin {"idle", "answered", "failed"}
            BY <2>2, <2>4 DEF Unfinished
        <3>2. \A q \in Requests : at[q] \notin InExecutor
            BY <2>1, <2>2, <2>4 DEF RequestsInThreads
        <3>3. loadLock = Nobody
            BY <2>1, <3>2 DEF WorkTyped, LoadLockHeld, InExecutor
        <3>4. embedSlots > 0
            <4>1. Embedding = {}
                BY <3>2 DEF Embedding, InExecutor
            <4>2. embedSlots = EmbedSlots
                BY <2>1, <4>1, FS_EmptySet DEF EmbedSlotsCounted
            <4> QED
                BY <4>2, WorkersAssumption
        <3>5. at[r] \in {"calling", "locking", "slotting"}
            BY <2>1, <3>1, <3>2 DEF WorkTyped, Places
        <3> QED
            BY <3>3, <3>4, <3>5
    <2> QED
        BY <2>3, <2>4
<1> QED
    BY <1>1, WorkInvHolds, PTL

\* For any number of requests, the model is loaded once.
THEOREM ModelIsLoadedOnce == WorkersSpec => []LoadedOnce
<1>1. WorkInv => LoadedOnce
    BY DEF WorkInv
<1> QED
    BY <1>1, WorkInvHolds, PTL

\* For any number of requests and fields, a request that has ensured the collection
\* finds it complete.
THEOREM CollectionIsReady == WorkersSpec => []CollectionReady
<1>1. WorkInv => CollectionReady
    BY DEF WorkInv
<1> QED
    BY <1>1, WorkInvHolds, PTL

\* In whatever threads they run, PDF extractions keep their time.
THEOREM ThreadsAreInTime == WorkersSpec => []RecognizedInTime
<1>1. WorkInv => RecognizedInTime
    BY DEF WorkInv, OcrInv
<1> QED
    BY <1>1, WorkInvHolds, PTL

\* In whatever threads they run, completed PDF extractions are whole.
THEOREM ThreadsExtractWhole == WorkersSpec => []WholeOrFailed
<1>1. WorkInv => WholeOrFailed
    BY DEF WorkInv, OcrInv
<1> QED
    BY <1>1, WorkInvHolds, PTL
=============================================================================
