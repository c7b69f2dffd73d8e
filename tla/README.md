# Verification of the legal AI workspace

TLA+ specifications of the backend (FastAPI, PostgreSQL, Qdrant, a private file
store) and of the browser code that keeps a user signed in and an extraction up to date
on the screen, model-checked with TLC
and, where a result should not depend on the size of the instance, proved with TLAPS.
Paths below are relative to `src/`; `app/` is `backend/app/`.

## 1. Inventory

One process serves all requests on one event loop. A request has a database session
of its own, created with `expire_on_commit=False` (`app/database.py:34-38`), in READ
COMMITTED transactions. Requests interleave at every `await`; nothing but row locks,
unique constraints and status columns coordinates them, and only the refresh token is
read `FOR UPDATE`.

| Component | State | Operations | Talks to | What is hard | What makes it correct |
|---|---|---|---|---|---|
| Extraction (`services/extractions.py`) | one `document_extractions` row per document | extract, get | file store, extractors, PostgreSQL | the status is checked without a lock; sessions write back only the attributes that differ from a copy which may be old; recording a failure can fail; a crash between claim and result | a row in progress is always somebody's; a first attempt is exclusive; a completed result stays; row fields agree with the status |
| Indexing (`services/indexing.py`) | `document_indexes` row, `document_chunks` rows, points in Qdrant | index, get | extraction row, embedding model, Qdrant | as above, over two stores without a common transaction; the extraction changes under it | chunks are one whole attempt's; a completed index has exactly its chunks and points |
| Search (`services/search.py`) | none | search | Qdrant first, PostgreSQL second | reindexing between the two reads | an answer comes from one attempt and the text its index names |
| Vector store (`vector/qdrant.py`) | collection, points | ensure_collection, replace, count, search | Qdrant | batches fail half-way; two starts create the collection | see indexing |
| Document vault (`services/documents.py`, `storage/local.py`) | `documents` row, published file, staged file | upload, archive, download | file store, PostgreSQL | two stores, one failing after the other; unknown outcome of a commit; size limit by streaming; crash leftovers | a row has its whole binary; a failed upload leaves nothing; row and binary act as one store |
| Refresh sessions (`services/auth.py`) | `refresh_tokens` rows | login, refresh, logout | PostgreSQL | racing refreshes and logouts of one token | one live token per session, single use, final logout: an atomic session |
| Browser session (`frontend/src/services/apiClient.ts`, `features/auth/AuthContext.tsx`) | cookie jar (shared by tabs); per tab the access token, the page state, a shared refresh | restore, refresh, login, logout, reload | auth API | lost and late replies, several tabs, a timeout | a refresh is refused for an expiry, a logout, another tab's refresh or a lost reply only; loading ends; sign-out is final |
| Workspaces and members (`services/workspaces.py`, `security/authorization.py`) | `workspaces` and `workspace_members` rows | add, change role, remove; update, archive | PostgreSQL | roles read at the start of a request and used at its end | one owner for ever; the role rules; no write to an unread row |
| Cases (`services/cases.py`) | `cases` rows | create, update, archive | PostgreSQL | PATCH and DELETE of one case on copies of different age; roles as above | a write changes what it was asked to change; archived means both fields |
| Extractors, OCR (`documents/extractors`, `documents/ocr`) | OCR slots, probe lock, deadlines | extract a document, recognise a page | worker threads, Tesseract process | slots and time limits, waits inside a thread | limits hold, slots are returned, no text is partial |
| Chunker (`documents/chunking/deterministic.py`) | none | chunk | - | boundary arithmetic | full coverage, bounded overlap, progress |
| Embedding provider (`ai/embeddings/local.py`) | loaded model, load lock, slots | embed texts, embed a query | worker threads, model files | first load by several requests; a slot held while waiting for a thread | loaded once, slots bounded, nobody waits for ever |
| Extraction in the pages (`frontend/src/pages/DocumentExtractionPage.tsx`, `DocumentVaultPage.tsx`, `features/documents/extractionApi.ts`) | one cached status | fetch, poll, POST | extraction API | replies that overtake each other, lost replies, a POST given up | the page follows the row |
| Other pages and forms, configuration, logging, health, migrations | - | - | - | presentation and pure I/O | not modelled |

How they interact: *upload* makes the row and the file that *extraction* opens;
*indexing* reads the completed extraction row; *search* joins what indexing has written
to PostgreSQL and to Qdrant; every request is let in by *authorization*, which reads
the roles that *members* writes, and the browser gets its access tokens from *refresh*.
PDF and DOCX extraction, the embedding model and the Qdrant client all run in the
threads of one executor. The *pages* show what extraction has committed.

The hazards, each at its line and with the properties aimed at it, are listed in
`PROJECT.json`.

## 2. Modules

| Module | Models | State and actions |
|---|---|---|
| `Extraction` | `DocumentExtractionService.extract`, `_record_failure`, the ORM's partial UPDATE | `row` is the committed row, `session[r]` the ORM copy of request r, `pc[r]` how far `extract()` got. `Read`, `Create`/`Reset`, `StartWork`, `Complete`, `Reply` are its steps in order; `WorkFails`, `TransactionFails`, `ReadForFailure`, `RecordFailure` its handlers (only a rollback that ends a transaction expires the copy and has it read again); `PrepareFails`, `SaveFails`, `RecordFailureFails`, `Crash` the faults. `Flush` writes only changed columns |
| `ExtractionPage` | what a browser shows of an extraction, extends `Extraction` | `shown` is the datum in the query cache, `fetch` the GET under way, `post[r]` our POSTs. `Mount`, `Poll`, `Serve`, `Deliver`, `Lose` are a GET's life, `Click`, `PostSucceeds`, `PostFails` a POST's; `Server` is a step of `Extraction` |
| `Lifecycle` | the documented life of an extraction or index row: abstract specification | `status`, `final` |
| `Indexing` | `DocumentIndexingService.index`, `replace_for_document`, `_replace_document_points_sync` | as `Extraction`, plus `chunks` and `points`. DELETE and INSERT of the chunks are two steps, with the rows the DELETE has found in `old`; deletion and each batch of points are requests of their own. `WorkFails` and `TransactionFails` are told apart as in `Extraction`. `ExtractionChanges` is the environment |
| `IndexSearch` | `VectorSearchService.search` | extends `Indexing`; `SearchPoints`, then `SearchRows` |
| `Pipeline` | composition of `Extraction` and `Indexing` in one process | what indexing reads is what extraction has committed; one `Crash` cuts all requests off |
| `RefreshTokens` | `AuthService.login/refresh/logout` with `FOR UPDATE` | `row`, `root` (history: the login a token descends from), `pc` of each request; a token is named by the request that issued it |
| `Session` | what a login session promises: abstract specification | `issued`, `valid`; `Open`, `Renew`, `Close` |
| `BrowserSession` | the tabs of one browser, extends `RefreshTokens` | `jar`, per tab `tab`, `access` and `retried` (the one repetition of a call that got 401); `caller` is who waits. `SendRefresh` and `JoinRefresh` are the shared refresh, of a page load or of a 401 in any state, also of a tab that was "left" signed out with calls under way; `RetryRejected` is the second 401. Replies are applied, lost, or come after the timeout |
| `Membership` | `add_member`, `change_member_role`, `remove_member` behind the role check | `role` and `rowId` are the rows; `held`/`seen` what the session has loaded of the actor's and the member's row. `Copy` is the identity map: a row loaded before stays as it was loaded |
| `Cases` | `CaseService`, `WorkspaceService.update` and `archive`, extends `Membership` | `row` holds the workspace and the cases, `req[w]` a request with its copy. `Arrive` reads role and workspace, `LoadCase` the case, `Write` updates the columns that differ from the copy; `Create`, `WriteFails`; `Members` is a step of `Membership` |
| `DocumentVault` | upload, archive, download | `row`, `object`, `staged` are the three places; a file is its number of bytes. The read loop, publication, INSERT, COMMIT, rollback, clean-up and discard are steps, each with its failure |
| `DocumentStore` | what the vault promises, row and binary as one store: abstract specification | `body`, `told`, `status`, `file`, `doubt`, `answer`; `Save` stores a whole file and answers in one step, `Lose` is for documents in doubt |
| `Chunker` | `DeterministicLegalChunker.chunk` | a text is its number of words, the places of its boundaries and its page lines; `ranges` are the cuts so far. `CutNext` and `CutRest` are the turns of the loop, `Merged` and `PageRange` what is done with its result |
| `PdfOcr` | `PDFExtractor._extract_pdf` with `TesseractOCRProvider` | one thread per document (`pc`); `lock` and `runtime` are the probe, `slots` the semaphore. `left` and `timer` count down what remains of the document's time and of the call it waits in; `Tick` is the clock |
| `Workers` | the threads of the process and what runs in them, extends `PdfOcr` | `waiting` and `busy` are the executor; `model`, `loadLock`, `embedSlots` the provider; `collection`, `indexes` the Qdrant collection; `todo[r]` the calls a request has yet to make, `at[r]` where it is. A PDF is a job whose steps are those of `PdfOcr`, taken only in a thread |
| `*Proofs` | theorems: `ExtractionProofs` (with the page), `IndexingProofs` (with the search), `CasesProofs` (with the members), `PipelineProofs`, `WorkersProofs` (with `PdfOcr`), `BrowserSessionProofs` (with the refresh tokens), `DocumentVaultProofs`, `ChunkerProofs` | |
| `MC*` | instances for TLC | |

Abstractions, the same everywhere: a text, a hash, a role name or a token is a value
with an identity and nothing else (a text stands for its SHA-256 as well); one action is
one commit, one request to another service, or the code between two awaits; wording,
logging and response bodies are left out. A flush and the commit that follows it are one
action where the row lock makes the order of other writers immaterial. History
variables (`overlap`, `mixed`, `root`, `faults`, `sender`, `lost`) are read by no guard.

Each module holds, beside the action it concerns, mutated forms of it ("Mutant: ..."),
which no specification uses. Every property checked by a passing run is violated when
one of them takes the place of its original.

## 3. Runs

| Run | Instance | Shows |
|---|---|---|
| `extraction` | 3 requests, one of them from the page, 2 texts, 1 error code, fair | `InProgressIsOwned`, `FirstAttemptExclusive`, `SerialRowConsistent`, `InProgressSettles`, `PageRefreshes` |
| `index_search` | 2 index requests and a search, texts of 1 and 2 chunks, batches of 1, top 1, fair | `InProgressIsOwned`, `ChunksAreOneAttempt`, `SerialIndexComplete`, `AnswerIsOneIndex`, `InProgressSettles` |
| `pipeline` | 2 extraction and 2 index requests, one at a time of each kind | both rows implement `Lifecycle`; the composition implements `Indexing` |
| `workspace` | 3 users; 4 member requests, or 1 with 2 writes; 2 names; symmetry | `CasesTypeOK`, `OneOwner`, `SerialWritesPermitted`, `OnlyTheRowRead`, `OnlyAskedChanges` |
| `browser_session` | 2 tabs, 4 requests, fair | `OneLiveToken`, `LogoutIsFinal`, `CookieIsUsable`, `RefusedForCause`, `ImplementsSession`, `LoadingEnds` |
| `vault` | 2 uploads, 1 download, limit 3, reads of 2, files of 0 to 5 bytes, fair | `StoredWhole`, `NothingLeftOver`, `Downloadable`, `ImplementsStore`, `UploadEnds` |
| `chunker` | texts of up to 10 words with every choice of boundaries and pages; (size, overlap, minimum) = (5, 3, 2), (4, 1, 3), (3, 0, 2) | `TypeOK`, `NothingLost`, `FewRepeats`, `PagesAreTrue` |
| `workers` | 2 PDFs of 2 or 3 pages with page limit 2, 2 requests, 2 threads, 1 slot of each kind, 3 payload fields, time 2, probe 1, up to 3 jobs, fair | `WorkersTypeOK`, `RecognizedInTime`, `WholeOrFailed`, `LoadedOnce`, `CollectionReady`, `NoDeadlock`, `WorkEnds` |
| `extraction_undone` | 2 requests | violated: a completed extraction is final |
| `search_partial` | 2 requests | violated: partial points stay unsearchable |
| `case_deletion` | 2 writes | violated: deleting a case sets both fields |
| `signed_out` | 1 tab, 4 requests | violated: logout clears the authentication state |

The type invariants of `Extraction`, `Indexing` and `DocumentVault`, `SingleUse` and
`RefreshIsShared` are in no run: they are proved (section 4).

Why the bounds are enough. Requests run once each, so the number of requests bounds how
long a history gets. Extraction needs three: one that fails, and two that then both
pass the unlocked check; with one of the three sent from the page, its POST is
overtaken by GETs and by the work of the others. Which error code is recorded matters
only for being there or not, so one stands for all. `index_search` starts either
without an index or from one whose first attempt failed before it wrote chunks: both
are states of `Indexing`, and from the second two requests are enough to work at once,
while a batch of one point and a text of two chunks give an upsert that is half done.
The same invariants are proved for any number of requests.

In `workspace` four member requests allow to remove and add again while an older
request still holds the row that was removed, with an actor, an administrator
and the owner. Writes of the workspace and its cases meet membership through roles
only, so one member request beside two writes is enough; the two writes give every
race of two copies of one row, and two names a value to lose. The case starts active
there, and with any status in `case_deletion`, which needs one that is already
archived. Descriptions and reference numbers are written like names.

`browser_session` numbers its requests and uses them in order (`InOrder`): they are
interchangeable until they are sent, so this removes only copies of the same behaviour,
and unlike a symmetry set it is sound for liveness. The tabs start alike, so the first
request is sent by the first of them. Four requests allow a login, a refresh in each tab
and a logout, or a refresh that is refused after another tab's, or after a lost reply.
In the vault a limit of 3 with reads of 2 makes the last read before the limit shorter
than a chunk, and files of 0 to 5 bytes cover empty, below, at, and just and far above
the limit; uploads share nothing but a crash, so two suffice. Ten words are two chunks
of the largest size with their overlap, so that cuts, preferred ends, a merged rest and
a run of repeated chunks all occur; the settings have an overlap above the minimum (as
the defaults have), below it, and none.

`workers` has as many threads as jobs that can block one (two PDFs) and up to one job
more: two PDFs that wait for each other's lock and slot in both threads, one PDF beside
two DOCX documents or beside two searches that load the model at once, so that a job
waits for a thread, and any two requests from any state of the collection, where one
creates it under the other or dies between two payload indexes. With two pages any of
them may need OCR, and the time can be up after the first is recognized; three pages are
beyond the limit. A time of 2 runs out in every call. Threads, slots and fields of any
number are in the proofs.

TLC's deadlock check is off: every model stops when its requests are used up or its text or
documents are done. `NoDeadlock` says of `workers` what that check would: that nobody
waits in a circle while something is unfinished.

Fairness. In `extraction`, `index_search` and `vault`, `WF(Progress(r))`, per request:
the event loop resumes a request whose awaited call has answered, and it is assumed
that every awaited call ends, with a result or an error. No request need arrive, no
user need act, and no fault need happen or stop happening; faults and crashes are
outside the fair actions and disable or replace them. The page's timer fires
(`WF(Poll)`), and the network does not fail for ever: a GET that is sent again and
again is served and its reply delivered in the end (`SF(Serve)`, `SF(Deliver)`; weak
fairness would not do, as a lost reply disables them). In the browser session the fair
actions are those the page does by itself: sending the refresh when it loads, the end
of a wait (axios has a 10 s timeout), and the answer or failure of `/me`. In `workers`
the event loop, the threads and the clock go on; a job that is waiting is taken when a
thread stays free; a lock or a slot is taken when it stays free; the model, the vector
store and the parsers answer or fail; a probe or a recognition need not answer at
all before its timeout stops it. `chunker`, `workspace` and `pipeline` state no liveness.

## 4. What is proved

For every value of the constants, so for any number of requests, users, tabs,
documents, texts and sizes. Each proof has the form `Init => Inv`,
`Inv /\ [Next]_vars => Inv'`, `Inv => property`; one step per action.

* **`ExtractionProofs`**, from `ConstantsAssumption`.
  `TypeCorrect`; `SessionInv` says what a request's ORM copy can be at each stage
  (a claimed request holds exactly the pending row, so the columns its next UPDATE
  leaves out are known); with it `InProgressOwned`: whenever the row is in progress
  either the request that wrote it last still owns it or another one does.
  `FirstAttemptIsExclusive` needs `ExclusiveInv`: without a recorded failure every
  request past the check has seen no row, and the unique constraint lets one of them
  write. `CompletedIsKept` follows from it. `SerialRowIsConsistent` needs
  `SerialInv`: the copy of the one busy request is the row.
  `SerialImplementsLifecycle` maps every step of the serial specification to a step of
  `Lifecycle` or a stutter. `PageChangesNothing`: `ExtractionPage` implements
  `Extraction`, so all of this holds beside any page (`PageLeavesRowSound`).
* **`IndexingProofs`**, from `ConstantsAssumption`: `IndexTyped`, `InProgressOwned` and
  `FirstAttemptIsExclusive` with a `SessionInv` and an `ExclusiveInv` as above.
  `ChunksOfOneAttempt` needs `ChunkInv`: what a DELETE has found is one attempt's too,
  and `InsertLeavesOne` shows that the unique constraint refuses an INSERT beside rows
  of another attempt. `CompletedIndexIsComplete` needs `SerialInv`, which says at each
  stage of the one busy request what is in either store: `CutJoins` and `CutCounted`
  are the arithmetic of the batches. `AnswersAreOneIndex` is an action property of the
  search's second read, from `ChunkInv`. `SerialImplementsLifecycle` is the refinement,
  `SearchLeavesIndexSound` carries the invariants over to `IndexSearch`.
* **`PipelineProofs`**, from `PipelineAssumption` and the assumptions of both parts.
  One part is the environment of the other, so what is proved is that the composition
  implements each of them. `ExtractionIsImplemented`: an index request leaves every
  variable of `Extraction` alone, and the common crash is its `Crash`.
  `IndexingImplemented`: what index requests read is a function of the extraction row,
  of the type `Indexing` assumes, and every step of an extraction that changes it is an
  `ExtractionChanges`. The common crash needs `Domains`: where it finds
  no request of a kind at work it must leave that part as it was.
  Through these two every theorem
  about a part holds in the pipeline (`ExtractionStaysSound`, `IndexStaysSound`,
  `ExtractionKeepsLifecycle`, `IndexKeepsLifecycle`): they are instances of the
  theorems above, whose assumptions the pipeline's constants satisfy.
* **`BrowserSessionProofs`**, from `NoTokenAssumption` and `NoTabAssumption`. Of the
  server: the properties
  are not inductive; `Locks` adds that a request holding the row lock is the only one
  and sees a live token, `Rooted`/`RootsExist` that tokens descend from an earlier
  login, `Spent` that the token of a granted refresh or confirmed logout is revoked.
  Results: `SessionNeverSplits`, `TokensAreSingleUse`, `LogoutEndsSession`, and
  `TokensImplementSession`, the refinement of `Session`: the valid tokens of a session
  are the live ones that descend from its login, and the lock makes the three commits
  its only steps.
  Of the browser: each of its steps is a step of `RefreshTokens` or
  a stutter (`BrowserImplementsServer`), so all of that holds for any tabs
  (`BrowserSessionsAreSound`). `CookieStaysUsable` and `RefreshRefusedForCause` are
  about the browser itself and hold under every fault. `Reasons` says of the server that
  a revoked token was exchanged or logged out by a request that named it, and that a
  refused one was of no use. `Undelivered`: no token is in the jar or presented while its
  reply is awaited; `Delivered`: nor is one in the jar that a reply the browser has looked
  at used up; `Calls`: a tab waits for what it sent until it is answered or lost. The hard
  part is `TwinsAgree`: of two refreshes of one tab that present the same token, neither
  lost, if one is granted, the other is neither under way nor refused. The calls of a tab share the refresh under
  way (`RefreshIsShared`, the safety half of `LoadingEnds`), and a granted one replaces
  the cookie before the next is sent. `RefusedWhy` joins the two.
* **`CasesProofs`**, from `CasesAssumption` and the assumption of `Membership`.
  `OwnerStaysAlone` rests on `OwnerUntouched`: no loaded
  request is about the owner, because even the stale copy of the owner's row says
  OWNER. `SerialRequestsPermitted` rests on `Alone`: without overlap the copies are the
  rows. `WritesWhatWasRead` uses that a role exists exactly where a row does. With the
  workspace and the cases, `CasesInv` adds what a session has loaded and asks for
  (`ReqTyped`, `SessionsMatch`), that a created case is there only when its request
  is done (`NewWhenDone`), and `WriteAlone`, the counterpart of `Alone`.
  `MembersAsSpecified` is the refinement of `Membership`; `WritesChangeWhatWasAsked`
  holds for copies of any age.
* **`DocumentVaultProofs`**, from `SizesAssumption`. `ReadSizeBounds` shows that a read
  is empty exactly at the end of the body while the limit is not passed; that one
  extra byte is what makes `VaultStoresWholeFiles` true for all sizes. `DocumentInv`
  states per stage what the stores hold; `OneDocument` carries it over to the
  documents a step does not concern. Results: `UploadsLeaveNothingOver`,
  `DocumentsStayDownloadable`. `VaultImplementsStore` is the refinement of
  `DocumentStore`: a binary counts once there is a row, so that COMMIT is its `Save`.
  Staging, publication and clean-up are stutters, because `Answered` and `Unwound`
  show that an answer never changes to or from success and that only the binary of a
  document in doubt is taken away under its row. `UploadSeen` has the step of one
  document, `SeenIsStep` makes it one of the whole store.
* **`ChunkerProofs`**, from `SettingsAssumption` and `LengthsAssumption`, for texts of
  any length. `ChunkInv` is `Typed`, `Bounded` (sizes), `Linked` (each cut starts where
  the loop's arithmetic puts it), `Cutting` and `Cut` (what holds during and after the
  loop) and `Spread`: the starts of any run of cuts lie as far apart as the run is long.
  `NoWordIsLost` follows from `Linked`, `ChunksAreBounded` from `Bounded`;
  `RepeatsAreFew` needs `Spread`, because chunks that repeat advance their start by one
  word at a time. `LabelsAreTrue`: the pages in effect at the ends of a chunk are the
  last page lines before them (`LeastExists`, `GreatestExists`: a set of places in a
  text has a first and a last one), and without forged lines they are the pages those
  words are on. `LoopMovesOn` has the variant of the loop: each turn moves `start` on
  within the text.
* **`WorkersProofs`**, from `ConstantsAssumption` and `WorkersAssumption`. For
  `PdfOcr`, `OcrInv` adds to the properties that the lock is held exactly by the document
  that probes (`LockHeld`), that free slots
  and the documents at work add up (`SlotsCounted`), which pages a document can still need
  (`PagesOfDocument`), and what each step of the page loop has checked (`Passing`).
  Results: `SlotsAreKept`, `RecognitionIsInTime`, `ExtractionIsWhole`. For `Workers`,
  `Simulates` shows that a step of the threads is a step of `PdfOcr` or leaves it alone,
  and `WorkInv` adds who is in the executor (`DocumentsInThreads`,
  `RequestsInThreads`), the counts of threads and slots, that what a request does is its
  next call (`AtCall`), and what it has found of the collection (`Ensuring`), from which
  `CollectionIsReady` follows: every script ensures before it uses points
  (`ScriptsEnsure`). Results also: `ThreadsAreKept`, `ModelIsLoadedOnce`,
  `ThreadsAreInTime`, `ThreadsExtractWhole`, and `ThreadsNeverDeadlock`: a PDF in a
  thread waits only for the OCR lock or an OCR slot, and whoever has one of those is in
  a thread too and waits for nothing; a request waits for the load lock or an embedding
  slot outside the threads, and when no job is in the executor, nobody holds either.

Model-checked only: the six liveness properties (`InProgressSettles` of both parts,
`PageRefreshes`, `LoadingEnds`, `UploadEnds`, `WorkEnds`), since fairness and ENABLED are
outside the prover. Their safety halves are proved: who is still at work
(`InProgressOwned`), what a page waits for (`RefreshesAreShared`), that nobody
waits in a circle (`ThreadsNeverDeadlock`), that a read that is not the last advances
(`ReadSizeBounds`).

## 5. Where the code and its documentation differ

* A completed extraction can be taken back: the refresh after the commit is inside the
  `try` (`extractions.py:120-121`), and its failure is recorded over the result (`README.md:163`
  calls completed extractions idempotent). The same pattern is in `indexing.py:196`.
* A process that dies during the work leaves `PROCESSING`; nothing takes the row up and
  every later request gets 409 (`extractions.py:57`). The model has this (`Crash`);
  `InProgressSettles` claims an end only while nothing crashes.
* Two retries of a failed index both pass the unlocked check (`indexing.py:76`), and part
  of a completed index can be searchable (`README.md:191` excludes that).
* Deleting a case need not set both fields (`README.md:210`, `cases.py:47-48`): a
  DELETE that loaded the case as ARCHIVED leaves the unchanged status out of its UPDATE,
  and a PATCH that came in between keeps its own.
* A refresh under way when the user signs out is applied afterwards
  (`apiClient.ts:43`).
* Two tabs that refresh at once: `apiClient.ts:39` shares a refresh within one tab only, and
  `auth.py:66` refuses the second presentation of a token, so the tab that comes second is
  signed out although nothing went wrong. The documents describe rotation
  (`docs/architecture.md:28`) and promise nothing for several tabs. `RefusedForCause`
  names this as one of the four reasons a refresh is refused for.
* The time limit of OCR does not cover all it is said to (`README.md:118`,
  `docs/architecture.md:72`): the probe lock is waited for without a timeout, the probe
  then gets what was left before the wait (`tesseract.py:28-31`), and rendering is
  checked only afterwards. `RecognizedInTime` therefore speaks of the slot and the
  recognition.
* `TesseractError` is a `RuntimeError`: a page Tesseract cannot process is reported
  as `OCR_TIMEOUT` (`tesseract.py:120`), and the handler below it is never reached.
* With the default settings (overlap 120, minimum 100) up to 21 chunks in a row can add
  no word to the one before (`deterministic.py:68`); `FewRepeats` is the exact bound. A
  short rest is merged only when the overlap is well below the minimum.
* A line of the document that reads `[Page N]` is taken for a page line
  (`deterministic.py:127`), so labels can be wrong and even decrease, which
  `tests/test_chunking.py:51` excludes. `PagesAreTrue` leaves such texts out.

* An extraction page can stay on "Not extracted" while its own extraction runs: a
  404 read before the POST and delivered after its answer overwrites the cached status
  with null, and null is not polled (`DocumentExtractionPage.tsx:42`). `PageRefreshes`
  claims an end only for a page that shows work in progress.
* PATCH bodies allow `null` for the name of a case or a workspace, a case's status and a
  workspace's `is_active` (`schemas/cases.py`, `schemas/workspaces.py`), whose columns
  refuse it: the commit fails, which the model has as `WriteFails`. PATCH may also set
  `is_active` of a workspace back to true, and no write of cases or members asks
  whether the workspace is active.

Limits of what the properties claim, where the code gives less than one might assume:
`Downloadable` excludes uploads whose commit had an unknown outcome: the handler then
deletes the binary of a row that exists (`documents.py:191`). `NothingLeftOver` excludes
crashes (`documents.py:152`) and failing clean-up, the rollback before it included
(`documents.py:189`): nothing sweeps the leftovers. `SerialWritesPermitted` excludes
overlapping requests: a member promoted to ADMIN between another administrator's read and
delete is removed all the same. `SerialRowConsistent` excludes them too: sessions keep
their copies and write back only what differs (`database.py:37`), so two workers can leave
a row that neither wrote. A failure during the work is recorded on the copy the session
already has, since a rollback without a transaction expires nothing
(`extractions.py:213-215`): the empty text is then no change, and the FAILED row can keep
the text of another worker, as a FAILED index row can keep its count
(`indexing.py:272-277`). In `AnswerIsOneIndex` the clause that an answer comes from one
attempt cannot fail in a run that asks for the top 1; `AnswersAreOneIndex` proves it for any
number.

One abstraction of the browser beside those of section 2: calls that a signed-out tab
still has under way are no longer followed once it logs in again.

## 6. Not modelled, and the plan

Left out for good: configuration, logging, health and migrations
(no state of their own, or run once before start); password hashing, token signing,
filename and MIME checks (pure functions, a choice of outcome in the models);
embedding vectors and scores (an arbitrary order); registration (one INSERT under a
unique e-mail). The other pages show what they have fetched and send one call per form;
the vault's index controls poll as the extraction's do, and one page is modelled
for both.

What could follow, in this order:

1. The index controls of the vault page beside `IndexSearch`, with the index fetched
   only while the extraction is completed.
2. `Cases` as an implementation of an abstract register per row, where the requests
   do not overlap.
3. The deletion of a user's membership beside the vault: today a request keeps the role
   it has read, as in `Membership`, while it streams a whole upload.

## 7. Running the checks

    tlc -workers 2 -config MCExtraction.cfg MCExtraction
    tlapm ExtractionProofs.tla

and likewise for the other `MC*.cfg` and `*Proofs.tla`. The `extraction`,
`index_search`, `pipeline`, `workspace`, `browser_session`, `vault`, `chunker` and
`workers` runs finish without an error; the other four end with the counterexample
described above. `MCExtraction`, `MCIndexSearch`, `MCCases` and `MCBrowserSession` have
a second configuration for those (`MCExtractionUndone.cfg`, `MCIndexSearchPartial.cfg`,
`MCCaseDeletion.cfg`, `MCBrowserSignOut.cfg`).
