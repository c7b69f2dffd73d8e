--------------------------- MODULE ExtractionPage ---------------------------
(***************************************************************************)
(* What a browser shows of the extraction of a document, on the extraction *)
(* page and in the document vault, while the requests of this and of other *)
(* users go on (frontend/src/pages/DocumentExtractionPage.tsx,             *)
(* DocumentVaultPage.tsx and features/documents/extractionApi.ts).         *)
(*                                                                         *)
(* React Query keeps one datum for the two pages, fetched with GET and     *)
(* also set from the answer to POST; a GET under way when that answer      *)
(* arrives is not cancelled.                                               *)
(***************************************************************************)
EXTENDS Extraction

CONSTANT Ours  \* the requests that are sent from this browser

ASSUME OursAssumption == Ours \subseteq Requests

VARIABLES
    shown,   \* the status in the cache: "ABSENT" for null, "UNKNOWN" for undefined
    fetch,   \* the GET under way: "idle", "sent", or the status in its reply
    retried, \* the GET is the second try
    post     \* our request -> "unsent", "pending" or "settled"

page == <<shown, fetch, retried, post>>
pageVars == <<vars, page>>

PageInit ==
    /\ Init
    /\ shown = "UNKNOWN" /\ fetch = "idle" /\ retried = FALSE
    /\ post = [r \in Ours |-> "unsent"]

IsPending == \E r \in Ours : post[r] = "pending"

-----------------------------------------------------------------------------
(* GET *)

Fetch == fetch' = "sent" /\ retried' = FALSE

\* The page is opened, or its window gets the focus: no second GET beside the first.
Mount ==
    /\ fetch = "idle"
    /\ Fetch
    /\ UNCHANGED <<vars, shown, post>>

\* Mutant: a pending extraction is not polled.
Polled_ProcessingOnly(status) == status = "PROCESSING"

\* refetchInterval: 2 s while the cached status is in progress.
Polled(status) == status \in {"PENDING", "PROCESSING"}

Poll ==
    /\ fetch = "idle" /\ Polled(shown)
    /\ Fetch
    /\ UNCHANGED <<vars, shown, post>>

\* The server reads the row: 404 when there is none.
Serve ==
    /\ fetch = "sent"
    /\ fetch' = row.status
    /\ UNCHANGED <<vars, shown, retried, post>>

\* getOrNull: a 404 is null.
Deliver ==
    /\ fetch \in Statuses
    /\ shown' = fetch
    /\ fetch' = "idle"
    /\ UNCHANGED <<vars, retried, post>>

\* The request or its reply is lost, or the server fails: it is tried once more and
\* then given up, and the datum stays.
Lose ==
    /\ fetch # "idle"
    /\ fetch' = IF retried THEN "idle" ELSE "sent"
    /\ retried' = TRUE
    /\ UNCHANGED <<vars, shown, post>>

-----------------------------------------------------------------------------
(* POST *)

\* The button is there for an extraction that is absent or failed, and in the vault
\* after a GET that was given up as well.
Click(r) ==
    /\ ~IsPending /\ post[r] = "unsent"
    /\ shown \in {"ABSENT", "FAILED"} \/ (shown = "UNKNOWN" /\ fetch = "idle")
    /\ post' = [post EXCEPT ![r] = "pending"]
    /\ UNCHANGED <<vars, shown, fetch, retried>>

\* onSuccess: setQueryData.
PostSucceeds(r) ==
    /\ post[r] = "pending" /\ pc[r] \in {"returned", "completed"}
    /\ shown' = session[r].status
    /\ post' = [post EXCEPT ![r] = "settled"]
    /\ UNCHANGED <<vars, fetch, retried>>

\* An error, no answer within two minutes, or no connection.  onError: refetch, which
\* drops a GET under way unless it is the first.
PostFails(r) ==
    /\ post[r] = "pending"
    /\ IF shown = "UNKNOWN" /\ fetch # "idle" THEN UNCHANGED <<fetch, retried>> ELSE Fetch
    /\ post' = [post EXCEPT ![r] = "settled"]
    /\ UNCHANGED <<vars, shown>>

-----------------------------------------------------------------------------
\* The server: a request of ours arrives only after it has been sent, if need be when
\* the browser has given it up.
Server ==
    /\ Next
    /\ \A r \in Ours : post[r] = "unsent" => pc'[r] = pc[r]
    /\ UNCHANGED page

Browser ==
    \/ Mount \/ Poll \/ Serve \/ Deliver \/ Lose
    \/ \E r \in Ours : Click(r) \/ PostSucceeds(r) \/ PostFails(r)

PageNext == Server \/ Browser

PageSpec == PageInit /\ [][PageNext]_pageVars

\* The server goes on as in Extraction.  The page stays open, its timer fires, and the
\* network does not fail forever: a GET that is sent again and again gets through, and
\* so does the reply.
FairPageSpec ==
    /\ PageSpec
    /\ \A r \in Requests : WF_pageVars(Progress(r) /\ UNCHANGED page)
    /\ WF_pageVars(Poll) /\ SF_pageVars(Serve) /\ SF_pageVars(Deliver)

-----------------------------------------------------------------------------
(* Properties *)

\* "Extraction is processing. This page refreshes automatically."
\* (DocumentExtractionPage.tsx:160): when the row has left that state, so does the
\* page, whichever replies were lost, late or overtaken by the answer to a POST.
PageRefreshes ==
    (shown \in InProgress /\ row.status \notin InProgress) ~>
        (shown \notin InProgress \/ row.status \in InProgress)
=============================================================================
