--------------------------- MODULE MCIndexSearch ---------------------------
EXTENDS IndexSearch, TLC

CONSTANTS short, long

MCChunkCount == (short :> 1) @@ (long :> 2)

\* No index yet, or one whose first attempt failed before it stored any chunk (a
\* failed query): from there two requests are enough to work at once.
FirstOrRetryInit ==
    /\ extracted \in Texts
    /\ row \in {NoRow, [status |-> "FAILED", count |-> 0, source |-> extracted,
                        error |-> CHOOSE code \in ErrorCodes : TRUE]}
    /\ chunks = {} /\ points = {}
    /\ session = [r \in Requests |-> NoRow]
    /\ text = [r \in Requests |-> NoText]
    /\ old = [r \in Requests |-> {}]
    /\ sent = [r \in Requests |-> 0]
    /\ pc = [r \in Requests |-> "idle"]
    /\ overlap = FALSE
    /\ hits = {} /\ answer = {}

FirstOrRetrySpec == FirstOrRetryInit /\ [][SearchNext]_searchVars

FairFirstOrRetrySpec ==
    FirstOrRetrySpec /\ \A r \in Requests : WF_vars(Progress(r))
=============================================================================
