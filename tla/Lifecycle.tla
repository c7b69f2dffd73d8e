----------------------------- MODULE Lifecycle -----------------------------
(***************************************************************************)
(* The promise behind every document_extractions and document_indexes row: *)
(* PENDING -> PROCESSING -> COMPLETED or FAILED, a failed row reset and     *)
(* reused by the next request.  `final` says that a completed row will not *)
(* be taken back any more; the code can take one back only until the       *)
(* request that completed it has refreshed it.                             *)
(***************************************************************************)
CONSTANT Renewable  \* a final result may be recomputed (a stale index)

VARIABLES status, final

lifecycle == <<status, final>>

Init == status = "ABSENT" /\ final = FALSE

Claim ==
    /\ status \in {"ABSENT", "FAILED"} \/ (Renewable /\ status = "COMPLETED" /\ final)
    /\ status' = "PENDING"
    /\ final' = FALSE

Start == status = "PENDING" /\ status' = "PROCESSING" /\ UNCHANGED final

Succeed == status = "PROCESSING" /\ status' = "COMPLETED" /\ UNCHANGED final

Settle == status = "COMPLETED" /\ final' = TRUE /\ UNCHANGED status

Fail ==
    /\ status = "PROCESSING" \/ (status = "COMPLETED" /\ ~final)
    /\ status' = "FAILED"
    /\ UNCHANGED final

Next == Claim \/ Start \/ Succeed \/ Settle \/ Fail

Spec == Init /\ [][Next]_lifecycle
=============================================================================
