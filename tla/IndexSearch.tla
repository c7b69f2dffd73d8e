---------------------------- MODULE IndexSearch ----------------------------
(***************************************************************************)
(* The semantic search of one workspace over the index of a document       *)
(* (backend/app/services/search.py): it asks Qdrant first and PostgreSQL   *)
(* afterwards, while index requests go on.                                 *)
(***************************************************************************)
EXTENDS Indexing

CONSTANT TopK  \* top_k of the search

ASSUME TopKAssumption == TopK \in Nat \ {0}

VARIABLES
    hits,   \* points got from Qdrant and not yet verified
    answer  \* chunks returned by the last search

searchVars == <<extracted, row, chunks, points, jobs, overlap, hits, answer>>

SearchInit == Init /\ hits = {} /\ answer = {}

\* The nearest 3 * TopK points, in whatever order the scores put them.
SearchPoints ==
    /\ hits = {}
    /\ hits' \in SUBSET points
    /\ Cardinality(hits') = Least(3 * TopK, Cardinality(points))
    /\ UNCHANGED <<vars, answer>>

\* The collection, the embedding or the query fails (503), or the process dies.
SearchFails ==
    /\ hits' = {}
    /\ UNCHANGED <<vars, answer>>

\* Mutant: the extraction hash of the payload is not compared.
Canonical_AnyText(p) == p \in chunks /\ row.status = "COMPLETED"

\* Hit p is canonical: a chunk row has its id and its content hash, the index
\* row of the document is completed, and the payload names the extraction hash
\* that the index row names.
Canonical(p) ==
    /\ p \in chunks
    /\ row.status = "COMPLETED"
    /\ p.text = row.source

\* One SQL statement reads chunks and index; at most TopK hits pass.
SearchRows ==
    /\ hits # {}
    /\ LET canonical == {p \in hits : Canonical(p)}
       IN /\ answer' \in SUBSET canonical
          /\ Cardinality(answer') = Least(TopK, Cardinality(canonical))
    /\ hits' = {}
    /\ UNCHANGED vars

SearchNext ==
    \/ Next /\ UNCHANGED <<hits, answer>>
    \/ SearchPoints
    \/ SearchFails
    \/ SearchRows

SearchSpec == SearchInit /\ [][SearchNext]_searchVars

-----------------------------------------------------------------------------
(* Properties *)

\* An answer is made of chunks of one attempt, cut from the very text that the
\* completed index row names when the rows are read, whatever Qdrant holds and
\* whatever is reindexed between the two reads.
AnswerIsOneIndex ==
    [][answer' # answer =>
          /\ row.status = "COMPLETED" \/ answer' = {}
          /\ \A a, b \in answer' : a.by = b.by /\ a.text = row.source]_searchVars

\* "Partial/stale Qdrant points remain unsearchable": a chunk of a completed
\* index can be found only if all of them can.
SearchableAsAWhole ==
    row.status = "COMPLETED" =>
        {p \in points : Canonical(p)} \in {{}, chunks}
=============================================================================
