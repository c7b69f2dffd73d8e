----------------------------- MODULE MCWorkers -----------------------------
EXTENDS Workers

\* A PDF within the page limit, of which any page may need OCR, and one beyond.
TwoOrThree == 2 .. 3

\* One document stands for each: they differ by name only.
OneDocument == CHOOSE d \in Documents : TRUE

\* Two requests of any kind over any collection; or a collection that is there, with
\* two PDFs, or with one PDF and two DOCX documents or two searches.
UpToThreeJobsInit ==
    /\ WorkersInit
    /\ \/ coming = Requests
       \/ /\ collection = "fit" /\ indexes = 1 .. Fields
          /\ \/ coming = Documents /\ todo = [r \in Requests |-> <<"parse">>]
             \/ /\ coming = {OneDocument} \cup Requests
                /\ \E calls \in {<<"parse">>, <<"ensure", "embed", "points">>} :
                      todo = [r \in Requests |-> calls]

FairUpToThreeJobsSpec ==
    UpToThreeJobsInit /\ [][WorkersNext]_wvars /\ WorkersFairness
=============================================================================
