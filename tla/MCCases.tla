------------------------------ MODULE MCCases ------------------------------
EXTENDS Cases, FiniteSets, TLC

CONSTANTS alice, bob, carol

Symmetry ==
    Permutations(Requests) \cup Permutations(Writes) \cup Permutations(Names) \cup
    Permutations(Users \ {Owner})

\* Four requests about members, or one of them and two writes; the case is active.
FewRequestsInit ==
    /\ CasesInit
    /\ row[Case].status = "ACTIVE" /\ row[Case].name = row[Workspace].name
    /\ \/ coming = Requests
       \/ Writes \subseteq coming /\ Cardinality(coming) = 3

FewRequestsSpec == FewRequestsInit /\ [][CasesNext]_cvars

\* Two writes, and a case of whatever status.
WritesSpec == CasesInit /\ coming = Writes /\ [][CasesNext]_cvars
=============================================================================
