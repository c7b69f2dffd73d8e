CONSTANTS
    alice = alice
    bob = bob
    carol = carol
    Users = {alice, bob, carol}
    Owner = alice
    Requests = {r1, r2, r3, r4}
    NoRow = norow
    First = first
    Writes = {w1, w2}
    Workspace = workspace
    Case = case
    Names = {n1, n2}
SYMMETRY Symmetry
SPECIFICATION FewRequestsSpec
INVARIANTS
    CasesTypeOK
    OneOwner
    SerialWritesPermitted
PROPERTIES
    OnlyTheRowRead
    OnlyAskedChanges
CHECK_DEADLOCK FALSE
