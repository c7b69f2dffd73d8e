----------------------------- MODULE Membership -----------------------------
(***************************************************************************)
(* The members of one workspace: WorkspaceService.add_member,              *)
(* change_member_role and remove_member (backend/app/services/workspaces.py)*)
(* behind the role check of backend/app/security/authorization.py.         *)
(*                                                                         *)
(* A request reads the role of its user first, then the row of the member  *)
(* it is about, and writes last: three statements of one session, and no   *)
(* lock.  Every insert makes a row with an id of its own, named here by    *)
(* the request.                                                            *)
(***************************************************************************)
EXTENDS Naturals

CONSTANTS
    Users,
    Owner,     \* the user who created the workspace
    Requests,
    NoRow,     \* id of a row that does not exist
    First      \* id of the row inserted with the workspace

ASSUME ConstantsAssumption ==
    /\ Owner \in Users
    /\ NoRow # First
    /\ {NoRow, First} \cap Requests = {}

VARIABLES
    role,    \* user -> role in the committed workspace_members row, or "NONE"
    rowId,   \* user -> id of that row
    op,      \* request -> what it asks for
    actor,   \* request -> the user it comes from
    held,    \* request -> the role of that user, as its session has loaded it
    heldId,  \* request -> the id of that row
    target,  \* request -> the member it is about
    seen,    \* request -> the role of that member, as its session has loaded it
    seenId,  \* request -> the id of that row
    pc,      \* request -> how far it got
    overlap  \* history: two requests were past the role check at once

copies == <<op, actor, held, heldId, target, seen, seenId>>
vars == <<role, rowId, copies, pc, overlap>>

Assignable == {"ADMIN", "MEMBER", "VIEWER"}  \* OWNER is refused by the schemas
Roles == Assignable \cup {"OWNER"}
Ops == {"add", "change", "remove"}
Ids == Requests \cup {NoRow, First}

Goto(r, stage) == pc' = [pc EXCEPT ![r] = stage]

-----------------------------------------------------------------------------
\* The workspace and the membership of its owner are committed together.
Init ==
    /\ role = [u \in Users |-> IF u = Owner THEN "OWNER" ELSE "NONE"]
    /\ rowId = [u \in Users |-> IF u = Owner THEN First ELSE NoRow]
    /\ op = [r \in Requests |-> "add"]
    /\ actor = [r \in Requests |-> Owner] /\ target = [r \in Requests |-> Owner]
    /\ held = [r \in Requests |-> "NONE"] /\ seen = [r \in Requests |-> "NONE"]
    /\ heldId = [r \in Requests |-> NoRow] /\ seenId = [r \in Requests |-> NoRow]
    /\ pc = [r \in Requests |-> "idle"]
    /\ overlap = FALSE

Allowed(o) == IF o = "change" THEN {"OWNER"} ELSE {"OWNER", "ADMIN"}

\* Request r of user a arrives: 404 for a non-member, 403 for another role.
Authorize(r, a, o) ==
    /\ pc[r] = "idle"
    /\ op' = [op EXCEPT ![r] = o]
    /\ actor' = [actor EXCEPT ![r] = a]
    /\ held' = [held EXCEPT ![r] = role[a]]
    /\ heldId' = [heldId EXCEPT ![r] = rowId[a]]
    /\ Goto(r, IF role[a] \in Allowed(o) THEN "authorized" ELSE "refused")
    /\ overlap' = (overlap \/ \E s \in Requests : pc[s] \in {"authorized", "loaded"})
    /\ UNCHANGED <<role, rowId, target, seen, seenId>>

\* What the session of r has of u's row after the SELECT: a row it loaded before
\* stays as it was loaded.
Copy(r, u) == IF u = actor[r] /\ rowId[u] = heldId[r] THEN held[r] ELSE role[u]

\* Mutant: administrators may remove anybody but the owner.
Accepts_AnyAdmin(r, u, copy) ==
    IF op[r] = "add" THEN copy = "NONE" ELSE copy \notin {"NONE", "OWNER"}

\* add wants no row; the others want one that is not the owner's, and an
\* administrator removes members and viewers only.
Accepts(r, u, copy) ==
    CASE op[r] = "add"    -> copy = "NONE"
      [] op[r] = "change" -> copy \notin {"NONE", "OWNER"}
      [] op[r] = "remove" -> /\ copy \notin {"NONE", "OWNER"} /\ u # Owner
                             /\ held[r] = "ADMIN" => copy \in {"MEMBER", "VIEWER"}

\* Mutant: the owner's row is a row like any other.
Load_AnyRow(r, u) ==
    /\ pc[r] = "authorized"
    /\ target' = [target EXCEPT ![r] = u]
    /\ seen' = [seen EXCEPT ![r] = Copy(r, u)]
    /\ seenId' = [seenId EXCEPT ![r] = rowId[u]]
    /\ Goto(r, IF op[r] = "add" <=> Copy(r, u) = "NONE" THEN "loaded" ELSE "refused")
    /\ UNCHANGED <<role, rowId, op, actor, held, heldId, overlap>>

\* The member's row is read and checked.
Load(r, u) ==
    /\ pc[r] = "authorized"
    /\ target' = [target EXCEPT ![r] = u]
    /\ seen' = [seen EXCEPT ![r] = Copy(r, u)]
    /\ seenId' = [seenId EXCEPT ![r] = rowId[u]]
    /\ Goto(r, IF Accepts(r, u, Copy(r, u)) THEN "loaded" ELSE "refused")
    /\ UNCHANGED <<role, rowId, op, actor, held, heldId, overlap>>

\* INSERT; UNIQUE(workspace_id, user_id) turns a second one into a 409.
Add(r, k) ==
    /\ pc[r] = "loaded" /\ op[r] = "add"
    /\ IF role[target[r]] = "NONE"
       THEN /\ role' = [role EXCEPT ![target[r]] = k]
            /\ rowId' = [rowId EXCEPT ![target[r]] = r]
            /\ Goto(r, "done")
       ELSE Goto(r, "refused") /\ UNCHANGED <<role, rowId>>
    /\ UNCHANGED <<copies, overlap>>

\* UPDATE by row id, unless the role is the one loaded; no such row: 500.
Change(r, k) ==
    /\ pc[r] = "loaded" /\ op[r] = "change"
    /\ IF rowId[target[r]] = seenId[r]
       THEN /\ role' = [role EXCEPT ![target[r]] = IF k = seen[r] THEN @ ELSE k]
            /\ Goto(r, "done")
       ELSE Goto(r, "failed") /\ UNCHANGED role
    /\ UNCHANGED <<rowId, copies, overlap>>

\* Mutant: whatever row the user has by now is deleted.
Remove_ByUser(r) ==
    /\ pc[r] = "loaded" /\ op[r] = "remove"
    /\ role' = [role EXCEPT ![target[r]] = "NONE"]
    /\ rowId' = [rowId EXCEPT ![target[r]] = NoRow]
    /\ Goto(r, "done")
    /\ UNCHANGED <<copies, overlap>>

\* Mutant: the row is kept and only loses its role.
Remove_Soft(r) ==
    /\ pc[r] = "loaded" /\ op[r] = "remove"
    /\ role' = [role EXCEPT ![target[r]] = "NONE"]
    /\ Goto(r, "done")
    /\ UNCHANGED <<rowId, copies, overlap>>

\* DELETE by row id, whatever the role is by now; no such row: a warning.
Remove(r) ==
    /\ pc[r] = "loaded" /\ op[r] = "remove"
    /\ IF rowId[target[r]] = seenId[r]
       THEN /\ role' = [role EXCEPT ![target[r]] = "NONE"]
            /\ rowId' = [rowId EXCEPT ![target[r]] = NoRow]
       ELSE UNCHANGED <<role, rowId>>
    /\ Goto(r, "done")
    /\ UNCHANGED <<copies, overlap>>

\* A query or the commit fails, or the process dies: nothing is written.
Fails(r) ==
    /\ pc[r] \in {"authorized", "loaded"}
    /\ Goto(r, "failed")
    /\ UNCHANGED <<role, rowId, copies, overlap>>

Next ==
    \E r \in Requests :
        \/ \E a \in Users, o \in Ops : Authorize(r, a, o)
        \/ \E u \in Users : Load(r, u)
        \/ \E k \in Assignable : Add(r, k) \/ Change(r, k)
        \/ Remove(r)
        \/ Fails(r)

Spec == Init /\ [][Next]_vars

-----------------------------------------------------------------------------
(* Properties *)

\* Every variable stays in its type, and a user has a role if and only if the user
\* has a row.
TypeOK ==
    /\ role \in [Users -> Roles \cup {"NONE"}]
    /\ rowId \in [Users -> Ids]
    /\ op \in [Requests -> Ops]
    /\ actor \in [Requests -> Users] /\ target \in [Requests -> Users]
    /\ held \in [Requests -> Roles \cup {"NONE"}]
    /\ seen \in [Requests -> Roles \cup {"NONE"}]
    /\ heldId \in [Requests -> Ids] /\ seenId \in [Requests -> Ids]
    /\ pc \in [Requests -> {"idle", "authorized", "loaded", "done", "refused",
                            "failed"}]
    /\ overlap \in BOOLEAN
    /\ \A u \in Users : role[u] = "NONE" <=> rowId[u] = NoRow

\* "An owner cannot be removed or demoted", and nobody else becomes one: whatever
\* stale roles the requests act on.
OneOwner == \A u \in Users : role[u] = "OWNER" <=> u = Owner

\* The rules of the membership API, for the roles as they are now.
Permitted(a, o, u) ==
    CASE o = "add"    -> role[a] \in {"OWNER", "ADMIN"}
      [] o = "change" -> role[a] = "OWNER" /\ u # Owner
      [] o = "remove" -> \/ role[a] = "OWNER" /\ u # Owner
                         \/ role[a] = "ADMIN" /\ role[u] \in {"MEMBER", "VIEWER"}

\* While requests come one at a time, whatever a request is about to write is
\* permitted by the roles that hold when it writes it.
SerialPermitted ==
    ~overlap => \A r \in Requests :
        pc[r] = "loaded" => Permitted(actor[r], op[r], target[r])

\* A request that passed the role check can still be without effect, but it never
\* acts on the membership that replaced the one it has read.
OnlyTheRowRead ==
    [][\A u \in Users : role'[u] # role[u] =>
          \E r \in Requests :
              /\ pc[r] = "loaded" /\ target[r] = u
              /\ rowId[u] = seenId[r]]_vars
=============================================================================
