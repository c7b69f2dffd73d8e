------------------------------- MODULE Cases -------------------------------
(***************************************************************************)
(* The workspace and its cases, written by CaseService                     *)
(* (backend/app/services/cases.py) and WorkspaceService.update and archive *)
(* (backend/app/services/workspaces.py) while Membership changes the roles *)
(* that permit it.                                                         *)
(*                                                                         *)
(* A request reads the role of its user and the workspace in one SELECT,   *)
(* the case in the next, and the session then updates the columns whose    *)
(* new value differs from the one it has loaded, and no others.            *)
(***************************************************************************)
EXTENDS Membership

CONSTANTS
    Writes,      \* requests that write the workspace or a case
    Workspace,   \* the workspace
    Case,        \* a case that is there from the start
    Names        \* values of name; reference number and description are like it

ASSUME CasesAssumption ==
    /\ Workspace # Case /\ {Workspace, Case} \cap Writes = {}
    /\ Writes \cap Requests = {}
    /\ Names # {}

VARIABLES
    coming,   \* the requests that there will be
    row,      \* the committed rows of the workspace and of the cases
    req,      \* write -> its request and what its session has loaded
    mixed     \* history: a write was under way at once with another request

cvars == <<vars, coming, row, req, mixed>>

Statuses == {"ACTIVE", "CLOSED", "ARCHIVED"}

WorkspaceRows == [is_active : BOOLEAN, name : Names]
CaseRows == [is_active : BOOLEAN, name : Names, status : Statuses]

\* A session that is not open, before the request or after it.
Closed(stage) == [stage |-> stage]

Open == {w \in Writes : req[w].stage \in {"member", "loaded"}}

CasesInit ==
    /\ Init
    /\ coming \in SUBSET (Requests \cup Writes)
    /\ \E n \in Names, c \in CaseRows :
        /\ c.is_active
        /\ row = [x \in {Workspace, Case} |->
                    IF x = Case THEN c ELSE [is_active |-> TRUE, name |-> n]]
    /\ req = [w \in Writes |-> Closed("idle")]
    /\ mixed = FALSE

-----------------------------------------------------------------------------
(* What is asked for *)

WorkspaceOps == {"update_workspace", "archive_workspace"}
CaseOps == {"update_case", "archive_case"}
WriteOps == WorkspaceOps \cup CaseOps \cup {"create_case"}

AllowedTo(o) ==
    CASE o = "archive_workspace" -> {"OWNER"}
      [] o \in {"update_workspace", "archive_case"} -> {"OWNER", "ADMIN"}
      [] OTHER -> {"OWNER", "ADMIN", "MEMBER"}

\* The columns that a request sets, and to what: the fields that were sent of an
\* update, among them is_active of the workspace but not of a case, and what archiving
\* always sets.
Payloads(o) ==
    CASE o = "update_workspace" ->
            {[name |-> n] : n \in Names} \cup {[is_active |-> b] : b \in BOOLEAN} \cup
            WorkspaceRows
      [] o = "archive_workspace" -> {[is_active |-> FALSE]}
      [] o = "archive_case" -> {[is_active |-> FALSE, status |-> "ARCHIVED"]}
      [] o = "update_case" ->
            {[name |-> n] : n \in Names} \cup {[status |-> s] : s \in Statuses} \cup
            [name : Names, status : Statuses]
      [] o = "create_case" -> {c \in CaseRows : c.is_active}

-----------------------------------------------------------------------------
(* Writing the workspace and its cases *)

Close(w, stage) == req' = [req EXCEPT ![w] = Closed(stage)]

\* The SELECT of role and workspace: 404 for a non-member. The role is checked next,
\* unless the case is read first.
Arrive(w, a, o, payload) ==
    /\ req[w].stage = "idle" /\ w \in coming
    /\ IF role[a] = "NONE" \/ (o \notin CaseOps /\ role[a] \notin AllowedTo(o))
       THEN Close(w, "refused")
       ELSE req' = [req EXCEPT ![w] =
              [stage |-> IF o \in CaseOps THEN "member" ELSE "loaded",
               op |-> o, actor |-> a, held |-> role[a], asked |-> payload,
               of |-> Workspace, copy |-> row[Workspace]]]
    /\ mixed' = (mixed \/ Open # {} \/ \E r \in Requests : pc[r] \in {"authorized", "loaded"})
    /\ UNCHANGED <<vars, coming, row>>

\* The case is read, and then the role is checked.
LoadCase(w, c) ==
    /\ req[w].stage = "member"
    /\ IF req[w].held \in AllowedTo(req[w].op)
       THEN req' = [req EXCEPT ![w].stage = "loaded", ![w].of = c, ![w].copy = row[c]]
       ELSE Close(w, "refused")
    /\ UNCHANGED <<vars, coming, row, mixed>>

\* A new case, of whatever status was sent, with an id of its own.
Create(w) ==
    /\ req[w].stage = "loaded" /\ req[w].op = "create_case"
    /\ row' = [x \in DOMAIN row \cup {w} |-> IF x = w THEN req[w].asked ELSE row[x]]
    /\ Close(w, "done")
    /\ UNCHANGED <<vars, coming, mixed>>

\* The columns whose value is not the one that was loaded.
Dirty(w) == {f \in DOMAIN req[w].asked : req[w].asked[f] # req[w].copy[f]}

\* Mutant: the whole row is written back.
Write_WholeRow(w) ==
    /\ req[w].stage = "loaded" /\ req[w].op # "create_case"
    /\ row' = [row EXCEPT ![req[w].of] = [f \in DOMAIN @ |->
                  IF f \in Dirty(w) THEN req[w].asked[f] ELSE req[w].copy[f]]]
    /\ Close(w, "done")
    /\ UNCHANGED <<vars, coming, mixed>>

\* setattr on the loaded row and commit: UPDATE of the dirty columns by id.
Write(w) ==
    /\ req[w].stage = "loaded" /\ req[w].op # "create_case"
    /\ row' = [row EXCEPT ![req[w].of] = [f \in DOMAIN @ |->
                  IF f \in Dirty(w) THEN req[w].asked[f] ELSE @[f]]]
    /\ Close(w, "done")
    /\ UNCHANGED <<vars, coming, mixed>>

\* A query or the commit fails (a null name or status does: both columns refuse it),
\* or the process dies: nothing is written.
WriteFails(w) ==
    /\ w \in Open
    /\ Close(w, "failed")
    /\ UNCHANGED <<vars, coming, row, mixed>>

\* A step of Membership.
Members ==
    /\ \E r \in Requests \cap coming :
        \/ /\ \E a \in Users, o \in Ops : Authorize(r, a, o)
           /\ mixed' = (mixed \/ Open # {})
        \/ /\ \/ \E u \in Users : Load(r, u)
              \/ \E k \in Assignable : Add(r, k) \/ Change(r, k)
              \/ Remove(r) \/ Fails(r)
           /\ UNCHANGED mixed
    /\ UNCHANGED <<coming, row, req>>

CasesNext ==
    \/ Members
    \/ \E w \in Writes :
        \/ \E a \in Users, o \in WriteOps : \E payload \in Payloads(o) :
            Arrive(w, a, o, payload)
        \/ \E c \in DOMAIN row \ {Workspace} : LoadCase(w, c)
        \/ Create(w) \/ Write(w) \/ WriteFails(w)

CasesSpec == CasesInit /\ [][CasesNext]_cvars

-----------------------------------------------------------------------------
(* Properties *)

Loaded(w) == req[w].stage = "loaded"

\* The roles that permit an operation, as the pages have them
\* (frontend/src/features/workspaces/permissions.ts, pages/WorkspaceDetailPage.tsx:111).
MayWrite(a, o) ==
    CASE o = "archive_workspace" -> role[a] = "OWNER"
      [] o \in {"update_workspace", "archive_case"} -> role[a] \in {"OWNER", "ADMIN"}
      [] o \in {"create_case", "update_case"} -> role[a] \in {"OWNER", "ADMIN", "MEMBER"}

\* Types; the workspace stays a workspace and the cases cases, and a request works on
\* the row its operation is about.
CasesTypeOK ==
    /\ TypeOK
    /\ row[Workspace] \in WorkspaceRows
    /\ DOMAIN row \subseteq {Workspace, Case} \cup Writes /\ Case \in DOMAIN row
    /\ \A c \in DOMAIN row \ {Workspace} : row[c] \in CaseRows
    /\ \A w \in Open :
        /\ req[w].op \in WriteOps /\ req[w].actor \in Users
        /\ req[w].asked \in Payloads(req[w].op)
        /\ req[w].of \in DOMAIN row
    /\ \A w \in Writes : Loaded(w) => (req[w].op \in CaseOps <=> req[w].of # Workspace)
    /\ mixed \in BOOLEAN

\* While requests come one at a time, whatever a request is about to write, a
\* membership, the workspace or a case, is permitted by the roles in force.
SerialWritesPermitted ==
    ~mixed =>
        /\ SerialPermitted
        /\ \A w \in Writes : Loaded(w) => MayWrite(req[w].actor, req[w].op)

\* However old its copy of the row is, a request changes the columns it was asked to
\* change and no others, and nothing but archiving changes is_active of a case: two
\* requests for different columns both take effect, and an archived case stays archived.
OnlyAskedChanges ==
    [][\A x \in DOMAIN row : row'[x] # row[x] =>
          \E w \in Writes :
            /\ Loaded(w) /\ req[w].of = x
            /\ \A f \in DOMAIN row[x] : row'[x][f] # row[x][f] =>
                    /\ f \in DOMAIN req[w].asked /\ row'[x][f] = req[w].asked[f]
                    /\ f = "is_active" /\ x # Workspace =>
                        ~row'[x][f] /\ req[w].op = "archive_case"
      ]_cvars

\* "Case deletion is also a soft delete and sets both is_active = false and
\* status = ARCHIVED" (README.md:210).
CaseDeletionArchives ==
    [][\A w \in Writes :
          Loaded(w) /\ req[w].op = "archive_case" /\ req'[w].stage = "done" =>
            /\ ~row'[req[w].of].is_active
            /\ row'[req[w].of].status = "ARCHIVED"]_cvars
=============================================================================
