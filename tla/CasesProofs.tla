----------------------------- MODULE CasesProofs -----------------------------
(***************************************************************************)
(* Proofs about Membership and Cases, for any set of users, requests and   *)
(* names.                                                                  *)
(***************************************************************************)
EXTENDS Cases, TLAPS

Past == {"authorized", "loaded"}  \* past the role check, not yet ended

\* The owner acts with the owner's role, and no request gets past the check of a
\* member's row with the owner as its member: the only row with the role OWNER
\* cannot be written.
OwnerUntouched ==
    /\ \A r \in Requests : pc[r] \in Past /\ actor[r] = Owner => held[r] = "OWNER"
    /\ \A r \in Requests : pc[r] = "loaded" => target[r] # Owner

\* A loaded row is the row of the copy: an id if there was a role.
CopiesAreRows ==
    \A r \in Requests :
        /\ pc[r] \in Past => (held[r] = "NONE" <=> heldId[r] = NoRow)
        /\ pc[r] = "loaded" => /\ seen[r] = "NONE" <=> seenId[r] = NoRow
                               /\ op[r] = "add" <=> seen[r] = "NONE"

\* As long as no two requests have overlapped, the one under way works on the roles
\* as they are, and they permit what it does.
Alone ==
    ~overlap =>
        \A r \in Requests : pc[r] \in Past =>
            /\ \A s \in Requests \ {r} : pc[s] \notin Past
            /\ held[r] = role[actor[r]] /\ heldId[r] = rowId[actor[r]]
            /\ held[r] \in Allowed(op[r])
            /\ pc[r] = "loaded" => Permitted(actor[r], op[r], target[r])

\* The inductive invariant.
MemberInv == TypeOK /\ OneOwner /\ OwnerUntouched /\ CopiesAreRows /\ Alone

-----------------------------------------------------------------------------
\* A new workspace satisfies the invariant: nobody has asked for anything.
LEMMA InitInv == Init => MemberInv
<1> SUFFICES ASSUME Init PROVE MemberInv
    OBVIOUS
<1> USE ConstantsAssumption DEF Init
<1>1. TypeOK
    BY DEF TypeOK, Roles, Assignable, Ops, Ids
<1>2. OneOwner
    BY DEF OneOwner
<1>3. \A r \in Requests : pc[r] \notin Past
    BY DEF Past
<1>4. OwnerUntouched /\ CopiesAreRows /\ Alone
    BY <1>3 DEF OwnerUntouched, CopiesAreRows, Alone, Past
<1> QED
    BY <1>1, <1>2, <1>4 DEF MemberInv

\* The role check keeps the invariant: the one action that lets requests overlap.
LEMMA AuthorizeInv ==
    ASSUME MemberInv, NEW r \in Requests, NEW a \in Users, NEW o \in Ops,
           Authorize(r, a, o)
    PROVE  MemberInv'
<1> USE ConstantsAssumption DEF Authorize, MemberInv, Goto
<1>1. TypeOK'
    BY DEF TypeOK, Roles, Allowed
<1>2. OneOwner'
    BY DEF OneOwner
<1>3. OwnerUntouched'
    BY DEF OwnerUntouched, Past, TypeOK, OneOwner, Allowed
<1>4. CopiesAreRows'
    BY DEF CopiesAreRows, Past, TypeOK
<1>5. Alone'
    <2> SUFFICES ASSUME ~overlap' PROVE Alone'
        BY DEF Alone
    <2>1. \A s \in Requests : pc[s] \notin Past
        BY DEF Past
    <2>2. \A s \in Requests \ {r} : pc'[s] \notin Past
        BY <2>1 DEF TypeOK
    <2>3. pc'[r] \in Past => role[a] \in Allowed(o) /\ pc'[r] = "authorized"
        BY DEF TypeOK, Past
    <2>4. /\ held'[r] = role'[actor'[r]] /\ heldId'[r] = rowId'[actor'[r]]
          /\ held'[r] = role[a] /\ op'[r] = o
        BY DEF TypeOK
    <2> QED
        BY <2>2, <2>3, <2>4 DEF Alone, Past
<1> QED
    BY <1>1, <1>2, <1>3, <1>4, <1>5

\* Reading the member's row keeps the invariant: the row that is accepted is never
\* the owner's.
LEMMA LoadInv ==
    ASSUME MemberInv, NEW r \in Requests, NEW u \in Users, Load(r, u)
    PROVE  MemberInv'
<1> USE ConstantsAssumption DEF Load, MemberInv, Goto
<1>1. TypeOK'
    BY DEF TypeOK, Copy
<1>2. OneOwner'
    BY DEF OneOwner
<1>3. u = Owner => Copy(r, u) = "OWNER"
    BY DEF Copy, OneOwner, OwnerUntouched, Past, TypeOK
<1>4. Accepts(r, u, Copy(r, u)) => u # Owner
    BY <1>3 DEF Accepts, TypeOK, Ops
<1>5. OwnerUntouched'
    BY <1>4 DEF OwnerUntouched, Past, TypeOK
<1>6. Accepts(r, u, Copy(r, u)) => (op[r] = "add" <=> Copy(r, u) = "NONE")
    BY DEF Accepts, TypeOK, Ops
<1>7. Copy(r, u) = "NONE" <=> rowId[u] = NoRow
    BY DEF Copy, TypeOK, CopiesAreRows, Past
<1>8. CopiesAreRows'
    BY <1>6, <1>7 DEF CopiesAreRows, Past, TypeOK
<1>9. Alone'
    <2> SUFFICES ASSUME ~overlap PROVE Alone'
        BY DEF Alone
    <2>1. /\ \A s \in Requests \ {r} : pc[s] \notin Past
          /\ held[r] = role[actor[r]] /\ heldId[r] = rowId[actor[r]]
          /\ held[r] \in Allowed(op[r])
        BY DEF Alone, Past
    <2>2. Copy(r, u) = role[u]
        BY <2>1 DEF Copy
    <2>3. Accepts(r, u, role[u]) => Permitted(actor[r], op[r], u)
        BY <2>1, <1>4, <2>2 DEF Accepts, Permitted, Allowed, TypeOK, Ops
    <2>4. pc'[r] = "loaded" => Permitted(actor[r], op[r], u)
        BY <2>2, <2>3 DEF TypeOK
    <2>5. ASSUME pc'[r] = "loaded"
          PROVE  Permitted(actor[r], op[r], target[r])'
        <3>1. target'[r] = u /\ op[r] \in Ops
            BY DEF TypeOK
        <3> QED
            BY <2>4, <2>5, <3>1 DEF Permitted, Ops
    <2>6. ASSUME NEW s \in Requests, pc'[s] \in Past PROVE s = r
        BY <2>1, <2>6 DEF TypeOK
    <2> QED
        BY <2>1, <2>5, <2>6 DEF Alone, Past
<1> QED
    BY <1>1, <1>2, <1>5, <1>8, <1>9

\* A request that ends keeps the invariant if what it writes is a role that may be
\* assigned, or none, for a user who is not the owner.
LEMMA EndInv ==
    ASSUME MemberInv, NEW r \in Requests, pc[r] \in Past,
           NEW end \in {"done", "refused", "failed"}, Goto(r, end),
           UNCHANGED <<copies, overlap>>, TypeOK',
           \A u \in Users : role'[u] # role[u] =>
               u # Owner /\ role'[u] \in Assignable \cup {"NONE"}
    PROVE  MemberInv'
<1> USE ConstantsAssumption DEF MemberInv, Goto, copies
<1>1. OneOwner'
    BY DEF OneOwner, Assignable
<1>2. OwnerUntouched'
    BY DEF OwnerUntouched, Past, TypeOK
<1>3. CopiesAreRows'
    BY DEF CopiesAreRows, Past, TypeOK
<1>4. Alone'
    BY DEF Alone, Past, TypeOK
<1> QED
    BY <1>1, <1>2, <1>3, <1>4

\* Every step keeps the invariant.
LEMMA StepInv == MemberInv /\ [Next]_vars => MemberInv'
<1> SUFFICES ASSUME MemberInv, [Next]_vars PROVE MemberInv'
    OBVIOUS
<1> USE ConstantsAssumption
<1>1. ASSUME NEW r \in Requests, NEW a \in Users, NEW o \in Ops, Authorize(r, a, o)
      PROVE  MemberInv'
    BY <1>1, AuthorizeInv
<1>2. ASSUME NEW r \in Requests, NEW u \in Users, Load(r, u)
      PROVE  MemberInv'
    BY <1>2, LoadInv
<1>3. ASSUME NEW r \in Requests, NEW k \in Assignable, Add(r, k)
      PROVE  MemberInv'
    <2>1. TypeOK' /\ target[r] # Owner
        BY <1>3 DEF Add, Goto, MemberInv, TypeOK, OwnerUntouched, Roles, Ids, copies,
                    Assignable
    <2>2. \A u \in Users : role'[u] # role[u] => u = target[r] /\ role'[u] = k
        BY <1>3 DEF Add, MemberInv, TypeOK
    <2> QED
        BY <1>3, <2>1, <2>2, EndInv DEF Add, Past
<1>4. ASSUME NEW r \in Requests, NEW k \in Assignable, Change(r, k)
      PROVE  MemberInv'
    <2>1. target[r] # Owner /\ (rowId[target[r]] = seenId[r] => role[target[r]] # "NONE")
        BY <1>4 DEF Change, MemberInv, TypeOK, OwnerUntouched, CopiesAreRows
    <2>2. TypeOK'
        BY <1>4, <2>1 DEF Change, Goto, MemberInv, TypeOK, Roles, copies, Assignable
    <2>3. \A u \in Users : role'[u] # role[u] => u = target[r] /\ role'[u] = k
        BY <1>4 DEF Change, MemberInv, TypeOK
    <2> QED
        BY <1>4, <2>1, <2>2, <2>3, EndInv DEF Change, Past
<1>5. ASSUME NEW r \in Requests, Remove(r)
      PROVE  MemberInv'
    <2>1. TypeOK' /\ target[r] # Owner
        BY <1>5 DEF Remove, Goto, MemberInv, TypeOK, OwnerUntouched, Ids, copies
    <2>2. \A u \in Users : role'[u] # role[u] => u = target[r] /\ role'[u] = "NONE"
        BY <1>5 DEF Remove, MemberInv, TypeOK
    <2> QED
        BY <1>5, <2>1, <2>2, EndInv DEF Remove, Past
<1>6. ASSUME NEW r \in Requests, Fails(r)
      PROVE  MemberInv'
    <2>1. TypeOK'
        BY <1>6 DEF Fails, Goto, MemberInv, TypeOK, copies
    <2> QED
        BY <1>6, <2>1, EndInv DEF Fails, Past
<1>7. CASE UNCHANGED vars
    <2>1. TypeOK' /\ OneOwner' /\ OwnerUntouched' /\ CopiesAreRows'
        BY <1>7 DEF vars, copies, MemberInv, TypeOK, OneOwner, OwnerUntouched,
                    CopiesAreRows
    <2>2. Alone'
        BY <1>7 DEF vars, copies, MemberInv, Alone, Permitted
    <2> QED
        BY <2>1, <2>2 DEF MemberInv
<1> QED
    BY <1>1, <1>2, <1>3, <1>4, <1>5, <1>6, <1>7 DEF Next

\* The invariant holds in every reachable state.
LEMMA Invariance == Spec => []MemberInv
BY InitInv, StepInv, PTL DEF Spec

-----------------------------------------------------------------------------
\* Type correctness, and a role if and only if a row, in every reachable state.
THEOREM MembersTyped == Spec => []TypeOK
BY Invariance, PTL DEF MemberInv

\* The owner is never removed or demoted, and nobody else becomes an owner, however
\* many requests race.
THEOREM OwnerStaysAlone == Spec => []OneOwner
BY Invariance, PTL DEF MemberInv

\* Requests that come one at a time do only what the roles in force permit.
THEOREM SerialRequestsPermitted == Spec => []SerialPermitted
<1>1. MemberInv => SerialPermitted
    BY DEF MemberInv, Alone, SerialPermitted, Past
<1> QED
    BY <1>1, Invariance, PTL

\* No request writes a membership it has not read.
THEOREM WritesWhatWasRead == Spec => OnlyTheRowRead
<1> DEFINE Kept == \A u \in Users : role'[u] # role[u] =>
                       \E r \in Requests :
                           /\ pc[r] = "loaded" /\ target[r] = u
                           /\ rowId[u] = seenId[r]
<1>1. MemberInv /\ [Next]_vars => [Kept]_vars
    <2> SUFFICES ASSUME MemberInv, Next PROVE Kept
        OBVIOUS
    <2>1. ASSUME NEW r \in Requests, NEW k \in Assignable, Add(r, k) PROVE Kept
        BY <2>1 DEF Add, MemberInv, TypeOK, CopiesAreRows
    <2>2. ASSUME NEW r \in Requests, NEW k \in Assignable, Change(r, k) PROVE Kept
        BY <2>2 DEF Change, MemberInv, TypeOK
    <2>3. ASSUME NEW r \in Requests, Remove(r) PROVE Kept
        BY <2>3 DEF Remove, MemberInv, TypeOK
    <2> QED
        BY <2>1, <2>2, <2>3 DEF Next, Authorize, Load, Fails
<1> QED
    BY <1>1, Invariance, PTL DEF Spec, OnlyTheRowRead

-----------------------------------------------------------------------------
(* The workspace and its cases *)

Sessions ==
    [stage : {"member", "loaded"}, op : WriteOps, actor : Users, held : Roles,
     asked : UNION {Payloads(o) : o \in WriteOps}, of : {Workspace, Case} \cup Writes,
     copy : UNION {WorkspaceRows, CaseRows}]

\* The rows are what they are rows of.
RowsTyped ==
    /\ DOMAIN row \subseteq {Workspace, Case} \cup Writes
    /\ Workspace \in DOMAIN row /\ Case \in DOMAIN row
    /\ row = [x \in DOMAIN row |-> row[x]]
    /\ row[Workspace] \in WorkspaceRows
    /\ \A c \in DOMAIN row \ {Workspace} : row[c] \in CaseRows

ReqTyped ==
    /\ req \in [Writes -> Sessions \cup
                         {Closed(stage) : stage \in {"idle", "refused", "done", "failed"}}]
    /\ mixed \in BOOLEAN

\* What a session asks for is what its operation may ask for, of the row it is about;
\* past the role check the role it has read permits it.
SessionsMatch ==
    \A w \in Open :
        /\ req[w].asked \in Payloads(req[w].op)
        /\ req[w].of \in DOMAIN row
        /\ Loaded(w) =>
            /\ req[w].op \in CaseOps <=> req[w].of # Workspace
            /\ req[w].held \in AllowedTo(req[w].op)
        /\ ~Loaded(w) => req[w].op \in CaseOps

\* A case that a request has created is there only when the request is done.
NewWhenDone == \A w \in Writes : w \in DOMAIN row => req[w].stage = "done"

\* A write that has not overlapped with another request works on the roles as they are.
WriteAlone ==
    ~mixed =>
        \A w \in Open :
            /\ \A v \in Open : v = w
            /\ \A r \in Requests : pc[r] \notin Past
            /\ req[w].held = role[req[w].actor]

\* The inductive invariant, with the one of the members.
CasesInv ==
    MemberInv /\ RowsTyped /\ ReqTyped /\ SessionsMatch /\ NewWhenDone /\ WriteAlone

\* The constants, one by one.
LEMMA CasesLimits ==
    /\ Workspace # Case /\ Workspace \notin Writes /\ Case \notin Writes
    /\ Writes \cap Requests = {}
BY CasesAssumption

\* A new workspace with a new case satisfies the invariant.
LEMMA CasesInitInv == CasesInit => CasesInv
<1> SUFFICES ASSUME CasesInit PROVE CasesInv
    OBVIOUS
<1> USE CasesLimits DEF CasesInit
<1>1. MemberInv
    BY InitInv
<1>2. PICK n \in Names, c \in CaseRows :
        /\ c.is_active
        /\ row = [x \in {Workspace, Case} |->
                    IF x = Case THEN c ELSE [is_active |-> TRUE, name |-> n]]
    OBVIOUS
<1>3. RowsTyped
    BY <1>2 DEF RowsTyped, WorkspaceRows
<1>4. ReqTyped
    BY DEF ReqTyped, Closed
<1>5. Open = {}
    BY DEF Open, Closed
<1>6. SessionsMatch /\ WriteAlone
    BY <1>5 DEF SessionsMatch, WriteAlone
<1>7. NewWhenDone
    BY <1>2 DEF NewWhenDone
<1> QED
    BY <1>1, <1>3, <1>4, <1>6, <1>7 DEF CasesInv

\* A closed session is not open.
LEMMA CloseInv ==
    ASSUME CasesInv, NEW w \in Writes, NEW stage \in {"refused", "done", "failed"},
           Close(w, stage)
    PROVE  /\ req' \in [Writes -> Sessions \cup
                         {Closed(s) : s \in {"idle", "refused", "done", "failed"}}]
           /\ Open' = Open \ {w}
           /\ \A v \in Writes \ {w} : req'[v] = req[v]
<1>1. req \in [Writes -> Sessions \cup
                {Closed(s) : s \in {"idle", "refused", "done", "failed"}}]
    BY DEF CasesInv, ReqTyped
<1>2. req' = [req EXCEPT ![w] = Closed(stage)] /\ Closed(stage).stage = stage
    BY DEF Close, Closed
<1>3. Closed(stage) \in {Closed(s) : s \in {"idle", "refused", "done", "failed"}}
    OBVIOUS
<1> QED
    BY <1>1, <1>2, <1>3 DEF Open, CasesInv

\* A step of the members leaves the rows and the sessions of the others alone.
LEMMA MembersStep ==
    ASSUME CasesInv, Members PROVE CasesInv'
<1> USE CasesLimits
<1>1. Next
    BY DEF Members, Next
<1>2. MemberInv'
    BY <1>1, StepInv DEF CasesInv
<1>3. UNCHANGED <<row, req>> /\ mixed' \in BOOLEAN
    BY DEF Members, CasesInv, ReqTyped
<1>4. RowsTyped' /\ ReqTyped' /\ SessionsMatch' /\ NewWhenDone'
    BY <1>3 DEF CasesInv, RowsTyped, ReqTyped, SessionsMatch, NewWhenDone, Open, Loaded
<1>5. WriteAlone'
    <2>1. ASSUME NEW r \in Requests, NEW a \in Users, NEW o \in Ops, Authorize(r, a, o),
                 mixed' = (mixed \/ Open # {})
          PROVE  WriteAlone'
        BY <1>3, <2>1 DEF WriteAlone, Open
    <2>2. ASSUME NEW r \in Requests, pc[r] \in Past, UNCHANGED mixed
          PROVE  WriteAlone'
        <3>1. mixed \/ Open = {}
            BY <2>2 DEF CasesInv, WriteAlone
        <3> QED
            BY <1>3, <2>2, <3>1 DEF WriteAlone, Open
    <2>3. PICK r \in Requests :
            \/ \E a \in Users, o \in Ops : Authorize(r, a, o) /\ mixed' = (mixed \/ Open # {})
            \/ pc[r] \in Past /\ UNCHANGED mixed
        BY DEF Members, Load, Add, Change, Remove, Fails, Past
    <2> QED
        BY <2>1, <2>2, <2>3
<1> QED
    BY <1>2, <1>4, <1>5 DEF CasesInv

\* A write leaves the members alone.
LEMMA MembersKept ==
    ASSUME CasesInv, UNCHANGED vars PROVE MemberInv'
BY StepInv DEF CasesInv

\* A session that is closed without a write leaves everything else as it is.
LEMMA CloseStep ==
    ASSUME CasesInv, NEW w \in Writes, NEW stage \in {"refused", "done", "failed"},
           Close(w, stage), UNCHANGED vars, RowsTyped',
           req[w].stage # "done",
           \/ DOMAIN row' = DOMAIN row
           \/ DOMAIN row' = DOMAIN row \cup {w} /\ stage = "done",
           mixed' \in BOOLEAN, mixed => mixed'
    PROVE  CasesInv'
<1> USE CasesLimits
<1>1. MemberInv'
    BY MembersKept
<1>2. /\ Open' = Open \ {w}
      /\ \A v \in Writes \ {w} : req'[v] = req[v]
    BY CloseInv
<1>3. ReqTyped'
    BY CloseInv DEF ReqTyped
<1>4. SessionsMatch'
    BY <1>2 DEF SessionsMatch, CasesInv, Loaded, Open
<1>5. WriteAlone'
    BY <1>2 DEF WriteAlone, CasesInv, vars, Open
<1>6. NewWhenDone'
    <2>1. req'[w].stage = stage
        BY DEF Close, Closed, CasesInv, ReqTyped
    <2> QED
        BY <1>2, <2>1 DEF NewWhenDone, CasesInv
<1> QED
    BY <1>1, <1>3, <1>4, <1>5, <1>6 DEF CasesInv

\* A request that arrives keeps the invariant.
LEMMA ArriveStep ==
    ASSUME CasesInv, NEW w \in Writes, NEW a \in Users, NEW o \in WriteOps,
           NEW payload \in Payloads(o), Arrive(w, a, o, payload)
    PROVE  CasesInv'
<1> USE CasesLimits
<1>1. /\ UNCHANGED vars /\ row' = row /\ mixed' \in BOOLEAN /\ (mixed => mixed')
      /\ req[w].stage = "idle"
    BY DEF Arrive, CasesInv, ReqTyped
<1>2. RowsTyped'
    BY <1>1 DEF CasesInv, RowsTyped
<1>3. CASE Close(w, "refused")
    BY <1>1, <1>2, <1>3, CloseStep
<1>4. CASE ~Close(w, "refused")
    <2> DEFINE session == [stage |-> IF o \in CaseOps THEN "member" ELSE "loaded",
                           op |-> o, actor |-> a, held |-> role[a], asked |-> payload,
                           of |-> Workspace, copy |-> row[Workspace]]
    <2>1. /\ req' = [req EXCEPT ![w] = session]
          /\ role[a] # "NONE" /\ (o \notin CaseOps => role[a] \in AllowedTo(o))
        BY <1>4 DEF Arrive
    <2>2. role[a] \in Roles /\ payload \in UNION {Payloads(q) : q \in WriteOps}
        BY <2>1 DEF CasesInv, MemberInv, TypeOK
    <2>3. session \in Sessions
        BY <2>2 DEF Sessions, CasesInv, RowsTyped
    <2>4. /\ session.stage = (IF o \in CaseOps THEN "member" ELSE "loaded")
          /\ session.op = o /\ session.actor = a /\ session.held = role[a]
          /\ session.asked = payload /\ session.of = Workspace
        OBVIOUS
    <2> HIDE DEF session
    <2>5. ReqTyped'
        BY <1>1, <2>1, <2>3 DEF CasesInv, ReqTyped
    <2>6. Open' = Open \cup {w} /\ (\A v \in Writes \ {w} : req'[v] = req[v]) /\ req'[w] = session
        BY <2>1, <2>4 DEF Open, CasesInv, ReqTyped
    <2>7. SessionsMatch'
        BY <1>1, <2>1, <2>4, <2>6 DEF SessionsMatch, CasesInv, Loaded, RowsTyped, Open
    <2>8. WriteAlone'
        <3>1. ASSUME ~mixed'
              PROVE  Open = {} /\ \A r \in Requests : pc[r] \notin Past
            BY <3>1 DEF Arrive, Past
        <3> QED
            BY <1>1, <2>4, <2>6, <3>1 DEF WriteAlone, vars
    <2>9. NewWhenDone'
        BY <1>1, <2>1, <2>6 DEF NewWhenDone, CasesInv
    <2> QED
        BY <1>1, <1>2, <2>5, <2>7, <2>8, <2>9, MembersKept DEF CasesInv
<1> QED
    BY <1>3, <1>4

\* Reading the case keeps the invariant.
LEMMA LoadCaseStep ==
    ASSUME CasesInv, NEW w \in Writes, NEW c \in DOMAIN row \ {Workspace}, LoadCase(w, c)
    PROVE  CasesInv'
<1> USE CasesLimits
<1>1. UNCHANGED <<vars, row, mixed>> /\ req[w].stage # "done"
    BY DEF LoadCase
<1>2. RowsTyped' /\ mixed' \in BOOLEAN
    BY <1>1 DEF CasesInv, RowsTyped, ReqTyped
<1>3. CASE Close(w, "refused")
    BY <1>1, <1>2, <1>3, CloseStep
<1>4. CASE ~Close(w, "refused")
    <2> DEFINE session == [req[w] EXCEPT !.stage = "loaded", !.of = c, !.copy = row[c]]
    <2>1. req[w].stage = "member" /\ w \in Open /\ req[w].held \in AllowedTo(req[w].op)
        BY <1>4 DEF LoadCase, Open
    <2>2. req[w] \in Sessions
        BY <2>1 DEF CasesInv, ReqTyped, Closed
    <2>3. /\ session \in Sessions
          /\ session.stage = "loaded" /\ session.of = c /\ session.op = req[w].op
          /\ session.actor = req[w].actor /\ session.held = req[w].held
          /\ session.asked = req[w].asked
        BY <2>2 DEF Sessions, CasesInv, RowsTyped
    <2>4. req' = [req EXCEPT ![w] = session]
        BY <1>4, <2>1 DEF LoadCase
    <2> HIDE DEF session
    <2>5. ReqTyped'
        BY <1>1, <2>3, <2>4 DEF CasesInv, ReqTyped
    <2>6. Open' = Open /\ (\A v \in Writes \ {w} : req'[v] = req[v]) /\ req'[w] = session
        BY <2>1, <2>3, <2>4 DEF Open, CasesInv, ReqTyped
    <2>7. SessionsMatch'
        BY <1>1, <2>1, <2>3, <2>6 DEF SessionsMatch, CasesInv, Loaded, Open
    <2>8. WriteAlone'
        BY <1>1, <2>1, <2>3, <2>6 DEF WriteAlone, CasesInv, vars, Open
    <2>9. NewWhenDone'
        BY <1>1, <2>1, <2>6 DEF NewWhenDone, CasesInv
    <2> QED
        BY <1>1, <1>2, <2>5, <2>7, <2>8, <2>9, MembersKept DEF CasesInv
<1> QED
    BY <1>3, <1>4

\* A new case is a case.
LEMMA CreateStep ==
    ASSUME CasesInv, NEW w \in Writes, Create(w) PROVE CasesInv'
<1> USE CasesLimits
<1>1. /\ row' = [x \in DOMAIN row \cup {w} |-> IF x = w THEN req[w].asked ELSE row[x]]
      /\ w \in Open /\ req[w].op = "create_case" /\ Close(w, "done") /\ UNCHANGED <<vars, mixed>>
    BY DEF Create, Open
<1>2. req[w].asked \in CaseRows
    BY <1>1 DEF CasesInv, SessionsMatch, Payloads
<1>3. RowsTyped'
    BY <1>1, <1>2 DEF CasesInv, RowsTyped
<1> QED
    BY <1>1, <1>3, CloseStep DEF CasesInv, ReqTyped, Open

\* A write of the workspace leaves a workspace and one of a case a case.
LEMMA WriteStep ==
    ASSUME CasesInv, NEW w \in Writes, Write(w) PROVE CasesInv'
<1> USE CasesLimits
<1> DEFINE x == req[w].of
           new == [f \in DOMAIN row[x] |-> IF f \in Dirty(w) THEN req[w].asked[f] ELSE row[x][f]]
<1>1. /\ w \in Open /\ Loaded(w) /\ req[w].op # "create_case" /\ Close(w, "done")
      /\ row' = [row EXCEPT ![x] = new] /\ UNCHANGED <<vars, mixed>>
    BY DEF Write, Open, Loaded
<1>2. /\ x \in DOMAIN row /\ req[w].asked \in Payloads(req[w].op)
      /\ req[w].op \in CaseOps <=> x # Workspace
    BY <1>1 DEF CasesInv, SessionsMatch
<1>3. req[w].op \in WriteOps
    <2>1. req[w] \in Sessions
        BY <1>1 DEF CasesInv, ReqTyped, Closed, Open
    <2> QED
        BY <2>1 DEF Sessions
<1>4. CASE x = Workspace
    <2>1. \/ \E n \in Names : req[w].asked = [name |-> n]
          \/ \E b \in BOOLEAN : req[w].asked = [is_active |-> b]
          \/ req[w].asked \in WorkspaceRows
        BY <1>1, <1>2, <1>3, <1>4 DEF Payloads, WriteOps, WorkspaceOps, CaseOps
    <2>2. row[x] \in WorkspaceRows
        BY <1>4 DEF CasesInv, RowsTyped
    <2>3. /\ DOMAIN new = {"is_active", "name"} /\ new = [f \in {"is_active", "name"} |-> new[f]]
          /\ row[x].is_active \in BOOLEAN /\ row[x].name \in Names
        BY <2>2 DEF WorkspaceRows
    <2>4. new.is_active \in BOOLEAN /\ new.name \in Names
        <3>1. \A f \in Dirty(w) : f \in DOMAIN req[w].asked
            BY DEF Dirty
        <3>2. CASE \E n \in Names : req[w].asked = [name |-> n]
            <4>1. "is_active" \notin Dirty(w) /\ req[w].asked.name \in Names
                BY <3>1, <3>2
            <4> QED
                BY <2>3, <4>1
        <3>3. CASE \E b \in BOOLEAN : req[w].asked = [is_active |-> b]
            <4>1. "name" \notin Dirty(w) /\ req[w].asked.is_active \in BOOLEAN
                BY <3>1, <3>3
            <4> QED
                BY <2>3, <4>1
        <3>4. CASE req[w].asked \in WorkspaceRows
            <4>1. req[w].asked.is_active \in BOOLEAN /\ req[w].asked.name \in Names
                BY <3>4 DEF WorkspaceRows
            <4> QED
                BY <2>3, <4>1
        <3> QED
            BY <2>1, <3>2, <3>3, <3>4
    <2>5. new \in WorkspaceRows
        BY <2>3, <2>4 DEF WorkspaceRows
    <2> QED
        BY <1>1, <1>2, <1>4, <2>5, CloseStep DEF CasesInv, RowsTyped, ReqTyped, Loaded
<1>5. CASE x # Workspace
    <2>1. \/ \E n \in Names : req[w].asked = [name |-> n]
          \/ \E s \in Statuses : req[w].asked = [status |-> s]
          \/ \E n \in Names, s \in Statuses : req[w].asked = [name |-> n, status |-> s]
          \/ req[w].asked = [is_active |-> FALSE, status |-> "ARCHIVED"]
        BY <1>2, <1>5 DEF Payloads, CaseOps
    <2>2. row[x] \in CaseRows
        BY <1>2, <1>5 DEF CasesInv, RowsTyped
    <2>3. /\ DOMAIN new = {"is_active", "name", "status"}
          /\ new = [f \in {"is_active", "name", "status"} |-> new[f]]
          /\ row[x].is_active \in BOOLEAN /\ row[x].name \in Names /\ row[x].status \in Statuses
        BY <2>2 DEF CaseRows
    <2>4. /\ \A f \in Dirty(w) : f \in DOMAIN req[w].asked
          /\ "is_active" \in DOMAIN req[w].asked => req[w].asked.is_active \in BOOLEAN
          /\ "name" \in DOMAIN req[w].asked => req[w].asked.name \in Names
          /\ "status" \in DOMAIN req[w].asked => req[w].asked.status \in Statuses
        <3>1. \A f \in Dirty(w) : f \in DOMAIN req[w].asked
            BY DEF Dirty
        <3>2. CASE \E n \in Names : req[w].asked = [name |-> n]
            BY <3>1, <3>2
        <3>3. CASE \E t \in Statuses : req[w].asked = [status |-> t]
            BY <3>1, <3>3
        <3>4. CASE \E n \in Names, t \in Statuses : req[w].asked = [name |-> n, status |-> t]
            BY <3>1, <3>4
        <3>5. CASE req[w].asked = [is_active |-> FALSE, status |-> "ARCHIVED"]
            BY <3>1, <3>5 DEF Statuses
        <3> QED
            BY <2>1, <3>2, <3>3, <3>4, <3>5
    <2>5. new.is_active \in BOOLEAN /\ new.name \in Names /\ new.status \in Statuses
        BY <2>3, <2>4
    <2>6. new \in CaseRows
        BY <2>3, <2>5 DEF CaseRows
    <2> QED
        BY <1>1, <1>2, <1>5, <2>6, CloseStep DEF CasesInv, RowsTyped, ReqTyped, Loaded
<1> QED
    BY <1>4, <1>5

\* A request that fails keeps the invariant.
LEMMA WriteFailsStep ==
    ASSUME CasesInv, NEW w \in Writes, WriteFails(w) PROVE CasesInv'
<1>1. Close(w, "failed") /\ req[w].stage # "done" /\ UNCHANGED <<vars, row, mixed>>
    BY DEF WriteFails, Open
<1>2. RowsTyped' /\ mixed' \in BOOLEAN
    BY <1>1 DEF CasesInv, RowsTyped, ReqTyped
<1> QED
    BY <1>1, <1>2, CloseStep

\* Every step keeps the invariant.
LEMMA CasesStep == CasesInv /\ [CasesNext]_cvars => CasesInv'
<1> SUFFICES ASSUME CasesInv, [CasesNext]_cvars PROVE CasesInv'
    OBVIOUS
<1>1. CASE CasesNext
    BY <1>1, MembersStep, ArriveStep, LoadCaseStep, CreateStep, WriteStep,
       WriteFailsStep
       DEF CasesNext
<1>2. CASE UNCHANGED cvars
    <2>1. UNCHANGED <<vars, row, req, mixed>>
        BY <1>2 DEF cvars
    <2> QED
        BY <2>1, MembersKept DEF CasesInv, RowsTyped, ReqTyped, SessionsMatch,
           NewWhenDone, WriteAlone, Open, Loaded, vars
<1> QED
    BY <1>1, <1>2

\* The invariant holds whatever members, workspace and cases go through.
LEMMA CasesInvHolds == CasesSpec => []CasesInv
BY CasesInitInv, CasesStep, PTL DEF CasesSpec

-----------------------------------------------------------------------------
\* Rows and requests keep their types, for any number of requests.
THEOREM CasesTyped == CasesSpec => []CasesTypeOK
<1>1. CasesInv => CasesTypeOK
    <2> SUFFICES ASSUME CasesInv PROVE CasesTypeOK
        OBVIOUS
    <2>1. \A w \in Open : req[w].op \in WriteOps /\ req[w].actor \in Users
        BY DEF Open, CasesInv, ReqTyped, Closed, Sessions
    <2>2. \A w \in Writes : Loaded(w) => w \in Open
        BY DEF Loaded, Open
    <2> QED
        BY <2>1, <2>2 DEF CasesInv, MemberInv, RowsTyped, ReqTyped, SessionsMatch,
           CasesTypeOK
<1> QED
    BY <1>1, CasesInvHolds, PTL

\* The owner stays the only owner beside any writes.
THEOREM OwnerStaysWithCases == CasesSpec => []OneOwner
<1>1. CasesInv => OneOwner
    BY DEF CasesInv, MemberInv
<1> QED
    BY <1>1, CasesInvHolds, PTL

\* Requests that come one at a time write only what the roles in force permit.
THEOREM SerialWritesArePermitted == CasesSpec => []SerialWritesPermitted
<1>1. CasesInv => SerialWritesPermitted
    <2> SUFFICES ASSUME CasesInv, ~mixed PROVE SerialWritesPermitted
        BY DEF SerialWritesPermitted
    <2>1. SerialPermitted
        BY DEF CasesInv, MemberInv, Alone, SerialPermitted, Past
    <2>2. ASSUME NEW w \in Writes, Loaded(w)
          PROVE  MayWrite(req[w].actor, req[w].op)
        <3>1. w \in Open
            BY <2>2 DEF Loaded, Open
        <3>2. role[req[w].actor] \in AllowedTo(req[w].op)
            BY <2>2, <3>1 DEF CasesInv, SessionsMatch, WriteAlone
        <3>3. req[w].op \in WriteOps
            BY <3>1 DEF Open, CasesInv, ReqTyped, Closed, Sessions
        <3> QED
            BY <3>2, <3>3 DEF AllowedTo, MayWrite, WriteOps, WorkspaceOps, CaseOps
    <2> QED
        BY <2>1, <2>2 DEF SerialWritesPermitted
<1> QED
    BY <1>1, CasesInvHolds, PTL

\* For any number of requests, a write changes what it was asked to change.
THEOREM WritesChangeWhatWasAsked == CasesSpec => OnlyAskedChanges
<1> DEFINE Asked == \A x \in DOMAIN row : row'[x] # row[x] =>
          \E w \in Writes :
            /\ Loaded(w) /\ req[w].of = x
            /\ \A f \in DOMAIN row[x] : row'[x][f] # row[x][f] =>
                    /\ f \in DOMAIN req[w].asked /\ row'[x][f] = req[w].asked[f]
                    /\ f = "is_active" /\ x # Workspace =>
                        ~row'[x][f] /\ req[w].op = "archive_case"
<1>1. CasesInv /\ [CasesNext]_cvars => [Asked]_cvars
    <2> SUFFICES ASSUME CasesInv, CasesNext PROVE Asked
        OBVIOUS
    <2>1. CASE row' = row
        BY <2>1
    <2>2. ASSUME NEW w \in Writes, Create(w) PROVE Asked
        <3>1. w \notin DOMAIN row
            BY <2>2 DEF Create, CasesInv, NewWhenDone
        <3> QED
            BY <2>2, <3>1 DEF Create
    <2>3. ASSUME NEW w \in Writes, Write(w) PROVE Asked
        <3> DEFINE x == req[w].of
        <3>1. /\ Loaded(w) /\ w \in Open /\ req[w].op # "create_case"
              /\ row' = [row EXCEPT ![x] = [f \in DOMAIN row[x] |->
                          IF f \in Dirty(w) THEN req[w].asked[f] ELSE row[x][f]]]
            BY <2>3 DEF Write, Loaded, Open
        <3>2. /\ x \in DOMAIN row /\ req[w].asked \in Payloads(req[w].op)
              /\ req[w].op \in WriteOps
            BY <3>1 DEF CasesInv, SessionsMatch, ReqTyped, Closed, Sessions, Open
        <3>3. \A z \in DOMAIN row : z # x => row'[z] = row[z]
            BY <3>1
        <3>4. \A f \in DOMAIN row[x] : row'[x][f] # row[x][f] =>
                f \in DOMAIN req[w].asked /\ row'[x][f] = req[w].asked[f]
            BY <3>1, <3>2 DEF Dirty
        <3>5. "is_active" \in DOMAIN req[w].asked /\ x # Workspace =>
                req[w].op = "archive_case" /\ req[w].asked["is_active"] = FALSE
            <4>1. req[w].op \in CaseOps <=> x # Workspace
                BY <3>1 DEF CasesInv, SessionsMatch
            <4> QED
                BY <3>1, <3>2, <4>1 DEF Payloads, CaseOps
        <3> QED
            BY <3>1, <3>3, <3>4, <3>5
    <2> QED
        BY <2>1, <2>2, <2>3 DEF CasesNext, Members, Arrive, LoadCase, WriteFails
<1> QED
    BY <1>1, CasesInvHolds, PTL DEF CasesSpec, OnlyAskedChanges

\* The members are written as Membership has it, whatever is written beside them: the
\* module with the cases implements the one without.
THEOREM MembersAsSpecified == CasesSpec => Spec
<1>1. CasesInit => Init
    BY DEF CasesInit
<1>2. [CasesNext]_cvars => [Next]_vars
    BY DEF CasesNext, Members, Arrive, LoadCase, Create, Write, WriteFails, Next, cvars
<1> QED
    BY <1>1, <1>2, PTL DEF CasesSpec, Spec

\* No request writes a membership it has not read, whatever is written beside it.
THEOREM OnlyTheRowIsWritten == CasesSpec => OnlyTheRowRead
BY MembersAsSpecified, WritesWhatWasRead
=============================================================================
