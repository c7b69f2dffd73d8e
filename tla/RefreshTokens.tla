--------------------------- MODULE RefreshTokens ---------------------------
(***************************************************************************)
(* The refresh sessions of one user: AuthService.login, refresh and logout *)
(* (backend/app/services/auth.py) over the refresh_tokens table.           *)
(*                                                                         *)
(* A request that issues a token inserts one row with a fresh jti, so the  *)
(* token is named by that request.  refresh and logout SELECT the row of   *)
(* the token they present FOR UPDATE and keep that lock to their commit.   *)
(***************************************************************************)
EXTENDS Naturals

CONSTANTS
    Requests,  \* requests, and the tokens they issue
    NoToken    \* no token: a missing cookie, or nothing presented

ASSUME NoTokenAssumption == NoToken \notin Requests

VARIABLES
    kind,       \* request -> the operation asked for
    presented,  \* request -> the token it presents
    pc,         \* request -> how far its handler got
    row,        \* token -> its committed refresh_tokens row
    root,       \* history: token -> the token of the login it descends from
    expired     \* tokens whose expires_at has passed

serverVars == <<kind, presented, pc, row, root, expired>>

Kinds == {"login", "refresh", "logout"}
Tokens == Requests \cup {NoToken}

Init ==
    /\ kind = [r \in Requests |-> "login"]
    /\ presented = [r \in Requests |-> NoToken]
    /\ pc = [r \in Requests |-> "idle"]
    /\ row = [t \in Requests |-> "absent"]
    /\ root = [t \in Requests |-> NoToken]
    /\ expired = {}

Valid(t) == t # NoToken /\ row[t] = "live" /\ t \notin expired

\* A client sends request r; it has only tokens that were issued before.
Send(r, k, t) ==
    /\ pc[r] = "idle"
    /\ t \in {NoToken} \cup {u \in Requests : k # "login" /\ row[u] # "absent"}
    /\ kind' = [kind EXCEPT ![r] = k]
    /\ presented' = [presented EXCEPT ![r] = t]
    /\ pc' = [pc EXCEPT ![r] = "sent"]
    /\ UNCHANGED <<row, root, expired>>

\* The password is right: a new session with its first token.
Login(r) ==
    /\ pc[r] = "sent" /\ kind[r] = "login"
    /\ row' = [row EXCEPT ![r] = "live"]
    /\ root' = [root EXCEPT ![r] = r]
    /\ pc' = [pc EXCEPT ![r] = "granted"]
    /\ UNCHANGED <<kind, presented, expired>>

\* Mutant: the row is read without FOR UPDATE.
Lookup_NoLock(r) ==
    /\ pc[r] = "sent" /\ kind[r] # "login"
    /\ pc' = [pc EXCEPT ![r] = IF Valid(presented[r]) THEN "locked" ELSE "refused"]
    /\ UNCHANGED <<kind, presented, row, root, expired>>

\* The row of the presented token is locked, when no other request has it locked,
\* and checked; 401 when there is no token, or a revoked or expired one.
Lookup(r) ==
    /\ pc[r] = "sent" /\ kind[r] # "login"
    /\ ~\E s \in Requests : pc[s] = "locked" /\ presented[s] = presented[r]
    /\ pc' = [pc EXCEPT ![r] = IF Valid(presented[r]) THEN "locked" ELSE "refused"]
    /\ UNCHANGED <<kind, presented, row, root, expired>>

\* Mutant: the token that was exchanged stays valid.
Rotate_KeepsOld(r) ==
    /\ pc[r] = "locked" /\ kind[r] = "refresh"
    /\ row' = [row EXCEPT ![r] = "live"]
    /\ root' = [root EXCEPT ![r] = root[presented[r]]]
    /\ pc' = [pc EXCEPT ![r] = "granted"]
    /\ UNCHANGED <<kind, presented, expired>>

\* refresh commits: the presented token is revoked, its successor inserted.
Rotate(r) ==
    /\ pc[r] = "locked" /\ kind[r] = "refresh"
    /\ row' = [row EXCEPT ![presented[r]] = "revoked", ![r] = "live"]
    /\ root' = [root EXCEPT ![r] = root[presented[r]]]
    /\ pc' = [pc EXCEPT ![r] = "granted"]
    /\ UNCHANGED <<kind, presented, expired>>

\* logout commits.
Revoke(r) ==
    /\ pc[r] = "locked" /\ kind[r] = "logout"
    /\ row' = [row EXCEPT ![presented[r]] = "revoked"]
    /\ pc' = [pc EXCEPT ![r] = "loggedOut"]
    /\ UNCHANGED <<kind, presented, root, expired>>

\* Wrong password, inactive user, a database error, or the process dies: the
\* transaction is rolled back and its lock released.
Fails(r) ==
    /\ pc[r] \in {"sent", "locked"}
    /\ pc' = [pc EXCEPT ![r] = "error"]
    /\ UNCHANGED <<kind, presented, row, root, expired>>

\* expires_at of a token passes.
Expire(t) ==
    /\ row[t] = "live" /\ t \notin expired
    /\ expired' = expired \cup {t}
    /\ UNCHANGED <<kind, presented, pc, row, root>>

Handle(r) == Login(r) \/ Lookup(r) \/ Rotate(r) \/ Revoke(r)

Next ==
    \/ \E r \in Requests, k \in Kinds, t \in Tokens : Send(r, k, t)
    \/ \E r \in Requests : Handle(r) \/ Fails(r)
    \/ \E t \in Requests : Expire(t)

Spec == Init /\ [][Next]_serverVars

-----------------------------------------------------------------------------
(* Properties *)

\* Every variable stays in its type.
TypeOK ==
    /\ kind \in [Requests -> Kinds]
    /\ presented \in [Requests -> Tokens]
    /\ pc \in [Requests -> {"idle", "sent", "locked", "granted", "loggedOut",
                            "refused", "error"}]
    /\ row \in [Requests -> {"absent", "live", "revoked"}]
    /\ root \in [Requests -> Tokens]
    /\ expired \subseteq Requests

\* However refreshes and logouts of one session race, the session never splits:
\* at most one of the tokens that descend from a login can still be used.
OneLiveToken ==
    \A a, b \in Requests :
        row[a] = "live" /\ row[b] = "live" /\ root[a] = root[b] => a = b

\* A refresh token is exchanged at most once, by whichever request locks it first.
SingleUse ==
    \A r, s \in Requests :
        /\ pc[r] = "granted" /\ kind[r] = "refresh"
        /\ pc[s] = "granted" /\ kind[s] = "refresh"
        /\ presented[r] = presented[s]
        => r = s

\* A logout that was answered with 204 ended its session: no token of that session
\* can be used any more, not even one that a racing refresh was given.
LogoutIsFinal ==
    \A r, t \in Requests :
        pc[r] = "loggedOut" /\ row[t] = "live" => root[t] # root[presented[r]]

-----------------------------------------------------------------------------
(* Refinement *)

Issued == {t \in Requests : row[t] # "absent"}
LiveTokens(s) == {t \in Requests : row[t] = "live" /\ root[t] = s}

Promise == INSTANCE Session
    WITH Tokens <- Requests, issued <- Issued,
         valid <- [s \in Requests |-> LiveTokens(s)]

\* However logins, refreshes and logouts interleave, each session is a single line
\* of tokens that ends for good: every step is one of Session's.
ImplementsSession == Promise!Spec
=============================================================================
