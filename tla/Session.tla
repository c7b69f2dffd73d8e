------------------------------ MODULE Session ------------------------------
(***************************************************************************)
(* What the refresh tokens of a user promise: a session, named by the      *)
(* token of its login, has one valid token from the login to the logout,   *)
(* each refresh replaces it by one never issued before, and a closed       *)
(* session stays closed.                                                   *)
(***************************************************************************)
CONSTANT Tokens

VARIABLES
    issued,  \* tokens handed out so far
    valid    \* session -> the tokens that continue it

sessions == <<issued, valid>>

Init == issued = {} /\ valid = [s \in Tokens |-> {}]

Open(s) ==
    /\ s \notin issued
    /\ issued' = issued \cup {s}
    /\ valid' = [valid EXCEPT ![s] = {s}]

Renew(s, t) ==
    /\ \E u \in Tokens : valid[s] = {u}
    /\ t \notin issued
    /\ issued' = issued \cup {t}
    /\ valid' = [valid EXCEPT ![s] = {t}]

Close(s) ==
    /\ valid[s] # {}
    /\ valid' = [valid EXCEPT ![s] = {}]
    /\ UNCHANGED issued

Next == \E s \in Tokens : Open(s) \/ Close(s) \/ \E t \in Tokens : Renew(s, t)

Spec == Init /\ [][Next]_sessions
=============================================================================
