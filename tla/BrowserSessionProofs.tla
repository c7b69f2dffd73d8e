------------------------ MODULE BrowserSessionProofs ------------------------
(***************************************************************************)
(* Proofs about RefreshTokens, for any number of requests, then about the  *)
(* tabs of BrowserSession over it.                                         *)
(*                                                                         *)
(* OneLiveToken is not inductive: it rests on the row lock (Locks), on     *)
(* what a granted or confirmed request has made of the token it presented  *)
(* (Spent), and on every row having a login to descend from (Rooted).      *)
(*                                                                         *)
(* Whatever the tabs of a browser do, the server sees requests that        *)
(* RefreshTokens allows, so what is proved there holds here.  What the     *)
(* browser itself promises rests on why the server refuses (Reasons), on   *)
(* which tokens the jar can hold (Undelivered, Delivered), and on a tab    *)
(* never having two refreshes of one token under way (TwinsAgree).         *)
(***************************************************************************)
EXTENDS BrowserSession, TLAPS

(* The server *)

\* A row exists only for a request that was granted it; its root is a request.
Rooted ==
    \A t \in Requests :
        row[t] # "absent" => pc[t] = "granted" /\ root[t] \in Requests

\* A locked token is live, and one request has it locked.
Locks ==
    \A r \in Requests : pc[r] = "locked" =>
        /\ kind[r] # "login"
        /\ presented[r] \in Requests
        /\ row[presented[r]] = "live"
        /\ \A s \in Requests :
              pc[s] = "locked" /\ presented[s] = presented[r] => s = r

\* The token of a granted refresh or of a confirmed logout is revoked.
Spent ==
    \A r \in Requests :
        \/ pc[r] = "granted" /\ kind[r] = "refresh"
        \/ pc[r] = "loggedOut"
        => presented[r] \in Requests /\ row[presented[r]] = "revoked"

\* Login tokens start sessions of their own: no root names a later request.
RootsExist ==
    \A t \in Requests : row[t] # "absent" => row[root[t]] # "absent"

\* The inductive invariant.
Inv ==
    /\ TypeOK
    /\ Rooted
    /\ RootsExist
    /\ Locks
    /\ Spent
    /\ OneLiveToken
    /\ SingleUse
    /\ LogoutIsFinal

-----------------------------------------------------------------------------
\* No token and no request: the invariant holds at the start.
LEMMA InvInit == Init => Inv
  BY DEF Init, Inv, TypeOK, Rooted, RootsExist, Locks, Spent, OneLiveToken,
         SingleUse, LogoutIsFinal, Kinds, Tokens

\* Nothing changes, and nothing of the invariant.
LEMMA InvStutter == Inv /\ UNCHANGED serverVars => Inv'
  BY DEF serverVars, Inv, TypeOK, Rooted, RootsExist, Locks, Spent, OneLiveToken,
         SingleUse, LogoutIsFinal

-----------------------------------------------------------------------------
(* Steps that write no row: only the lock and the outcomes can be disturbed. *)

\* A request that arrives holds no lock and has a token that was issued, or none.
LEMMA InvSend ==
    ASSUME Inv, NEW r \in Requests, NEW k \in Kinds, NEW t \in Tokens, Send(r, k, t)
    PROVE  Inv'
<1> USE DEF Send, Inv, TypeOK
<1>1. TypeOK'
  BY DEF Kinds, Tokens
<1>2. Rooted' /\ RootsExist' /\ OneLiveToken'
  BY DEF Rooted, RootsExist, OneLiveToken
<1>3. Locks' /\ Spent'
  BY DEF Locks, Spent
<1>4. SingleUse' /\ LogoutIsFinal'
  BY DEF SingleUse, LogoutIsFinal
<1> QED  BY <1>1, <1>2, <1>3, <1>4

\* The row lock is taken by one request, and only on a token seen live.
LEMMA InvLookup ==
    ASSUME Inv, NEW r \in Requests, Lookup(r)
    PROVE  Inv'
<1> USE DEF Lookup, Inv, TypeOK
<1>1. TypeOK'
  OBVIOUS
<1>2. Rooted' /\ RootsExist' /\ OneLiveToken'
  BY DEF Rooted, RootsExist, OneLiveToken
<1>3. Locks'
  BY NoTokenAssumption DEF Locks, Valid, Tokens
<1>4. Spent' /\ SingleUse' /\ LogoutIsFinal'
  BY DEF Spent, SingleUse, LogoutIsFinal
<1> QED  BY <1>1, <1>2, <1>3, <1>4

\* A failure releases the lock and writes nothing.
LEMMA InvFails ==
    ASSUME Inv, NEW r \in Requests, Fails(r)
    PROVE  Inv'
<1> USE DEF Fails, Inv, TypeOK
<1>1. TypeOK'
  OBVIOUS
<1>2. Rooted' /\ RootsExist' /\ OneLiveToken'
  BY DEF Rooted, RootsExist, OneLiveToken
<1>3. Locks' /\ Spent' /\ SingleUse' /\ LogoutIsFinal'
  BY DEF Locks, Spent, SingleUse, LogoutIsFinal
<1> QED  BY <1>1, <1>2, <1>3

\* An expiry writes no row: what the rows and the requests say stays as it is.
LEMMA InvExpire ==
    ASSUME Inv, NEW t \in Requests, Expire(t)
    PROVE  Inv'
  BY DEF Expire, Inv, TypeOK, Rooted, RootsExist, Locks, Spent, OneLiveToken,
         SingleUse, LogoutIsFinal

-----------------------------------------------------------------------------
(* Steps that write rows. *)

\* A login roots a session of its own.
LEMMA InvLogin ==
    ASSUME Inv, NEW r \in Requests, Login(r)
    PROVE  Inv'
<1> USE DEF Login, Inv, TypeOK
\* The new token is nobody's ancestor and presented by nobody.
<1>1. /\ row[r] = "absent"
      /\ \A t \in Requests : row[t] # "absent" => root[t] # r
  BY DEF Rooted, RootsExist
<1>2. TypeOK'
  BY DEF Tokens
<1>3. Rooted' /\ RootsExist'
  BY <1>1 DEF Rooted, RootsExist
<1>4. OneLiveToken'
  BY <1>1 DEF OneLiveToken
<1>5. Locks' /\ Spent'
  BY <1>1 DEF Locks, Spent
<1>6. SingleUse'
  BY DEF SingleUse
<1>7. LogoutIsFinal'
  BY <1>1 DEF LogoutIsFinal, Spent
<1> QED  BY <1>2, <1>3, <1>4, <1>5, <1>6, <1>7

\* A rotation spends one token of the session and issues one.
LEMMA InvRotate ==
    ASSUME Inv, NEW r \in Requests, Rotate(r)
    PROVE  Inv'
<1> DEFINE t == presented[r]
<1> USE DEF Rotate, Inv, TypeOK
\* The lock: the old token is live, and locked by this request alone.
<1>1. /\ t \in Requests /\ row[t] = "live"
      /\ row[r] = "absent" /\ t # r
      /\ \A s \in Requests : pc[s] = "locked" /\ presented[s] = t => s = r
  BY DEF Locks, Rooted
<1>2. TypeOK'
  BY <1>1 DEF Tokens
<1>3. Rooted' /\ RootsExist'
  BY <1>1 DEF Rooted, RootsExist
\* The new token takes the place of the old one as the live one of its session.
<1>4. OneLiveToken'
  <2> SUFFICES ASSUME NEW a \in Requests, NEW b \in Requests,
                      row'[a] = "live", row'[b] = "live", root'[a] = root'[b]
               PROVE  a = b
    BY DEF OneLiveToken
  <2>1. \A u \in Requests \ {r} :
           row'[u] = "live" => row[u] = "live" /\ u # t /\ root'[u] = root[u]
    BY <1>1
  <2>2. \A u \in Requests \ {r} : row'[u] = "live" => root'[u] # root[t]
    BY <1>1, <2>1 DEF OneLiveToken
  <2>3. root'[r] = root[t]
    OBVIOUS
  <2> QED  BY <2>1, <2>2, <2>3 DEF OneLiveToken
<1>5. Locks'
  BY <1>1 DEF Locks
<1>6. Spent'
  BY <1>1 DEF Spent
\* No earlier refresh presented this token: it would have been revoked.
<1>7. SingleUse'
  BY <1>1 DEF SingleUse, Spent
<1>8. LogoutIsFinal'
  BY <1>1 DEF LogoutIsFinal, Spent
<1> QED  BY <1>2, <1>3, <1>4, <1>5, <1>6, <1>7, <1>8

\* A logout spends the token and issues none.
LEMMA InvRevoke ==
    ASSUME Inv, NEW r \in Requests, Revoke(r)
    PROVE  Inv'
<1> DEFINE t == presented[r]
<1> USE DEF Revoke, Inv, TypeOK
<1>1. /\ t \in Requests /\ row[t] = "live"
      /\ \A s \in Requests : pc[s] = "locked" /\ presented[s] = t => s = r
  BY DEF Locks
<1>2. TypeOK'
  BY <1>1
<1>3. Rooted' /\ RootsExist' /\ OneLiveToken'
  BY <1>1 DEF Rooted, RootsExist, OneLiveToken
<1>4. Locks' /\ Spent' /\ SingleUse'
  BY <1>1 DEF Locks, Spent, SingleUse
\* The revoked token was the only live one of its session.
<1>5. LogoutIsFinal'
  BY <1>1 DEF LogoutIsFinal, OneLiveToken
<1> QED  BY <1>2, <1>3, <1>4, <1>5

-----------------------------------------------------------------------------
\* Every step keeps the invariant.
LEMMA InvNext == Inv /\ [Next]_serverVars => Inv'
<1> SUFFICES ASSUME Inv, [Next]_serverVars  PROVE Inv'
  OBVIOUS
<1>1. CASE \E r \in Requests, k \in Kinds, t \in Tokens : Send(r, k, t)
  BY <1>1, InvSend
<1>2. CASE \E r \in Requests : Handle(r)
  BY <1>2, InvLogin, InvLookup, InvRotate, InvRevoke DEF Handle
<1>3. CASE \E r \in Requests : Fails(r)
  BY <1>3, InvFails
<1>4. CASE \E t \in Requests : Expire(t)
  BY <1>4, InvExpire
<1>5. CASE UNCHANGED serverVars
  BY <1>5, InvStutter
<1> QED  BY <1>1, <1>2, <1>3, <1>4, <1>5 DEF Next

\* The invariant holds in every reachable state.
LEMMA Invariant == Spec => []Inv
  BY InvInit, InvNext, PTL DEF Spec

\* However many requests race, every variable keeps its type.
THEOREM TypeCorrect == Spec => []TypeOK
<1>1. Inv => TypeOK
  BY DEF Inv
<1> QED  BY <1>1, Invariant, PTL

\* A session never splits: AuthService.refresh under its row lock.
THEOREM SessionNeverSplits == Spec => []OneLiveToken
<1>1. Inv => OneLiveToken
  BY DEF Inv
<1> QED  BY <1>1, Invariant, PTL

\* A refresh token is exchanged at most once.
THEOREM TokensAreSingleUse == Spec => []SingleUse
<1>1. Inv => SingleUse
  BY DEF Inv
<1> QED  BY <1>1, Invariant, PTL

\* A confirmed logout leaves no usable token of its session.
THEOREM LogoutEndsSession == Spec => []LogoutIsFinal
<1>1. Inv => LogoutIsFinal
  BY DEF Inv
<1> QED  BY <1>1, Invariant, PTL
-----------------------------------------------------------------------------
(* Every step is one of Session's, or changes no token. *)

LEMMA SessionLogin ==
    ASSUME Inv, NEW r \in Requests, Login(r)
    PROVE  Promise!Open(r)
<1> USE DEF Login, Inv, TypeOK
\* The new token is nobody's ancestor.
<1>1. row[r] = "absent" /\ \A t \in Requests : row[t] # "absent" => root[t] # r
  BY DEF Rooted, RootsExist
<1>2. r \notin Issued /\ Issued' = Issued \cup {r}
  BY <1>1 DEF Issued
<1>3. LiveTokens(r)' = {r}
  BY <1>1 DEF LiveTokens
<1>4. \A s \in Requests \ {r} : LiveTokens(s)' = LiveTokens(s)
  BY <1>1 DEF LiveTokens
<1> QED  BY <1>2, <1>3, <1>4 DEF Promise!Open

LEMMA SessionRotate ==
    ASSUME Inv, NEW r \in Requests, Rotate(r)
    PROVE  \E s \in Requests : Promise!Renew(s, r)
<1> USE DEF Rotate, Inv, TypeOK
<1>1. PICK p \in Requests, o \in Requests :
         /\ p = presented[r] /\ o = root[p]
         /\ row[p] = "live" /\ row[r] = "absent" /\ p # r
  BY DEF Locks, Rooted
<1>2. LiveTokens(o) = {p}
  BY <1>1 DEF OneLiveToken, LiveTokens
<1>3. r \notin Issued /\ Issued' = Issued \cup {r}
  BY <1>1 DEF Issued
<1>4. LiveTokens(o)' = {r}
  BY <1>1, <1>2 DEF LiveTokens
<1>5. \A s \in Requests \ {o} : LiveTokens(s)' = LiveTokens(s)
  BY <1>1 DEF LiveTokens
<1>6. Promise!Renew(o, r)
  BY <1>1, <1>2, <1>3, <1>4, <1>5 DEF Promise!Renew
<1> QED  BY <1>1, <1>6

LEMMA SessionRevoke ==
    ASSUME Inv, NEW r \in Requests, Revoke(r)
    PROVE  \E s \in Requests : Promise!Close(s)
<1> USE DEF Revoke, Inv, TypeOK
<1>1. PICK p \in Requests, o \in Requests :
         p = presented[r] /\ o = root[p] /\ row[p] = "live"
  BY DEF Locks, Rooted
<1>2. LiveTokens(o) = {p}
  BY <1>1 DEF OneLiveToken, LiveTokens
<1>3. Issued' = Issued
  BY <1>1 DEF Issued
<1>4. LiveTokens(o)' = {}
  BY <1>1, <1>2 DEF LiveTokens
<1>5. \A s \in Requests \ {o} : LiveTokens(s)' = LiveTokens(s)
  BY <1>1 DEF LiveTokens
<1>6. Promise!Close(o)
  BY <1>1, <1>2, <1>3, <1>4, <1>5 DEF Promise!Close
<1> QED  BY <1>1, <1>6

\* A session is one line of tokens: the login opens it, each refresh continues it
\* from its only valid token, a logout closes it for good.
THEOREM TokensImplementSession == Spec => ImplementsSession
<1>1. Init => Promise!Init
  BY DEF Init, Promise!Init, Issued, LiveTokens
<1>2. Inv /\ [Next]_serverVars => [Promise!Next]_(Promise!sessions)
  <2> SUFFICES ASSUME Inv, [Next]_serverVars  PROVE [Promise!Next]_(Promise!sessions)
    OBVIOUS
  <2>1. ASSUME UNCHANGED <<row, root>>  PROVE UNCHANGED Promise!sessions
    BY <2>1 DEF Promise!sessions, Issued, LiveTokens
  <2>2. CASE UNCHANGED serverVars
    BY <2>1, <2>2 DEF serverVars
  <2>3. ASSUME NEW r \in Requests, Login(r)  PROVE Promise!Next
    BY <2>3, SessionLogin DEF Promise!Next
  <2>4. ASSUME NEW r \in Requests, Rotate(r)  PROVE Promise!Next
    BY <2>4, SessionRotate DEF Promise!Next
  <2>5. ASSUME NEW r \in Requests, Revoke(r)  PROVE Promise!Next
    BY <2>5, SessionRevoke DEF Promise!Next
  <2>6. ASSUME NEW r \in Requests, Lookup(r) \/ Fails(r)
        PROVE  UNCHANGED Promise!sessions
    BY <2>1, <2>6 DEF Lookup, Fails
  <2>7. ASSUME NEW r \in Requests, NEW k \in Kinds, NEW t \in Tokens, Send(r, k, t)
        PROVE  UNCHANGED Promise!sessions
    BY <2>1, <2>7 DEF Send
  <2>8. ASSUME NEW t \in Requests, Expire(t)  PROVE UNCHANGED Promise!sessions
    BY <2>1, <2>8 DEF Expire
  <2> QED  BY <2>2, <2>3, <2>4, <2>5, <2>6, <2>7, <2>8 DEF Next, Handle
<1> QED  BY <1>1, <1>2, Invariant, PTL DEF Spec, ImplementsSession, Promise!Spec

-----------------------------------------------------------------------------
(* The browser *)

\* Each action of the browser is one action of the server or none.
LEMMA BrowserStep == BrowserNext => [Next]_serverVars
<1> SUFFICES ASSUME BrowserNext  PROVE [Next]_serverVars
  OBVIOUS
<1>1. CASE \E r \in Requests : ServerStep(r)
  BY <1>1 DEF ServerStep, Next
<1>2. CASE ServerFault
  BY <1>2 DEF ServerFault, Next
<1>3. ASSUME NEW b \in Tabs, NEW r \in Requests, NEW k \in Kinds, NEW t \in Tokens,
             Call(b, r, k, t)
      PROVE  Next
  BY <1>3 DEF Call, Next
<1>4. CASE \E b \in Tabs, r \in Requests : SendRefresh(b, r)
  <2>1. PICK b \in Tabs, r \in Requests : Call(b, r, "refresh", jar)
    BY <1>4 DEF SendRefresh
  <2>2. jar \in Tokens
    BY <2>1 DEF Call, Send, Tokens
  <2> QED  BY <1>3, <2>1, <2>2 DEF Kinds
<1>5. CASE \E b \in Tabs, r \in Requests : Reply(b, r)
  BY <1>5 DEF Reply, RefreshGranted, RefreshRejected, LoginGranted, LoginRejected,
              LogoutConfirmed, LogoutRejected, TimesOut, Done
<1>6. CASE \E b \in Tabs : PageStep(b) \/ Reload(b)
  BY <1>6 DEF PageStep, JoinRefresh, MeAnswered, MeFails, RetryRejected, Reload
<1>7. CASE \E b \in Tabs, r \in Requests : SendLogin(b, r) \/ SendLogout(b, r)
  <2>1. PICK b \in Tabs, r \in Requests, k \in Kinds, t \in {NoToken, jar} :
           Call(b, r, k, t)
    BY <1>7 DEF SendLogin, SendLogout, Kinds
  <2>2. t \in Tokens
    BY <2>1 DEF Call, Send, Tokens
  <2> QED  BY <1>3, <2>1, <2>2
<1> QED  BY <1>1, <1>2, <1>4, <1>5, <1>6, <1>7 DEF BrowserNext, UserAction

\* The requests of any number of tabs are requests that RefreshTokens allows.
THEOREM BrowserImplementsServer == BrowserSpec => Spec
<1>1. BrowserInit => Init
  BY DEF BrowserInit
<1>2. [BrowserNext]_vars => [Next]_serverVars
  BY BrowserStep DEF vars
<1> QED  BY <1>1, <1>2, PTL DEF BrowserSpec, Spec

\* No interleaving of tabs, lost replies and timeouts splits a session, exchanges a
\* token twice or brings a session back after a confirmed logout.
THEOREM BrowserSessionsAreSound ==
    BrowserSpec => [](OneLiveToken /\ SingleUse /\ LogoutIsFinal) /\ ImplementsSession
  BY BrowserImplementsServer, SessionNeverSplits, TokensAreSingleUse,
     LogoutEndsSession, TokensImplementSession, PTL

-----------------------------------------------------------------------------
(* Why requests were refused *)

\* What the requests under way or answered say of the tokens: a token that is
\* presented was issued, a revoked one was used up by somebody, and a refused one
\* was of no use before anybody else could lock it.
Reasons ==
    /\ \A r \in Requests :
          /\ presented[r] # NoToken => kind[r] # "login" /\ row[presented[r]] # "absent"
          /\ pc[r] = "granted" => kind[r] # "logout" /\ row[r] # "absent"
          /\ pc[r] = "loggedOut" => kind[r] = "logout"
          /\ pc[r] = "refused" => ~Valid(presented[r])
    /\ \A r, s \in Requests :
          pc[r] = "refused" /\ pc[s] = "locked" => presented[r] # presented[s]
    /\ \A t \in Requests : row[t] = "revoked" =>
          \E s \in Requests : presented[s] = t /\ pc[s] \in {"granted", "loggedOut"}

LEMMA ReasonsInit == Init => Reasons
  BY NoTokenAssumption DEF Init, Reasons, Valid

\* Only Rotate and Revoke revoke a token, and each names the request that did.
LEMMA ReasonsNext == Inv /\ Reasons /\ [Next]_serverVars => Reasons'
<1> SUFFICES ASSUME Inv, Reasons, [Next]_serverVars  PROVE Reasons'
  OBVIOUS
<1> USE NoTokenAssumption DEF Inv, TypeOK, Reasons, Valid, Tokens
<1>1. ASSUME NEW r \in Requests, NEW k \in Kinds, NEW t \in Tokens, Send(r, k, t)
      PROVE  Reasons'
  <2> USE <1>1 DEF Send
  <2>1. \A s \in Requests \ {r} :
           presented'[s] = presented[s] /\ pc'[s] = pc[s] /\ kind'[s] = kind[s]
    OBVIOUS
  <2>2. \A u \in Requests : row[u] = "revoked" =>
           \E s \in Requests : presented'[s] = u /\ pc'[s] \in {"granted", "loggedOut"}
    BY <2>1
  <2>3. presented'[r] = t /\ pc'[r] = "sent" /\ kind'[r] = k
    BY DEF Kinds
  <2> QED  BY <2>1, <2>2, <2>3
<1>2. ASSUME NEW r \in Requests, Login(r)  PROVE Reasons'
  BY <1>2 DEF Login, Rooted
<1>3. ASSUME NEW r \in Requests, Lookup(r)  PROVE Reasons'
  BY <1>3 DEF Lookup
<1>4. ASSUME NEW r \in Requests, Rotate(r)  PROVE Reasons'
  <2> USE <1>4 DEF Rotate
  <2>1. presented[r] \in Requests /\ row[r] = "absent" /\ row[presented[r]] = "live"
    BY DEF Locks, Rooted
  <2>2. \A u \in Requests : row'[u] = "revoked" => row[u] = "revoked" \/ u = presented[r]
    BY <2>1
  <2>3. \A u \in Requests : row'[u] = "revoked" =>
           \E s \in Requests : presented'[s] = u /\ pc'[s] \in {"granted", "loggedOut"}
    BY <2>1, <2>2
  <2>4. \A u \in Requests : row[u] # "absent" => row'[u] # "absent"
    BY <2>1
  <2>5. \A s \in Requests : pc'[s] = "granted" => row'[s] # "absent"
    BY <2>1
  <2> QED  BY <2>1, <2>3, <2>4, <2>5
<1>5. ASSUME NEW r \in Requests, Revoke(r)  PROVE Reasons'
  <2> USE <1>5 DEF Revoke
  <2>1. presented[r] \in Requests /\ row[presented[r]] = "live"
    BY DEF Locks
  <2>2. \A u \in Requests : row'[u] = "revoked" =>
           \E s \in Requests : presented'[s] = u /\ pc'[s] \in {"granted", "loggedOut"}
    BY <2>1
  <2> QED  BY <2>1, <2>2
<1>6. ASSUME NEW r \in Requests, Fails(r)  PROVE Reasons'
  BY <1>6 DEF Fails
<1>7. ASSUME NEW t \in Requests, Expire(t)  PROVE Reasons'
  BY <1>7 DEF Expire
<1>8. CASE UNCHANGED serverVars
  BY <1>8 DEF serverVars
<1> QED  BY <1>1, <1>2, <1>3, <1>4, <1>5, <1>6, <1>7, <1>8 DEF Next, Handle

-----------------------------------------------------------------------------
(* The cookie, and the refreshes of one tab. *)

\* A token is out of the jar, and presented by nobody, while its request is unsent,
\* unanswered, or waited for.
Undelivered ==
    \A r \in Requests :
        pc[r] \in {"idle", "sent", "locked"} \/ caller[r] # NoTab =>
            jar # r /\ \A s \in Requests : presented[s] # r

\* The jar holds an issued token, and none that a reply a tab has seen used up.
Delivered ==
    /\ jar # NoToken => row[jar] # "absent"
    /\ \A s \in Requests :
          pc[s] \in {"granted", "loggedOut"} /\ caller[s] = NoTab /\ s \notin lost =>
              presented[s] = NoToken \/ jar # presented[s]

\* The tab that sent a request waits for it until it is answered or lost.
Calls ==
    \A r \in Requests :
        /\ pc[r] = "idle" => caller[r] = NoTab /\ r \notin lost
        /\ caller[r] # NoTab => caller[r] = sender[r] /\ r \notin lost
        /\ pc[r] \in {"sent", "locked"} /\ r \notin lost =>
               caller[r] = sender[r] /\ sender[r] \in Tabs

\* Two refreshes of one tab that present the same token.
Twins(r, s) ==
    /\ r # s /\ r \notin lost /\ s \notin lost
    /\ kind[r] = "refresh" /\ kind[s] = "refresh"
    /\ sender[r] = sender[s]
    /\ presented[r] = presented[s] /\ presented[r] # NoToken

\* If one of them is granted, the other is neither under way nor refused.
TwinsAgree ==
    \A r, s \in Requests :
        Twins(r, s) /\ pc[s] = "granted" => pc[r] \notin {"sent", "locked", "refused"}

\* The inductive invariant, over Inv and Reasons.
BrowserInv ==
    /\ BrowserTypeOK
    /\ Undelivered
    /\ Delivered
    /\ Calls
    /\ RefreshIsShared
    /\ TwinsAgree

-----------------------------------------------------------------------------
\* A refused token has expired, or a request that was answered with success used it up.
LEMMA RefusedWhy ==
    ASSUME BrowserTypeOK, Reasons, NEW r \in Requests,
           pc[r] = "refused", presented[r] # NoToken, presented[r] \notin expired
    PROVE  \E s \in Requests :
              /\ presented[s] = presented[r]
              /\ \/ kind[s] = "logout" /\ pc[s] = "loggedOut"
                 \/ kind[s] = "refresh" /\ pc[s] = "granted"
<1> USE DEF BrowserTypeOK, TypeOK, Tokens, Kinds
<1>1. presented[r] \in Requests /\ row[presented[r]] = "revoked"
  BY DEF Reasons, Valid
<1>2. PICK s \in Requests : presented[s] = presented[r] /\ pc[s] \in {"granted", "loggedOut"}
  BY <1>1 DEF Reasons
<1>3. /\ pc[s] = "granted" => kind[s] = "refresh"
      /\ pc[s] = "loggedOut" => kind[s] = "logout"
  BY <1>2 DEF Reasons
<1> QED  BY <1>2, <1>3

LEMMA BrowserInvImplies == Reasons /\ BrowserInv => CookieIsUsable /\ RefusedForCause
<1> SUFFICES ASSUME Reasons, BrowserInv  PROVE CookieIsUsable /\ RefusedForCause
  OBVIOUS
<1> USE DEF BrowserInv
<1>1. ASSUME jar # NoToken, row[jar] # "live"
      PROVE  \E r \in Requests :
                /\ presented[r] = jar /\ pc[r] \in {"granted", "loggedOut"}
                /\ caller[r] # NoTab \/ r \in lost
  <2>1. jar \in Requests /\ row[jar] = "revoked"
    BY <1>1 DEF Delivered, BrowserTypeOK, TypeOK, Tokens
  <2>2. PICK r \in Requests : presented[r] = jar /\ pc[r] \in {"granted", "loggedOut"}
    BY <2>1 DEF Reasons
  <2>3. caller[r] # NoTab \/ r \in lost
    BY <1>1, <2>2 DEF Delivered
  <2> QED  BY <2>2, <2>3
<1>2. ASSUME NEW r \in Requests \ lost, kind[r] = "refresh", pc[r] = "refused",
             presented[r] # NoToken, presented[r] \notin expired
      PROVE  \E s \in Requests :
                /\ presented[s] = presented[r]
                /\ \/ kind[s] = "logout" /\ pc[s] = "loggedOut"
                   \/ /\ kind[s] = "refresh" /\ pc[s] = "granted"
                      /\ sender[s] # sender[r] \/ s \in lost
  <2>1. PICK s \in Requests :
              /\ presented[s] = presented[r]
              /\ \/ kind[s] = "logout" /\ pc[s] = "loggedOut"
                 \/ kind[s] = "refresh" /\ pc[s] = "granted"
    BY <1>2, RefusedWhy
  <2>2. kind[s] = "refresh" /\ pc[s] = "granted" => ~Twins(r, s)
    BY <1>2 DEF TwinsAgree
  <2> QED  BY <1>2, <2>1, <2>2 DEF Twins
<1> QED  BY <1>1, <1>2 DEF CookieIsUsable, RefusedForCause

-----------------------------------------------------------------------------
\* Every tab loads, and the jar is empty.
LEMMA BrowserInvInit == BrowserInit => BrowserInv
<1> SUFFICES ASSUME BrowserInit  PROVE BrowserInv
  OBVIOUS
<1> USE NoTabAssumption, NoTokenAssumption DEF BrowserInit, Init
<1>1. BrowserTypeOK
  <2>1. TypeOK
    BY DEF TypeOK, Kinds, Tokens
  <2> QED  BY <2>1 DEF BrowserTypeOK, Tokens, Shown, Loading
<1>2. Undelivered /\ Delivered /\ Calls
  BY DEF Undelivered, Delivered, Calls
<1>3. RefreshIsShared /\ TwinsAgree
  BY DEF RefreshIsShared, Waiting, TwinsAgree
<1> QED  BY <1>1, <1>2, <1>3 DEF BrowserInv

\* Nothing changes, and nothing of the invariant.
LEMMA BrowserInvStutter == BrowserInv /\ UNCHANGED vars => BrowserInv'
  BY DEF vars, serverVars, browserVars, pageVars, BrowserInv, BrowserTypeOK, TypeOK,
         Undelivered, Delivered, Calls, RefreshIsShared, Waiting, Twins, TwinsAgree

\* A request that is sent presents the cookie, or nothing.
LEMMA InvCall ==
    ASSUME BrowserInv, NEW b \in Tabs, NEW r \in Requests, NEW k \in Kinds,
           NEW t \in {NoToken, jar}, Call(b, r, k, t), UNCHANGED jar
    PROVE  Undelivered' /\ Delivered' /\ Calls'
<1> USE NoTabAssumption, NoTokenAssumption
    DEF BrowserInv, BrowserTypeOK, TypeOK, Call, Send, Tokens
<1>1. Undelivered'
  BY DEF Undelivered
<1>2. Delivered'
  BY DEF Delivered, Calls
<1>3. Calls'
  BY DEF Calls
<1> QED  BY <1>1, <1>2, <1>3

\* A call that is not a refresh leaves the refreshes alone.
LEMMA InvCallOther ==
    ASSUME BrowserInv, NEW b \in Tabs, NEW r \in Requests, NEW k \in {"login", "logout"},
           NEW t \in {NoToken, jar}, Call(b, r, k, t), UNCHANGED tab
    PROVE  RefreshIsShared' /\ TwinsAgree'
<1> USE NoTabAssumption DEF BrowserInv, BrowserTypeOK, TypeOK, Call, Send
<1>1. RefreshIsShared'
  BY DEF RefreshIsShared, Waiting, Calls
<1>2. TwinsAgree'
  BY DEF TwinsAgree, Twins
<1> QED  BY <1>1, <1>2

\* The new refresh of a tab has no twin that was granted: the tab waits for none, and
\* a reply it has seen took the token out of the jar.
LEMMA BrowserInvSendRefresh ==
    ASSUME BrowserInv, NEW b \in Tabs, NEW r \in Requests, SendRefresh(b, r)
    PROVE  BrowserInv'
<1> USE DEF BrowserInv, SendRefresh, AwaitRefresh
<1>1. BrowserTypeOK'
  BY DEF BrowserTypeOK, TypeOK, Call, Send, Kinds, Tokens, Shown, Loading, SignedOut
<1>2. Undelivered' /\ Delivered' /\ Calls'
  BY InvCall DEF Kinds
<1>3. RefreshIsShared'
  BY NoTabAssumption
  DEF RefreshIsShared, Waiting, Call, Send, Calls, BrowserTypeOK, TypeOK
<1>4. TwinsAgree'
  <2> USE DEF BrowserTypeOK, TypeOK, Call, Send
  <2>1. \A s \in Requests \ {r} :
           /\ kind[s] = "refresh" /\ s \notin lost /\ sender[s] = b /\ pc[s] = "granted"
           => presented[s] = NoToken \/ presented[s] # jar
    BY DEF Waiting, Calls, Delivered
  <2>2. \A s \in Requests \ {r} :
           /\ kind'[s] = kind[s] /\ sender'[s] = sender[s] /\ pc'[s] = pc[s]
           /\ presented'[s] = presented[s]
    OBVIOUS
  <2>3. pc'[r] = "sent" /\ sender'[r] = b /\ presented'[r] = jar /\ lost' = lost
    OBVIOUS
  <2> QED  BY <2>1, <2>2, <2>3 DEF TwinsAgree, Twins
<1> QED  BY <1>1, <1>2, <1>3, <1>4

LEMMA BrowserInvSendOther ==
    ASSUME BrowserInv, NEW b \in Tabs, NEW r \in Requests,
           SendLogin(b, r) \/ SendLogout(b, r)
    PROVE  BrowserInv'
<1>1. BrowserTypeOK'
  BY DEF SendLogin, SendLogout, BrowserInv, BrowserTypeOK, TypeOK, Call, Send, Kinds,
         Tokens, pageVars
<1>2. PICK k \in {"login", "logout"}, t \in {NoToken, jar} :
         Call(b, r, k, t) /\ UNCHANGED <<jar, tab>>
  BY DEF SendLogin, SendLogout, pageVars
<1>3. Undelivered' /\ Delivered' /\ Calls'
  BY <1>2, InvCall DEF Kinds
<1>4. RefreshIsShared' /\ TwinsAgree'
  BY <1>2, InvCallOther
<1> QED  BY <1>1, <1>3, <1>4 DEF BrowserInv

-----------------------------------------------------------------------------
\* A rotation has no twin under way (the tab shares its refresh) and none that was
\* refused (the token was live when it was locked, and stayed locked since).
LEMMA TwinsRotate ==
    ASSUME Inv, Reasons, BrowserInv, NEW s \in Requests, Rotate(s), UNCHANGED browserVars
    PROVE  TwinsAgree'
<1> USE DEF BrowserInv, BrowserTypeOK, TypeOK, Rotate, browserVars
<1>1. \A r \in Requests : Twins(r, s) => pc[r] \notin {"sent", "locked"}
  <2> SUFFICES ASSUME NEW r \in Requests, Twins(r, s), pc[r] \in {"sent", "locked"}
               PROVE  FALSE
    OBVIOUS
  <2>1. caller[r] = sender[r] /\ caller[s] = sender[r] /\ sender[r] \in Tabs
    BY DEF Twins, Calls
  <2> QED  BY <2>1 DEF Twins, RefreshIsShared, Waiting
<1>2. \A r \in Requests : Twins(r, s) => pc[r] # "refused"
  BY DEF Twins, Reasons
<1>3. \A r, u \in Requests : Twins(r, u)' <=> Twins(r, u)
  BY DEF Twins
<1>4. \A r \in Requests : Twins(r, s) => r # s
  BY DEF Twins
<1> QED  BY <1>1, <1>2, <1>3, <1>4 DEF TwinsAgree

LEMMA BrowserInvServer ==
    ASSUME Inv, Reasons, BrowserInv, NEW r \in Requests, ServerStep(r)
    PROVE  BrowserInv'
<1> USE DEF BrowserInv, ServerStep, Handle, browserVars, pageVars
<1>1. BrowserTypeOK'
  <2>1. TypeOK'
    <3>1. [Next]_serverVars
      BY DEF Next
    <3> QED  BY <3>1, InvNext DEF Inv
  <2> QED  BY <2>1 DEF BrowserTypeOK
<1>2. /\ kind' = kind /\ presented' = presented
      /\ pc[r] \in {"sent", "locked"} /\ \A s \in Requests \ {r} : pc'[s] = pc[s]
  BY DEF BrowserTypeOK, TypeOK, Login, Lookup, Rotate, Revoke
<1>3. Undelivered' /\ Calls' /\ RefreshIsShared'
  BY <1>2 DEF Undelivered, Calls, RefreshIsShared, Waiting, BrowserTypeOK, TypeOK,
              Login, Lookup, Rotate, Revoke
<1>4. Delivered'
  <2>1. jar # NoToken => row'[jar] # "absent"
    BY DEF Delivered, Undelivered, BrowserTypeOK, TypeOK, Tokens,
           Login, Lookup, Rotate, Revoke
  <2>2. r \notin lost => caller'[r] # NoTab
    BY <1>2, NoTabAssumption DEF Calls
  <2> QED  BY <1>2, <2>1, <2>2 DEF Delivered
<1>5. TwinsAgree'
  <2>1. CASE Login(r)
    BY <2>1 DEF Login, TwinsAgree, Twins, BrowserTypeOK, TypeOK
  <2>2. CASE Lookup(r)
    BY <2>2 DEF Lookup, TwinsAgree, Twins, BrowserTypeOK, TypeOK
  <2>3. CASE Rotate(r)
    BY <2>3, TwinsRotate
  <2>4. CASE Revoke(r)
    BY <2>4 DEF Revoke, TwinsAgree, Twins, BrowserTypeOK, TypeOK
  <2> QED  BY <2>1, <2>2, <2>3, <2>4
<1> QED  BY <1>1, <1>3, <1>4, <1>5

LEMMA BrowserInvFault ==
    ASSUME BrowserInv, ServerFault
    PROVE  BrowserInv'
<1> USE DEF BrowserInv, ServerFault, browserVars, pageVars
<1>1. PICK r \in Requests : Fails(r) \/ Expire(r)
  OBVIOUS
<1> USE <1>1 DEF Fails, Expire
<1>2. BrowserTypeOK'
  BY DEF BrowserTypeOK, TypeOK
<1>3. Undelivered' /\ Delivered' /\ Calls'
  BY DEF Undelivered, Delivered, Calls, BrowserTypeOK, TypeOK
<1>4. RefreshIsShared' /\ TwinsAgree'
  BY DEF RefreshIsShared, Waiting, TwinsAgree, Twins, BrowserTypeOK, TypeOK
<1> QED  BY <1>2, <1>3, <1>4

-----------------------------------------------------------------------------
\* What every reply does: the tab waits no more, and shows no new refresh.
LEMMA ReplyFrame ==
    ASSUME NEW b \in Tabs, NEW r \in Requests, Reply(b, r)
    PROVE  /\ caller[r] = b /\ caller' = [caller EXCEPT ![r] = NoTab]
           /\ UNCHANGED <<serverVars, sender>>
           /\ TimesOut(b, r) \/ (lost' = lost /\ pc[r] \notin {"sent", "locked"})
<1>1. CASE RefreshGranted(b, r) \/ RefreshRejected(b, r)
  BY <1>1 DEF RefreshGranted, RefreshRejected, Answered, Done
<1>2. CASE LoginGranted(b, r) \/ LoginRejected(b, r)
  BY <1>2 DEF LoginGranted, LoginRejected, Answered, Done
<1>3. CASE LogoutConfirmed(b, r) \/ LogoutRejected(b, r)
  BY <1>3 DEF LogoutConfirmed, LogoutRejected, Answered, Done
<1>4. CASE TimesOut(b, r)
  <2>1. caller[r] = b /\ Done(r)
    BY <1>4 DEF TimesOut
  <2> QED  BY <1>4, <2>1 DEF Done
<1> QED  BY <1>1, <1>2, <1>3, <1>4 DEF Reply

LEMMA ReplyTypes ==
    ASSUME BrowserInv, NEW b \in Tabs, NEW r \in Requests, Reply(b, r)
    PROVE  BrowserTypeOK'
<1> USE DEF BrowserInv, BrowserTypeOK, TypeOK, Shown, Loading, SignedOut
<1>1. tab' \in [Tabs -> Shown] /\ access' \in [Tabs -> BOOLEAN] /\ retried' \in [Tabs -> BOOLEAN]
  <2>1. CASE RefreshGranted(b, r)
    BY <2>1 DEF RefreshGranted, Refreshed
  <2>2. CASE LoginGranted(b, r)
    BY <2>2 DEF LoginGranted
  <2>3. CASE LoginRejected(b, r)
    BY <2>3 DEF LoginRejected, pageVars
  <2>4. CASE RefreshRejected(b, r)
    BY <2>4 DEF RefreshRejected, RefreshFailed, Clear
  <2>5. CASE LogoutConfirmed(b, r) \/ LogoutRejected(b, r)
    BY <2>5 DEF LogoutConfirmed, LogoutRejected, SignOut, Clear
  <2>6. CASE TimesOut(b, r)
    <3>1. UNCHANGED pageVars \/ RefreshFailed(b) \/ SignOut(b)
      BY <2>6 DEF TimesOut
    <3>2. CASE UNCHANGED pageVars
      BY <3>2 DEF pageVars
    <3>3. CASE RefreshFailed(b)
      BY <3>3 DEF RefreshFailed, Clear
    <3>4. CASE SignOut(b)
      BY <3>4 DEF SignOut, Clear
    <3> QED  BY <3>1, <3>2, <3>3, <3>4
  <2> QED  BY <2>1, <2>2, <2>3, <2>4, <2>5, <2>6 DEF Reply
<1>2. jar' \in Tokens
  BY DEF Reply, RefreshGranted, RefreshRejected, LoginGranted, LoginRejected,
         LogoutConfirmed, LogoutRejected, TimesOut, Tokens
<1>3. lost' \subseteq Requests
  BY ReplyFrame DEF TimesOut
<1> QED  BY <1>1, <1>2, <1>3, ReplyFrame DEF serverVars

\* The reply to a refresh ends the wait of its tab, any other leaves it.
LEMMA ReplyShared ==
    ASSUME BrowserInv, NEW b \in Tabs, NEW r \in Requests, Reply(b, r)
    PROVE  RefreshIsShared'
<1> USE DEF BrowserInv, BrowserTypeOK, TypeOK
<1>1. \A c \in Tabs \ {b} : tab'[c] = tab[c]
  BY DEF Reply, RefreshGranted, RefreshRejected, LoginGranted, LoginRejected,
         LogoutConfirmed, LogoutRejected, TimesOut, Refreshed, RefreshFailed, SignOut,
         Clear, pageVars
<1>2. tab'[b] \in {"refreshing", "reentering"} => tab[b] = tab'[b] /\ kind[r] # "refresh"
  <2>1. CASE RefreshGranted(b, r)
    BY <2>1 DEF RefreshGranted, Refreshed
  <2>2. CASE LoginGranted(b, r) \/ LoginRejected(b, r)
    BY <2>2 DEF LoginGranted, LoginRejected, Answered, pageVars
  <2>3. CASE RefreshRejected(b, r)
    BY <2>3 DEF RefreshRejected, RefreshFailed, Clear
  <2>4. CASE LogoutConfirmed(b, r) \/ LogoutRejected(b, r)
    BY <2>4 DEF LogoutConfirmed, LogoutRejected, SignOut, Clear, Answered
  <2>5. CASE TimesOut(b, r)
    BY <2>5 DEF TimesOut, SignOut, RefreshFailed, Clear, pageVars
  <2> QED  BY <2>1, <2>2, <2>3, <2>4, <2>5 DEF Reply
<1> QED
  BY <1>1, <1>2, ReplyFrame, NoTabAssumption DEF RefreshIsShared, Waiting, serverVars

\* A granted reply brings its token to the jar, a confirmed logout empties it.
LEMMA ReplyJar ==
    ASSUME Inv, Reasons, BrowserInv, NEW b \in Tabs, NEW r \in Requests, Reply(b, r)
    PROVE  Undelivered' /\ Delivered'
<1> USE NoTabAssumption, NoTokenAssumption, ReplyFrame
    DEF BrowserInv, BrowserTypeOK, TypeOK, serverVars
<1>1. CASE RefreshGranted(b, r) \/ LoginGranted(b, r)
  <2>1. pc[r] = "granted" /\ jar' = r /\ lost' = lost
    BY <1>1 DEF RefreshGranted, LoginGranted
  <2>2. row[r] # "absent" /\ \A s \in Requests : presented[s] # r
    BY <2>1 DEF Reasons, Undelivered
  <2> QED  BY <2>1, <2>2 DEF Undelivered, Delivered
<1>2. CASE LogoutConfirmed(b, r)
  BY <1>2 DEF LogoutConfirmed, Undelivered, Delivered
<1>3. CASE RefreshRejected(b, r) \/ LoginRejected(b, r) \/ LogoutRejected(b, r)
  BY <1>3 DEF RefreshRejected, LoginRejected, LogoutRejected, Undelivered, Delivered
<1>4. CASE TimesOut(b, r)
  BY <1>4 DEF TimesOut, Undelivered, Delivered
<1> QED  BY <1>1, <1>2, <1>3, <1>4 DEF Reply

LEMMA BrowserInvReply ==
    ASSUME Inv, Reasons, BrowserInv, NEW b \in Tabs, NEW r \in Requests, Reply(b, r)
    PROVE  BrowserInv'
<1> USE ReplyFrame DEF serverVars
<1>1. \/ lost' = lost /\ pc[r] \notin {"sent", "locked"}
      \/ lost' = lost \cup {r}
  BY DEF TimesOut
<1>2. Calls'
  BY <1>1, NoTabAssumption DEF BrowserInv, Calls, BrowserTypeOK, TypeOK
<1>3. TwinsAgree'
  BY <1>1 DEF BrowserInv, TwinsAgree, Twins
<1> QED  BY <1>2, <1>3, ReplyTypes, ReplyShared, ReplyJar DEF BrowserInv

\* A page that reloads loses the replies it waits for; other steps of a page move its
\* tab only.
LEMMA BrowserInvLocal ==
    ASSUME BrowserInv, NEW b \in Tabs, PageStep(b) \/ Reload(b)
    PROVE  BrowserInv'
<1> USE NoTabAssumption DEF BrowserInv, serverVars
<1>1. CASE PageStep(b)
  <2> USE <1>1 DEF PageStep
  <2>1. UNCHANGED <<serverVars, jar, caller, sender, lost>>
    BY DEF JoinRefresh, AwaitRefresh, MeAnswered, MeFails, RetryRejected
  <2>2. BrowserTypeOK'
    BY <2>1 DEF BrowserTypeOK, TypeOK, Shown, Loading, SignedOut, JoinRefresh,
                AwaitRefresh, MeAnswered, MeFails, RetryRejected, SignOut, Clear
  <2>3. Undelivered' /\ Delivered' /\ Calls' /\ TwinsAgree'
    BY <2>1 DEF Undelivered, Delivered, Calls, TwinsAgree, Twins
  <2>4. /\ \A c \in Tabs \ {b} : tab'[c] = tab[c]
        /\ tab'[b] \in {"refreshing", "reentering"} => Waiting(b, "refresh") # {}
    BY DEF BrowserTypeOK, JoinRefresh, AwaitRefresh, MeAnswered, MeFails, RetryRejected,
           SignOut, Clear, SignedOut
  <2>5. RefreshIsShared'
    BY <2>1, <2>4 DEF RefreshIsShared, Waiting
  <2> QED  BY <2>2, <2>3, <2>5
<1>2. CASE Reload(b)
  <2> USE <1>2 DEF Reload
  <2>1. BrowserTypeOK'
    BY DEF BrowserTypeOK, TypeOK, Shown, Loading
  <2>2. Undelivered' /\ Delivered'
    BY DEF Undelivered, Delivered, BrowserTypeOK, TypeOK
  <2>3. Calls' /\ TwinsAgree'
    BY DEF Calls, TwinsAgree, Twins, BrowserTypeOK, TypeOK
  <2>4. RefreshIsShared'
    BY DEF RefreshIsShared, Waiting, BrowserTypeOK, TypeOK
  <2> QED  BY <2>1, <2>2, <2>3, <2>4
<1> QED  BY <1>1, <1>2

\* The invariant is inductive.
LEMMA BrowserInvNext ==
    Inv /\ Reasons /\ BrowserInv /\ [BrowserNext]_vars => BrowserInv'
  BY BrowserInvStutter, BrowserInvSendRefresh, BrowserInvSendOther, BrowserInvServer,
     BrowserInvFault, BrowserInvReply, BrowserInvLocal
  DEF BrowserNext, UserAction

LEMMA BrowserInvariant == BrowserSpec => [](Reasons /\ BrowserInv)
<1>1. BrowserSpec => []Inv
  BY BrowserImplementsServer, Invariant, PTL
<1>2. BrowserInit => Reasons /\ BrowserInv
  BY ReasonsInit, BrowserInvInit DEF BrowserInit
<1>3. Inv /\ Reasons /\ BrowserInv /\ [BrowserNext]_vars => (Reasons /\ BrowserInv)'
  <2>1. [BrowserNext]_vars => [Next]_serverVars
    BY BrowserStep DEF vars
  <2> QED  BY <2>1, ReasonsNext, BrowserInvNext
<1> QED  BY <1>1, <1>2, <1>3, PTL DEF BrowserSpec

\* Whatever fails, times out or is reloaded, and however many tabs share it: the cookie
\* is the live token of its session, unless a reply is lost or on its way.
THEOREM CookieStaysUsable == BrowserSpec => []CookieIsUsable
  BY BrowserInvariant, BrowserInvImplies, PTL

\* A refresh that presents a token is refused for an expiry, a logout, another tab's
\* refresh or a lost reply, and for nothing else.
THEOREM RefreshRefusedForCause == BrowserSpec => []RefusedForCause
  BY BrowserInvariant, BrowserInvImplies, PTL

\* Every variable of the browser stays in its type.
THEOREM BrowserTypes == BrowserSpec => []BrowserTypeOK
<1>1. BrowserInv => BrowserTypeOK
  BY DEF BrowserInv
<1> QED  BY <1>1, BrowserInvariant, PTL

\* The calls of a tab share one refresh under any faults, and a page or a login that
\* waits for a refresh has one to wait for.
THEOREM RefreshesAreShared == BrowserSpec => []RefreshIsShared
<1>1. BrowserInv => RefreshIsShared
  BY DEF BrowserInv
<1> QED  BY <1>1, BrowserInvariant, PTL
==============================================================================
