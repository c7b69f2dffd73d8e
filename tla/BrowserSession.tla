--------------------------- MODULE BrowserSession ---------------------------
(***************************************************************************)
(* The tabs of one browser that share the refresh cookie of one user       *)
(* (frontend/src/services/apiClient.ts and features/auth/AuthContext.tsx)  *)
(* over the server of RefreshTokens.  Each tab keeps its access token in   *)
(* memory.  A request carries the cookie that the jar holds when it is     *)
(* sent; its reply, with the cookie it sets, arrives any time after the    *)
(* server has committed, or the tab gives up on it (a timeout of 10 s).    *)
(***************************************************************************)
EXTENDS RefreshTokens

CONSTANTS Tabs, NoTab

ASSUME NoTabAssumption == NoTab \notin Tabs

VARIABLES
    jar,      \* the refresh cookie
    caller,   \* request -> the tab that waits for its reply
    tab,      \* tab -> what AuthContext shows
    access,   \* tab -> it holds an access token
    retried,  \* tab -> it has repeated a call that was answered with 401
    sender,   \* history: request -> the tab that sent it
    lost      \* history: requests whose reply no tab has looked at

pageVars == <<tab, access, retried>>
browserVars == <<jar, caller, pageVars, sender, lost>>
vars == <<serverVars, browserVars>>

\* A page that loads refreshes and asks for /me; a login asks for /me too, and
\* "reentering" is a login whose /me waits for a refresh.  A tab that was in and is
\* "left" may have calls under way that it sent before; one that is "out" has none.
Loading == {"loading", "refreshing", "restoring"}
SignedOut == {"out", "left"}
Shown == Loading \cup SignedOut \cup {"entering", "reentering", "in"}

BrowserInit ==
    /\ Init
    /\ jar = NoToken
    /\ caller = [r \in Requests |-> NoTab]
    /\ tab = [b \in Tabs |-> "loading"]
    /\ access = [b \in Tabs |-> FALSE]
    /\ retried = [b \in Tabs |-> FALSE]
    /\ sender = [r \in Requests |-> NoTab]
    /\ lost = {}

Waiting(b, k) == {r \in Requests : caller[r] = b /\ kind[r] = k}

-----------------------------------------------------------------------------
(* Calls *)

Call(b, r, k, t) ==
    /\ Send(r, k, t)
    /\ caller' = [caller EXCEPT ![r] = b]
    /\ sender' = [sender EXCEPT ![r] = b]
    /\ UNCHANGED lost

\* A page load refreshes, and so does a call that is answered with 401 for the first
\* time: any call of a tab that is or was in, before that its /me.
Refreshable(b) ==
    \/ tab[b] \in {"loading", "in", "left"}
    \/ tab[b] \in {"restoring", "entering"} /\ ~retried[b]

\* The tab waits for the refresh, and will repeat its /me.
AwaitRefresh(b) ==
    /\ tab' = [tab EXCEPT ![b] =
                  CASE @ \in {"loading", "restoring"} -> "refreshing"
                    [] @ = "entering" -> "reentering"
                    [] @ = "left" -> "out"
                    [] OTHER -> @]
    /\ retried' = [retried EXCEPT ![b] = @ \/ tab[b] \in {"restoring", "entering"}]
    /\ UNCHANGED <<jar, access>>

\* Mutant: nothing is shared, every caller sends a refresh of its own.
SendRefresh_Unshared(b, r) ==
    /\ Refreshable(b)
    /\ Call(b, r, "refresh", jar)
    /\ AwaitRefresh(b)

\* The calls of a tab share one refresh.
SendRefresh(b, r) ==
    /\ Refreshable(b)
    /\ Waiting(b, "refresh") = {}
    /\ Call(b, r, "refresh", jar)
    /\ AwaitRefresh(b)

\* The /me of a login joins a refresh that an earlier session of the tab has sent.
JoinRefresh(b) ==
    /\ tab[b] = "entering" /\ Refreshable(b)
    /\ Waiting(b, "refresh") # {}
    /\ AwaitRefresh(b)
    /\ UNCHANGED <<serverVars, caller, sender, lost>>

SendLogin(b, r) ==
    /\ tab[b] \in SignedOut
    /\ Waiting(b, "login") = {}
    /\ Call(b, r, "login", NoToken)
    /\ UNCHANGED <<jar, pageVars>>

SendLogout(b, r) ==
    /\ tab[b] = "in"
    /\ Waiting(b, "logout") = {}
    /\ Call(b, r, "logout", jar)
    /\ UNCHANGED <<jar, pageVars>>

-----------------------------------------------------------------------------
(* Replies *)

Answered(b, r, k) == caller[r] = b /\ kind[r] = k

\* The reply is there, or the tab waits for it no longer.
Done(r) == caller' = [caller EXCEPT ![r] = NoTab] /\ UNCHANGED <<serverVars, sender>>

\* clearSession: the user goes; a /me that is under way goes on.
Clear(b, underWay) ==
    /\ tab' = [tab EXCEPT ![b] =
                  CASE @ = "in" -> "left"
                    [] @ \in underWay \cup {"left"} -> @
                    [] OTHER -> "out"]
    /\ access' = [access EXCEPT ![b] = FALSE]
    /\ retried' = [retried EXCEPT ![b] = @ /\ tab[b] \in underWay]

\* The calls that waited for the refresh are rejected with it.
RefreshFailed(b) == Clear(b, {"entering"})

SignOut(b) == Clear(b, {"entering", "reentering"})

\* What the calls that waited for a granted refresh do next: they are (re)sent.
Refreshed(b) ==
    /\ access' = [access EXCEPT ![b] = TRUE]
    /\ tab' = [tab EXCEPT ![b] =
                  CASE @ = "refreshing" -> "restoring"
                    [] @ = "reentering" -> "entering"
                    [] OTHER -> @]
    /\ retried' = [retried EXCEPT ![b] = @ \/ tab[b] \in SignedOut \cup {"in"}]

\* Mutant: the cookie of the reply is not stored.
RefreshGranted_NoCookie(b, r) ==
    /\ Answered(b, r, "refresh") /\ pc[r] = "granted"
    /\ Done(r)
    /\ Refreshed(b)
    /\ UNCHANGED <<jar, lost>>

\* A granted refresh: the new cookie and the new access token, whatever the tab
\* shows by now.
RefreshGranted(b, r) ==
    /\ Answered(b, r, "refresh") /\ pc[r] = "granted"
    /\ Done(r)
    /\ jar' = r
    /\ Refreshed(b)
    /\ UNCHANGED lost

\* Mutant: the page goes on restoring the session.
RefreshRejected_KeepsLoading(b, r) ==
    /\ Answered(b, r, "refresh") /\ pc[r] \in {"refused", "error"}
    /\ Done(r)
    /\ UNCHANGED <<jar, pageVars, lost>>

\* A rejected one ends the session of the tab.  The cookie stays.
RefreshRejected(b, r) ==
    /\ Answered(b, r, "refresh") /\ pc[r] \in {"refused", "error"}
    /\ Done(r)
    /\ RefreshFailed(b)
    /\ UNCHANGED <<jar, lost>>

LoginGranted(b, r) ==
    /\ Answered(b, r, "login") /\ pc[r] = "granted"
    /\ Done(r)
    /\ jar' = r
    /\ access' = [access EXCEPT ![b] = TRUE]
    /\ tab' = [tab EXCEPT ![b] = "entering"]
    /\ retried' = [retried EXCEPT ![b] = FALSE]
    /\ UNCHANGED lost

LoginRejected(b, r) ==
    /\ Answered(b, r, "login") /\ pc[r] = "error"
    /\ Done(r)
    /\ UNCHANGED <<jar, pageVars, lost>>

\* 204: the cookie is deleted, whichever token it holds by now.
LogoutConfirmed(b, r) ==
    /\ Answered(b, r, "logout") /\ pc[r] = "loggedOut"
    /\ Done(r)
    /\ jar' = NoToken
    /\ SignOut(b)
    /\ UNCHANGED lost

\* The tab forgets its session even when the logout was rejected.
LogoutRejected(b, r) ==
    /\ Answered(b, r, "logout") /\ pc[r] \in {"refused", "error"}
    /\ Done(r)
    /\ SignOut(b)
    /\ UNCHANGED <<jar, lost>>

\* No reply within 10 s, wherever the server is; a late one is not looked at.
TimesOut(b, r) ==
    /\ caller[r] = b
    /\ Done(r)
    /\ lost' = lost \cup {r}
    /\ \/ kind[r] = "login" /\ UNCHANGED pageVars
       \/ kind[r] = "refresh" /\ RefreshFailed(b)
       \/ kind[r] = "logout" /\ SignOut(b)
    /\ UNCHANGED jar

MeAnswered(b) ==
    /\ tab[b] \in {"restoring", "entering"}
    /\ tab' = [tab EXCEPT ![b] = "in"]
    /\ retried' = [retried EXCEPT ![b] = FALSE]
    /\ UNCHANGED <<serverVars, jar, caller, access, sender, lost>>

\* A failed restore clears the session, a failed login may leave its token.
MeFails(b) ==
    /\ tab[b] \in {"restoring", "entering"}
    /\ tab' = [tab EXCEPT ![b] = "out"]
    /\ retried' = [retried EXCEPT ![b] = FALSE]
    /\ \E kept \in BOOLEAN :
          access' = [access EXCEPT ![b] = @ /\ kept /\ tab[b] = "entering"]
    /\ UNCHANGED <<serverVars, jar, caller, sender, lost>>

\* A repeated call is answered with 401 again.
RetryRejected(b) ==
    /\ tab[b] \in SignedOut \cup {"in"} /\ retried[b]
    /\ SignOut(b)
    /\ UNCHANGED <<serverVars, jar, caller, sender, lost>>

\* The user reloads the page: memory and pending calls are gone.
Reload(b) ==
    /\ tab[b] # "loading"
    /\ tab' = [tab EXCEPT ![b] = "loading"]
    /\ access' = [access EXCEPT ![b] = FALSE]
    /\ retried' = [retried EXCEPT ![b] = FALSE]
    /\ caller' = [r \in Requests |-> IF caller[r] = b THEN NoTab ELSE caller[r]]
    /\ lost' = lost \cup {r \in Requests : caller[r] = b}
    /\ UNCHANGED <<serverVars, jar, sender>>

-----------------------------------------------------------------------------
ServerFault ==
    /\ \E r \in Requests : Fails(r) \/ Expire(r)
    /\ UNCHANGED browserVars

ServerStep(r) == Handle(r) /\ UNCHANGED browserVars

Reply(b, r) ==
    \/ RefreshGranted(b, r) \/ RefreshRejected(b, r)
    \/ LoginGranted(b, r) \/ LoginRejected(b, r)
    \/ LogoutConfirmed(b, r) \/ LogoutRejected(b, r)
    \/ TimesOut(b, r)

PageStep(b) == JoinRefresh(b) \/ MeAnswered(b) \/ MeFails(b) \/ RetryRejected(b)

UserAction(b) ==
    \/ \E r \in Requests : SendLogin(b, r) \/ SendLogout(b, r)
    \/ Reload(b)

BrowserNext ==
    \/ \E r \in Requests : ServerStep(r)
    \/ ServerFault
    \/ \E b \in Tabs, r \in Requests : SendRefresh(b, r) \/ Reply(b, r)
    \/ \E b \in Tabs : PageStep(b) \/ UserAction(b)

BrowserSpec == BrowserInit /\ [][BrowserNext]_vars

\* A page that loads sends its refresh at once, the timeout ends every wait, and
\* /me is answered or fails.  Users need not do anything.
Fairness ==
    \A b \in Tabs :
        /\ WF_vars(tab[b] = "loading" /\ \E r \in Requests : SendRefresh(b, r))
        /\ WF_vars(\E r \in Requests : Reply(b, r))
        /\ WF_vars(MeAnswered(b) \/ MeFails(b))

FairBrowserSpec == BrowserSpec /\ Fairness

-----------------------------------------------------------------------------
(* Properties *)

BrowserTypeOK ==
    /\ TypeOK
    /\ jar \in Tokens
    /\ caller \in [Requests -> Tabs \cup {NoTab}]
    /\ tab \in [Tabs -> Shown]
    /\ access \in [Tabs -> BOOLEAN]
    /\ retried \in [Tabs -> BOOLEAN]
    /\ sender \in [Requests -> Tabs \cup {NoTab}]
    /\ lost \subseteq Requests

\* The cookie falls behind the server in one way only: a refresh or a logout has used
\* it up, and the reply that replaces or deletes it was lost, or is still on its way.
CookieIsUsable ==
    jar # NoToken =>
        row[jar] = "live" \/ \E r \in Requests :
            /\ presented[r] = jar /\ pc[r] \in {"granted", "loggedOut"}
            /\ caller[r] # NoTab \/ r \in lost

\* Why a tab can be told 401 for the token it presented to refresh: it has expired, a
\* logout revoked it, another tab of the browser has exchanged it, or the tab itself
\* has and the reply was lost.  The calls of one tab never spoil each other's refresh.
RefusedForCause ==
    \A r \in Requests \ lost :
        kind[r] = "refresh" /\ pc[r] = "refused" /\ presented[r] # NoToken =>
            \/ presented[r] \in expired
            \/ \E s \in Requests :
                  /\ presented[s] = presented[r]
                  /\ \/ kind[s] = "logout" /\ pc[s] = "loggedOut"
                     \/ /\ kind[s] = "refresh" /\ pc[s] = "granted"
                        /\ sender[s] # sender[r] \/ s \in lost

\* Whatever times out, fails or is reloaded: the calls of a tab wait for one refresh
\* together, and a page that restores its session waits for one.
RefreshIsShared ==
    \A b \in Tabs :
        /\ \A r, s \in Waiting(b, "refresh") : r = s
        /\ tab[b] \in {"refreshing", "reentering"} => Waiting(b, "refresh") # {}

\* "Restoring secure session..." does not stay on the screen (while the model has a
\* request left for it).
LoadingEnds ==
    \A b \in Tabs :
        (tab[b] \in Loading) ~>
            (tab[b] \notin Loading \/ \A r \in Requests : pc[r] # "idle")

-----------------------------------------------------------------------------
(* What a test of the repository says, which the code does not keep. *)

\* "logout clears authentication state": a tab that is signed out and holds no access
\* token gets one by a login only.
SignedOutStaysOut ==
    [][\A b \in Tabs :
          tab[b] \in SignedOut /\ ~access[b] /\ access'[b] => tab'[b] = "entering"]_vars
=============================================================================
