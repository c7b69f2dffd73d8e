-------------------------- MODULE MCBrowserSession --------------------------
EXTENDS BrowserSession

\* Requests are interchangeable, and so are tabs: requests are used in the order of
\* their numbers, and the first one is sent by the first tab.
InOrder ==
    /\ \A r, s \in Requests : r < s /\ pc[r] = "idle" => pc[s] = "idle"
    /\ sender[1] \in {1, NoTab}

OrderedSpec == BrowserInit /\ [][BrowserNext /\ InOrder']_vars /\ Fairness
=============================================================================
