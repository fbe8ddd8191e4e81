----------------------------- MODULE MCBrowser -----------------------------
(***************************************************************************)
(* An instance of Browser for TLC.  The slots are interchangeable.         *)
(***************************************************************************)
EXTENDS Naturals, TLC

CONSTANTS Calls, Refreshes, MaxPairs, NoRefresh

\* There is no slot of a refresh that stands for none.
ASSUME BrowserAssumption == MaxPairs \in Nat /\ NoRefresh \notin Refreshes

VARIABLES
  issued, login, live, expired,                  \* the server
  jar, access, csrf, status, shared,             \* the browser and its tab
  refresh, call, refused, lost, burned

B == INSTANCE Browser WITH None <- NoRefresh

tabVars ==
  <<issued, login, live, expired, jar, access, csrf, status, shared, refresh, call,
    refused, lost, burned>>

TabSpec == B!Init /\ [][B!Next]_tabVars

Symmetry == Permutations(Calls) \cup Permutations(Refreshes)

-----------------------------------------------------------------------------

\* Types, with the joining of refreshes, ReuseNeedsLoss and RanAtMostOnce of
\* Browser: the tab does not end its own session, and no call is carried out
\* twice (runRefresh, refreshSession, authorizedRequest, confirmedRequest).
SessionIsSound == B!TypeOK /\ B!ReuseNeedsLoss /\ B!RanAtMostOnce

\* A refresh is sent only for an access token that the server has refused, or
\* when the tab has none (authorizedRequest, restoreSession).
RefreshIsDue ==
  [][shared = NoRefresh /\ shared' # NoRefresh =>
       access \in refused \cup {0} \/ access' = 0]_tabVars
=============================================================================
