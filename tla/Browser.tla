------------------------------ MODULE Browser ------------------------------
(***************************************************************************)
(* The session of one browser tab (frontend/src/features/auth): requests   *)
(* that carry the access token, the refresh that parallel 401 answers      *)
(* share, requests that carry a one-time code, login, logout, and the      *)
(* restoring of the session after a reload of the page.                    *)
(*                                                                         *)
(* JavaScript runs until it waits, so an answer and everything the waiting *)
(* functions do with it up to their next request is one action.  The       *)
(* server is what Sessions shows it to be, one live refresh token per      *)
(* login, and answers each request at some moment or never.                *)
(*                                                                         *)
(* Access token, refresh cookie and CSRF token are issued together and are *)
(* named by the number of the pair they belong to, 0 for none.             *)
(***************************************************************************)
EXTENDS Naturals

CONSTANTS
  Calls,      \* slots of requests in flight; their number is a bound
  Refreshes,  \* slots of refresh requests in flight
  MaxPairs,   \* bound: how many pairs of tokens the server issues
  None        \* no refresh

VARIABLES
  issued,   \* server: the number of pairs issued
  login,    \* server: the first pair of the family of each pair (familyId)
  live,     \* server: the pairs whose refresh token is not revoked
  expired,  \* server: the pairs whose access token has expired
  jar,      \* browser: the refresh and CSRF cookies
  access,   \* tab: accessToken
  csrf,     \* tab: csrfToken, in sessionStorage: a reload keeps it
  status,   \* tab: SessionState.status
  shared,   \* tab: refreshPromise
  refresh,  \* the refresh requests in flight
  call,     \* the other requests in flight, and those that wait for a refresh
  refused,  \* history: the pairs whose access token a 401 has refused
  lost,     \* history: the answer to a refresh has been lost
  burned    \* history: the server has ended a live family for reuse

server == <<issued, login, live, expired>>
tab == <<jar, access, csrf, status, shared>>
history == <<refused, lost, burned>>
vars == <<server, tab, refresh, call, history>>

Pairs == 1 .. MaxPairs

\* "data" is an authorizedRequest; "probe" is the one before a request with a
\* "code"; "restore" only waits for a refresh; "me" and "consents" follow a
\* login or a restore.
Retried == {"data", "probe"}
Kinds == Retried \cup {"code", "restore", "me", "consents", "login"}

\* A request that is repeated or must not be counts in `ran', a history field,
\* how often the server has carried it out.
Counted == Retried \cup {"code"}

Idle == [op |-> "idle"]

Call ==
       {Idle}
  \cup [op: {"sent", "ok", "refused", "lost"}, kind: Kinds, token: 0 .. MaxPairs,
        again: BOOLEAN, ran: 0 .. 2]
  \cup [op: {"waiting"}, kind: Retried \cup {"restore"}, ran: 0 .. 2]
  \cup [op: {"leaving", "left"}, token: Pairs, cookie: 0 .. MaxPairs]

Refresh ==
       {Idle}
  \cup [op: {"sent"}, header: Pairs, cookie: 0 .. MaxPairs]
  \cup [op: {"answered"}, pair: 0 .. MaxPairs]

\* Types, and the joining of refreshes: whoever waits waits for one in flight.
TypeOK ==
  /\ issued \in 0 .. MaxPairs
  /\ login \in [Pairs -> 0 .. MaxPairs]
  /\ live \subseteq 1 .. issued
  /\ expired \subseteq 1 .. issued
  /\ jar \in 0 .. MaxPairs
  /\ access \in 0 .. MaxPairs
  /\ csrf \in 0 .. MaxPairs
  /\ status \in {"loading", "authenticated", "unauthenticated"}
  /\ shared \in Refreshes \cup {None}
  /\ refresh \in [Refreshes -> Refresh]
  /\ call \in [Calls -> Call]
  /\ refused \subseteq Pairs
  /\ lost \in BOOLEAN
  /\ burned \in BOOLEAN
  /\ \A c \in Calls : call[c].op = "waiting" => shared # None
  /\ shared # None => refresh[shared] # Idle

\* A tab that has just been opened and has nothing to restore.
Init ==
  /\ issued = 0
  /\ login = [g \in Pairs |-> 0]
  /\ live = {} /\ expired = {}
  /\ jar = 0 /\ access = 0 /\ csrf = 0
  /\ status = "unauthenticated"
  /\ shared = None
  /\ refresh = [s \in Refreshes |-> Idle]
  /\ call = [c \in Calls |-> Idle]
  /\ refused = {} /\ lost = FALSE /\ burned = FALSE

-----------------------------------------------------------------------------
(***************************************************************************)
(* The server                                                              *)
(***************************************************************************)

FamilyOf(g) == {h \in Pairs : login[h] = login[g]}

\* A new pair, the first of a family of its own when root is 0.
IssuePair(root) ==
  /\ issued < MaxPairs
  /\ issued' = issued + 1
  /\ login' = [login EXCEPT ![issued + 1] = IF root = 0 THEN issued + 1 ELSE root]

Expire(g) ==
  /\ g \in (1 .. issued) \ expired
  /\ expired' = expired \cup {g}
  /\ UNCHANGED <<issued, login, live, tab, refresh, call, history>>

\* A change of the password, a disabled account, the end of REFRESH_TTL.
EndSessions ==
  /\ live # {}
  /\ live' = {}
  /\ UNCHANGED <<issued, login, expired, tab, refresh, call, history>>

\* The token is looked at before anything is carried out.
ServeCall(c) ==
  /\ call[c].op = "sent"
  /\ call[c].kind # "login"
  /\ LET accepted == call[c].token \notin expired \cup {0}
     IN /\ call' = [call EXCEPT ![c].op = IF accepted THEN "ok" ELSE "refused",
                                ![c].ran = IF accepted /\ call[c].kind \in Counted
                                           THEN @ + 1 ELSE @]
        /\ refused' = IF accepted THEN refused ELSE refused \cup ({call[c].token} \ {0})
  /\ UNCHANGED <<server, tab, refresh, lost, burned>>

ServeLogin(c) ==
  /\ call[c].op = "sent"
  /\ call[c].kind = "login"
  /\ \/ /\ IssuePair(0)
        /\ live' = live \cup {issued + 1}
        /\ call' = [call EXCEPT ![c].op = "ok", ![c].token = issued + 1]
     \/ /\ call' = [call EXCEPT ![c].op = "refused"]
        /\ UNCHANGED <<issued, login, live>>
  /\ UNCHANGED <<expired, tab, refresh, history>>

\* assertCsrf, then RefreshTokenService.rotate: a token that is not live any
\* more ends its family.
ServeRefresh(s) ==
  /\ refresh[s].op = "sent"
  /\ LET k == refresh[s].cookie
         answer(g) == refresh' = [refresh EXCEPT ![s] = [op |-> "answered", pair |-> g]]
     IN \/ /\ k # refresh[s].header
           /\ answer(0)
           /\ UNCHANGED <<issued, login, live, burned>>
        \/ /\ k = refresh[s].header
           /\ k \in live
           /\ IssuePair(login[k])
           /\ live' = (live \ {k}) \cup {issued + 1}
           /\ answer(issued + 1)
           /\ UNCHANGED burned
        \/ /\ k = refresh[s].header
           /\ k \notin live
           /\ live' = live \ FamilyOf(k)
           /\ burned' = (burned \/ live \cap FamilyOf(k) # {})
           /\ answer(0)
           /\ UNCHANGED <<issued, login>>
  /\ UNCHANGED <<expired, tab, call, refused, lost>>

ServeLogout(c) ==
  /\ call[c].op = "leaving"
  /\ live' = IF call[c].cookie = call[c].token THEN live \ FamilyOf(call[c].token) ELSE live
  /\ call' = [call EXCEPT ![c].op = "left"]
  /\ UNCHANGED <<issued, login, expired, tab, refresh, history>>

\* A request is lost on its way, or its answer is.
LoseCall(c) ==
  /\ call[c].op \in {"sent", "ok", "refused"}
  /\ call' = [call EXCEPT ![c].op = "lost"]
  /\ UNCHANGED <<server, tab, refresh, history>>

LoseRefresh(s) ==
  /\ refresh[s] # Idle
  /\ refresh[s] # [op |-> "answered", pair |-> 0]
  /\ refresh' = [refresh EXCEPT ![s] = [op |-> "answered", pair |-> 0]]
  /\ lost' = TRUE
  /\ UNCHANGED <<server, tab, call, refused, burned>>

-----------------------------------------------------------------------------
(***************************************************************************)
(* The tab                                                                 *)
(***************************************************************************)

ClearSession ==
  /\ access' = 0 /\ csrf' = 0
  /\ status' = "unauthenticated"

Request(kind, token) ==
  [op |-> "sent", kind |-> kind, token |-> token, again |-> FALSE, ran |-> 0]

\* The same request with the token of now.
Repeated(q, token) ==
  [op |-> "sent", kind |-> q.kind, token |-> token, again |-> TRUE, ran |-> q.ran]

Waiting(q) == [op |-> "waiting", kind |-> q.kind, ran |-> q.ran]

\* authorizedRequest, and confirmedRequest with its probe.
Send(c, kind) ==
  /\ call[c] = Idle
  /\ kind \in Retried
  /\ status = "authenticated"
  /\ call' = [call EXCEPT ![c] = Request(kind, access)]
  /\ UNCHANGED <<server, tab, refresh, history>>

\* Mutant: every 401 starts a refresh of its own.
RefreshAlone(c) ==
  \/ /\ csrf # 0
     /\ \E s \in Refreshes :
          /\ refresh[s] = Idle
          /\ refresh' = [refresh EXCEPT ![s] =
                           [op |-> "sent", header |-> csrf, cookie |-> jar]]
          /\ shared' = s
     /\ call' = [call EXCEPT ![c] = Waiting(@)]
     /\ UNCHANGED <<access, csrf, status>>
  \/ /\ csrf = 0
     /\ call' = [call EXCEPT ![c] = Idle]
     /\ ClearSession
     /\ UNCHANGED <<refresh, shared>>

\* refreshSession and runRefresh up to the request: the call waits for the
\* refresh in flight or for a new one, and fails when there is no CSRF token.
JoinRefresh(c) ==
  \/ /\ shared # None
     /\ call' = [call EXCEPT ![c] = Waiting(@)]
     /\ UNCHANGED <<refresh, shared, access, csrf, status>>
  \/ /\ shared = None
     /\ csrf # 0
     /\ \E s \in Refreshes :
          /\ refresh[s] = Idle
          /\ refresh' = [refresh EXCEPT ![s] =
                           [op |-> "sent", header |-> csrf, cookie |-> jar]]
          /\ shared' = s
     /\ call' = [call EXCEPT ![c] = Waiting(@)]
     /\ UNCHANGED <<access, csrf, status>>
  \/ /\ shared = None
     /\ csrf = 0
     /\ call' = [call EXCEPT ![c] = Idle]
     /\ ClearSession
     /\ UNCHANGED <<refresh, shared>>

\* Mutant: an answer of 401 always asks for a refresh.
NeverRefreshed(token) == FALSE

\* Another request has refreshed while this one was on its way.
AlreadyRefreshed(token) == access # 0 /\ access # token

\* The 401 of an authorizedRequest, the first time and after the retry.
DataRefused(c) ==
  /\ call[c].op = "refused"
  /\ call[c].kind \in Retried
  /\ \/ /\ ~call[c].again
        /\ AlreadyRefreshed(call[c].token)
        /\ call' = [call EXCEPT ![c] = Repeated(@, access)]
        /\ UNCHANGED <<refresh, shared, access, csrf, status>>
     \/ /\ ~call[c].again
        /\ ~AlreadyRefreshed(call[c].token)
        /\ JoinRefresh(c)
     \/ /\ call[c].again
        /\ call' = [call EXCEPT ![c] = Idle]
        /\ ClearSession
        /\ UNCHANGED <<refresh, shared>>
  /\ UNCHANGED <<server, jar, history>>

\* After the probe the request with the code is sent, once.
DataDone(c) ==
  /\ call[c].op = "ok"
  /\ call[c].kind \in Retried
  /\ \/ /\ call[c].kind = "data"
        /\ call' = [call EXCEPT ![c] = Idle]
     \/ /\ call[c].kind = "probe"
        /\ call' = [call EXCEPT ![c] = Request("code", access)]
  /\ UNCHANGED <<server, tab, refresh, history>>

\* Mutant: a request is repeated when the network fails.
RepeatLost(c) ==
  /\ call[c].op = "lost"
  /\ call[c].kind \in Retried
  /\ call' = [call EXCEPT ![c] = IF @.again THEN Idle ELSE Repeated(@, access)]
  /\ UNCHANGED <<server, tab, refresh, history>>

\* A failure of the network goes to the caller.
DataLost(c) ==
  /\ call[c].op = "lost"
  /\ call[c].kind \in Retried
  /\ call' = [call EXCEPT ![c] = Idle]
  /\ UNCHANGED <<server, tab, refresh, history>>

\* Whatever the answer to a request with a code is, it is the caller's.
CodeAnswered(c) ==
  /\ call[c].op \in {"ok", "refused", "lost"}
  /\ call[c].kind = "code"
  /\ call' = [call EXCEPT ![c] = Idle]
  /\ UNCHANGED <<server, tab, refresh, history>>

\* Mutant: only one of the waiting calls is told.
OneResumed(g) ==
  IF \E c \in Calls : call[c].op = "waiting"
  THEN [call EXCEPT ![CHOOSE c \in Calls : call[c].op = "waiting"] = Repeated(@, g)]
  ELSE call

\* What the functions that wait for the refresh do when it has succeeded with
\* a pair: retryOnce, and loadUserAndConsents of restoreSession.
Resumed(g) ==
  [c \in Calls |->
     IF call[c].op # "waiting" THEN call[c]
     ELSE IF call[c].kind = "restore" THEN Request("me", g)
     ELSE Repeated(call[c], g)]

GivenUp == [c \in Calls |-> IF call[c].op = "waiting" THEN Idle ELSE call[c]]

\* The rest of runRefresh.  A session that was cleared meanwhile gets the
\* tokens all the same.
RefreshAnswered(s) ==
  /\ refresh[s].op = "answered"
  /\ shared = s
  /\ LET g == refresh[s].pair IN
     \/ /\ g # 0
        /\ jar' = g /\ access' = g /\ csrf' = g
        /\ call' = Resumed(g)
        /\ UNCHANGED status
     \/ /\ g = 0
        /\ call' = GivenUp
        /\ ClearSession
        /\ UNCHANGED jar
  /\ shared' = None
  /\ refresh' = [refresh EXCEPT ![s] = Idle]
  /\ UNCHANGED <<server, history>>

\* The answer to a refresh of the page before a reload: its cookies may still
\* be stored.
StrayAnswer(s) ==
  /\ refresh[s].op = "answered"
  /\ shared # s
  /\ \/ jar' = refresh[s].pair /\ refresh[s].pair # 0
     \/ UNCHANGED jar
  /\ refresh' = [refresh EXCEPT ![s] = Idle]
  /\ UNCHANGED <<server, access, csrf, status, shared, call, history>>

-----------------------------------------------------------------------------
LoginSend(c) ==
  /\ call[c] = Idle
  /\ status = "unauthenticated"
  /\ call' = [call EXCEPT ![c] = Request("login", 0)]
  /\ UNCHANGED <<server, tab, refresh, history>>

\* verifyLogin up to requestMe.
LoginAnswered(c) ==
  /\ call[c].op \in {"ok", "refused", "lost"}
  /\ call[c].kind = "login"
  /\ LET g == call[c].token IN
     \/ /\ call[c].op = "ok"
        /\ jar' = g /\ access' = g /\ csrf' = g
        /\ call' = [call EXCEPT ![c] = Request("me", g)]
     \/ /\ call[c].op # "ok"
        /\ call' = [call EXCEPT ![c] = Idle]
        /\ UNCHANGED <<jar, access, csrf>>
  /\ UNCHANGED <<server, status, shared, refresh, history>>

\* The rest of loadUserAndConsents, and the catch of restoreSession.
MeAnswered(c) ==
  /\ call[c].op \in {"ok", "refused", "lost"}
  /\ call[c].kind = "me"
  /\ \/ /\ call[c].op = "ok"
        /\ status' = "authenticated"
        /\ call' = [call EXCEPT ![c] = IF access = 0 THEN Idle ELSE Request("consents", access)]
        /\ UNCHANGED <<access, csrf>>
     \/ /\ call[c].op = "refused" \/ (call[c].op = "lost" /\ status = "loading")
        /\ call' = [call EXCEPT ![c] = Idle]
        /\ ClearSession
     \/ /\ call[c].op = "lost" /\ status # "loading"
        /\ call' = [call EXCEPT ![c] = Idle]
        /\ UNCHANGED <<access, csrf, status>>
  /\ UNCHANGED <<server, jar, shared, refresh, history>>

ConsentsAnswered(c) ==
  /\ call[c].op \in {"ok", "refused", "lost"}
  /\ call[c].kind = "consents"
  /\ call' = [call EXCEPT ![c] = Idle]
  /\ IF call[c].op = "refused" THEN ClearSession ELSE UNCHANGED <<access, csrf, status>>
  /\ UNCHANGED <<server, jar, shared, refresh, history>>

\* Without a CSRF token nothing is sent.
LogoutSend(c) ==
  /\ call[c] = Idle
  /\ status = "authenticated"
  /\ \/ /\ csrf # 0
        /\ call' = [call EXCEPT ![c] = [op |-> "leaving", token |-> csrf, cookie |-> jar]]
        /\ UNCHANGED <<access, csrf, status>>
     \/ /\ csrf = 0
        /\ ClearSession
        /\ UNCHANGED call
  /\ UNCHANGED <<server, jar, shared, refresh, history>>

\* Answered or not, the session of the tab is cleared; an answer that is not an
\* error clears the cookies.
LogoutAnswered(c) ==
  /\ call[c].op \in {"leaving", "left"}
  /\ call' = [call EXCEPT ![c] = Idle]
  /\ ClearSession
  /\ \/ jar' = 0 /\ call[c].op = "left" /\ call[c].cookie = call[c].token
     \/ UNCHANGED jar
  /\ UNCHANGED <<server, shared, refresh, history>>

\* Everything the page was doing is gone but the requests the server may still
\* answer; then restoreSession.
Reload ==
  /\ lost' = (lost \/ shared # None)
  /\ access' = 0
  /\ \E c \in Calls :
       \/ /\ csrf # 0
          /\ \E s \in Refreshes :
               /\ refresh[s] = Idle
               /\ refresh' = [refresh EXCEPT ![s] =
                                [op |-> "sent", header |-> csrf, cookie |-> jar]]
               /\ shared' = s
          /\ call' = [d \in Calls |->
                        IF d = c THEN Waiting(Request("restore", 0)) ELSE Idle]
          /\ status' = "loading"
       \/ /\ csrf = 0
          /\ call' = [d \in Calls |-> Idle]
          /\ status' = "unauthenticated"
          /\ shared' = None
          /\ UNCHANGED refresh
  /\ UNCHANGED <<server, jar, csrf, refused, burned>>

-----------------------------------------------------------------------------
ServerStep ==
  \/ \E g \in Pairs : Expire(g)
  \/ EndSessions
  \/ \E c \in Calls : ServeCall(c) \/ ServeLogin(c) \/ ServeLogout(c) \/ LoseCall(c)
  \/ \E s \in Refreshes : ServeRefresh(s) \/ LoseRefresh(s)

TabStep ==
  \/ \E c \in Calls, k \in Retried : Send(c, k)
  \/ \E c \in Calls :
       \/ DataRefused(c) \/ DataDone(c) \/ DataLost(c) \/ CodeAnswered(c)
       \/ LoginSend(c) \/ LoginAnswered(c) \/ MeAnswered(c) \/ ConsentsAnswered(c)
       \/ LogoutSend(c) \/ LogoutAnswered(c)
  \/ \E s \in Refreshes : RefreshAnswered(s) \/ StrayAnswer(s)
  \/ Reload

Next == ServerStep \/ TabStep

Spec == Init /\ [][Next]_vars

-----------------------------------------------------------------------------
(***************************************************************************)
(* Properties                                                              *)
(***************************************************************************)

\* The tab does not end its own session: however 401 answers, logins, logouts
\* and reloads overlap, the server sees a refresh token of a live family twice
\* only when the answer to a refresh was lost (refreshSession, authorizedRequest).
ReuseNeedsLoss == burned => lost

\* No call is carried out twice, neither one that is repeated after a 401 nor
\* one whose answer was lost (authorizedRequest, retryOnce, confirmedRequest).
RanAtMostOnce ==
  \A c \in Calls : "ran" \in DOMAIN call[c] => call[c].ran <= 1
=============================================================================
