--------------------------- MODULE SessionsProofs ---------------------------
(***************************************************************************)
(* Proofs about Sessions, for any number of accounts, logins, tokens and   *)
(* requests, and about the tab of Browser, for any number of calls,        *)
(* refreshes and pairs of tokens.                                          *)
(***************************************************************************)
EXTENDS Sessions, MCBrowser, TLAPS

LEMMA RequestFields ==
  ASSUME NEW x \in Request
  PROVE  /\ x.op \in {"login", "expel"} => x.user \in Users
         /\ x.op \in {"issue", "check", "respond"} => x.token \in Tokens
         /\ x.op = "claim" => x.token \in Tokens /\ x.next \in Tokens
         /\ x.op = "burn" => x.family \in Families /\ x.cause \in Tokens \cup {None}
         /\ x.op = "revoke" => /\ x.rows \subseteq Tokens
                               /\ x.cause \in Tokens \cup {None}
                               /\ x.user \in Users \cup {None}
BY DEF Request, Idle

LEMMA GotoKeepsType ==
  ASSUME TypeOK, NEW r \in Requests, NEW x \in Request, Goto(r, x)
  PROVE  /\ req' \in [Requests -> Request]
         /\ req'[r] = x
         /\ \A q \in Requests : q # r => req'[q] = req[q]
BY DEF TypeOK, Goto

Born(t) == token[t].state # "unborn"

LEMMA RowFacts ==
  ASSUME NEW row \in TokenRow
  PROVE  /\ row.next \in Tokens \cup {None}
         /\ row.state = "unborn" => row = Unborn
         /\ row.state # "unborn" => row.family \in Families /\ row.user \in Users
         /\ row.next # None => row.state = "revoked"
         /\ row.state \in {"unborn", "live", "revoked"}
BY DEF TokenRow, Unborn

-----------------------------------------------------------------------------
(***************************************************************************)
(* The inductive invariant.  A token that is not yet sent is carried by    *)
(* one request; a family has at most one live token that is sent or on its *)
(* way to be sent.  A statement under way has found the rows that its      *)
(* handler must revoke: the token that replaced a reused one, and the      *)
(* refreshed tokens of a disabled account.                                 *)
(***************************************************************************)
Unsent(x, n) ==
  \/ x.op = "claim" /\ x.next = n
  \/ x.op \in {"check", "respond"} /\ x.token = n

Sendable(n) ==
  \/ n \in held
  \/ \E q \in Requests : req[q].op \in {"check", "respond"} /\ req[q].token = n

Kept(n) ==
  /\ Live(n)
  /\ Refreshed(n)
  /\ \/ n \in held
     \/ \E q \in Requests : req[q].op = "respond" /\ req[q].token = n

Dead(t) == Born(t) /\ ~Live(t)

RequestOK(x) ==
  /\ x.op = "issue" => x.token \in held
  /\ x.op = "claim" => /\ x.token \in held
                       /\ token[x.next].family = token[x.token].family
                       /\ \A t \in Tokens : token[t].next # x.next
  /\ x.op \in {"burn", "revoke"} => x.cause = None \/ Dead(x.cause)
  /\ x.op = "burn" /\ x.cause # None => token[x.cause].family = x.family
  /\ x.op = "revoke" /\ x.cause # None =>
       LET n == token[x.cause].next IN n = None \/ Dead(n) \/ n \in x.rows
  /\ x.op = "expel" => x.user \notin active
  /\ x.op = "revoke" /\ x.user # None =>
       /\ x.user \notin active
       /\ \A n \in Tokens : Kept(n) /\ token[n].user = x.user => n \in x.rows

Descent ==
  /\ \A t \in held : Born(t)
  /\ \A t \in Tokens : token[t].next # None =>
       Born(token[t].next) /\ token[token[t].next].family = token[t].family

OneCarrier ==
  \A r \in Requests, n \in Tokens : Unsent(req[r], n) =>
    /\ Born(n) /\ n \notin held
    /\ \A q \in Requests : Unsent(req[q], n) => q = r

OneCurrent ==
  \A s, t \in Tokens :
    /\ Sendable(s) /\ Live(s)
    /\ Sendable(t) /\ Live(t)
    /\ token[s].family = token[t].family
    => s = t

ReusedIsDead ==
  \A t \in reused :
    Dead(t) /\ (token[t].next # None => Dead(token[t].next))

ClosedKeepsNothing ==
  /\ closed \cap active = {}
  /\ \A n \in Tokens : Kept(n) => token[n].user \notin closed

SessionsInv ==
  /\ TypeOK
  /\ Descent
  /\ \A r \in Requests : RequestOK(req[r])
  /\ OneCarrier
  /\ OneCurrent
  /\ ReusedIsDead
  /\ ClosedKeepsNothing

LEMMA SessionsInvInit == Init => SessionsInv
BY DEF Init, SessionsInv, TypeOK, TokenRow, Request, Idle, Unborn, Descent,
       RequestOK, OneCarrier, Unsent, OneCurrent, Sendable, ReusedIsDead,
       ClosedKeepsNothing, Kept, Live

-----------------------------------------------------------------------------
(***************************************************************************)
(* What every step does to the rows: a token keeps its family and its      *)
(* user, and a revoked token never changes again.                          *)
(***************************************************************************)
Aging ==
  \A t \in Tokens :
    /\ Born(t) => /\ token'[t].state # "unborn"
                  /\ token'[t].family = token[t].family
                  /\ token'[t].user = token[t].user
    /\ Dead(t) => token'[t] = token[t]

\* What holds of another request still holds after a step.
LEMMA OtherRequest ==
  ASSUME SessionsInv, Aging, NEW q \in Requests, req'[q] = req[q],
         held \subseteq held', active' \subseteq active,
         \A n \in Tokens : Kept(n)' => Kept(n) \/ token'[n].user \in active',
         req[q].op = "claim" => \A t \in Tokens : token'[t].next # req[q].next
  PROVE  RequestOK(req[q])'
<1>0. PICK x \in Request : x = req[q]
  BY DEF SessionsInv, TypeOK
<1>1. /\ RequestOK(x) /\ TypeOK /\ Descent
      /\ \A n \in Tokens : Unsent(x, n) => Born(n)
  BY <1>0 DEF SessionsInv, OneCarrier
<1>2. x.op = "issue" => x.token \in held'
  BY <1>1 DEF RequestOK
<1>3. ASSUME x.op = "claim"
      PROVE  /\ x.token \in held'
             /\ token'[x.next].family = token'[x.token].family
  <2>1. x.token \in held /\ token[x.next].family = token[x.token].family
    BY <1>1, <1>3 DEF RequestOK
  <2>2. x.token \in Tokens /\ x.next \in Tokens /\ Born(x.token) /\ Born(x.next)
    BY <1>1, <1>3, <2>1, RequestFields DEF Descent, Unsent
  <2>3. QED
    BY <2>1, <2>2 DEF Aging
<1>4. ASSUME x.op \in {"burn", "revoke"}, x.cause # None
      PROVE  /\ Dead(x.cause)' /\ token'[x.cause] = token[x.cause]
             /\ x.op = "burn" => token'[x.cause].family = x.family
  <2>1. /\ x.cause \in Tokens /\ Dead(x.cause)
        /\ x.op = "burn" => token[x.cause].family = x.family
    BY <1>1, <1>4, RequestFields DEF RequestOK
  <2>2. QED
    BY <2>1 DEF Aging, Dead, Born, Live
<1>5. ASSUME x.op = "revoke", x.cause # None
      PROVE  (LET n == token[x.cause].next IN n = None \/ Dead(n) \/ n \in x.rows)'
  <2>0. PICK n : n = token[x.cause].next
    OBVIOUS
  <2>1. n = None \/ Dead(n) \/ n \in x.rows
    BY <1>1, <1>5, <2>0 DEF RequestOK
  <2>2. token[x.cause] \in TokenRow
    BY <1>1, <1>5, RequestFields DEF TypeOK
  <2>3. n \in Tokens \cup {None}
    BY <2>0, <2>2, RowFacts
  <2>4. Dead(n) /\ n \in Tokens => Dead(n)'
    BY DEF Aging, Dead, Born, Live
  <2>5. QED
    BY <1>4, <1>5, <2>0, <2>1, <2>3, <2>4
<1>6. ASSUME x.op = "revoke", x.user # None
      PROVE  /\ x.user \notin active'
             /\ \A n \in Tokens : Kept(n)' /\ token'[n].user = x.user => n \in x.rows
  <2>1. /\ x.user \notin active
        /\ \A n \in Tokens : Kept(n) /\ token[n].user = x.user => n \in x.rows
    BY <1>1, <1>6 DEF RequestOK
  <2>2. ASSUME NEW n \in Tokens, Kept(n) PROVE token'[n].user = token[n].user
    BY <2>2 DEF Aging, Kept, Live, Born
  <2>3. QED
    BY <2>1, <2>2
<1>7. x.op = "expel" => x.user \notin active'
  BY <1>1 DEF RequestOK
<1>8. QED
  BY <1>0, <1>2, <1>3, <1>4, <1>5, <1>6, <1>7 DEF RequestOK

-----------------------------------------------------------------------------
(***************************************************************************)
(* Steps that leave the rows alone.                                        *)
(***************************************************************************)
LEMMA QuietStep ==
  ASSUME SessionsInv, NEW r \in Requests, NEW x \in Request, Goto(r, x),
         UNCHANGED <<token, held, reused, closed>>, active' \subseteq active,
         x.op \notin {"claim", "check"},
         x.op = "respond" => /\ req[r].op = "check" /\ req[r].token = x.token
                             /\ token[x.token].user \in active'
                             /\ token[x.token].user \in active,
         RequestOK(x)'
  PROVE  SessionsInv'
<1>1. /\ req' \in [Requests -> Request] /\ req'[r] = x
      /\ \A q \in Requests : q # r => req'[q] = req[q]
  BY GotoKeepsType DEF SessionsInv
<1>2. TypeOK' /\ Descent' /\ ReusedIsDead'
  BY <1>1 DEF SessionsInv, TypeOK, Descent, ReusedIsDead, Dead, Born, Live
<1>3. ASSUME NEW q \in Requests, NEW n \in Tokens, Unsent(req'[q], n)
      PROVE  Unsent(req[q], n)
  BY <1>1, <1>3 DEF Unsent
<1>4. OneCarrier'
  BY <1>3 DEF SessionsInv, OneCarrier, Born
<1>5. ASSUME NEW n \in Tokens, Sendable(n)' PROVE Sendable(n)
  BY <1>1, <1>5 DEF Sendable
<1>6. OneCurrent'
  BY <1>5 DEF SessionsInv, OneCurrent, Live
<1>7. ASSUME NEW n \in Tokens, Kept(n)'
      PROVE  Kept(n) \/ (token'[n].user \in active' /\ token'[n].user \in active)
  BY <1>1, <1>7 DEF Kept, Live, Refreshed
<1>8. ClosedKeepsNothing'
  BY <1>7 DEF SessionsInv, ClosedKeepsNothing
<1>9. ASSUME NEW q \in Requests PROVE RequestOK(req[q])'
  <2>1. CASE q = r
    BY <1>1, <2>1
  <2>2. CASE q # r
    <3>1. Aging
      BY DEF Aging, Born
    <3>2. req[q].op = "claim" => \A t \in Tokens : token'[t].next # req[q].next
      BY DEF SessionsInv, RequestOK
    <3>3. QED
      BY <1>1, <1>7, <2>2, <3>1, <3>2, OtherRequest
  <2>3. QED
    BY <2>1, <2>2
<1>10. QED
  BY <1>2, <1>4, <1>6, <1>8, <1>9 DEF SessionsInv

LEMMA Unconstrained ==
  ASSUME NEW x, x.op \in {"idle", "login", "check", "respond"}
  PROVE  RequestOK(x) /\ RequestOK(x)'
BY DEF RequestOK

\* A handler that has read that the token it was brought is dead.
LEMMA BurnStep ==
  ASSUME SessionsInv, NEW r \in Requests, NEW t \in Tokens, t \in held, ~Live(t),
         Burn(r, t), UNCHANGED <<token, active, held, reused, closed>>
  PROVE  SessionsInv'
<1>1. PICK x : x = [op |-> "burn", family |-> token[t].family, cause |-> t]
  OBVIOUS
<1>2. Dead(t)
  BY DEF SessionsInv, Descent, Dead
<1>3. x \in Request
  BY <1>1, <1>2, RowFacts DEF SessionsInv, TypeOK, Request, Dead, Born
<1>4. RequestOK(x)'
  BY <1>1, <1>2 DEF RequestOK, Dead, Born, Live
<1>5. QED
  BY <1>1, <1>3, <1>4, QuietStep DEF Burn

\* revokeFamily is about to be called for no reused token.
LEMMA EndFamilyStep ==
  ASSUME SessionsInv, NEW r \in Requests, NEW t \in Tokens, Born(t),
         Goto(r, [op |-> "burn", family |-> token[t].family, cause |-> None]),
         UNCHANGED <<token, active, held, reused, closed>>
  PROVE  SessionsInv'
<1>1. PICK x : x = [op |-> "burn", family |-> token[t].family, cause |-> None]
  OBVIOUS
<1>2. x \in Request
  BY <1>1, RowFacts DEF SessionsInv, TypeOK, Request, Born
<1>3. RequestOK(x)'
  BY <1>1 DEF RequestOK
<1>4. QED
  BY <1>1, <1>2, <1>3, QuietStep

LEMMA RefreshReadStep ==
  ASSUME SessionsInv, NEW r \in Requests, RefreshRead(r)
  PROVE  SessionsInv'
<1>1. PICK n : n = req[r].token
  OBVIOUS
<1>2. req[r].op = "check" /\ n \in Tokens /\ Born(n)
  BY <1>1, RequestFields DEF RefreshRead, SessionsInv, TypeOK, OneCarrier, Unsent
<1>3. CASE token[n].user \in active
  <2>1. PICK x : x = [op |-> "respond", token |-> n]
    OBVIOUS
  <2>2. x \in Request /\ RequestOK(x)'
    BY <1>2, <2>1, Unconstrained DEF Request
  <2>3. Goto(r, x) /\ UNCHANGED <<token, active, held, reused, closed>>
    BY <1>1, <1>3, <2>1 DEF RefreshRead
  <2>4. QED
    BY <1>1, <1>2, <1>3, <2>1, <2>2, <2>3, QuietStep
<1>4. CASE token[n].user \notin active
  BY <1>1, <1>2, <1>4, EndFamilyStep DEF RefreshRead
<1>5. QED
  BY <1>3, <1>4

\* A statement starts: its rows are all that a disabling must find, and the
\* one that a reuse must find.
LEMMA StartStep ==
  ASSUME SessionsInv, NEW r \in Requests, BurnStart(r) \/ ExpelStart(r)
  PROVE  SessionsInv'
<1>1. CASE BurnStart(r)
  <2>1. PICK x : x = [op |-> "revoke", cause |-> req[r].cause, user |-> None,
            rows |-> {t \in Tokens : Live(t) /\ token[t].family = req[r].family}]
    OBVIOUS
  <2>2. req[r].op = "burn" /\ req[r].cause \in Tokens \cup {None}
    BY <1>1, RequestFields DEF BurnStart, SessionsInv, TypeOK
  <2>3. x \in Request
    BY <2>1, <2>2 DEF Request
  <2>4. RequestOK(req[r])
    BY DEF SessionsInv
  <2>5. ASSUME x.cause # None
        PROVE  LET n == token[x.cause].next IN n = None \/ Dead(n) \/ n \in x.rows
    <3> DEFINE n == token[x.cause].next
    <3>1. x.cause \in Tokens /\ Dead(x.cause) /\ token[x.cause].family = req[r].family
      BY <2>1, <2>2, <2>4, <2>5 DEF RequestOK
    <3>2. n = None \/ (n \in Tokens /\ Born(n) /\ token[n].family = req[r].family)
      BY <3>1, RowFacts DEF SessionsInv, TypeOK, Descent
    <3>3. QED
      BY <2>1, <3>2 DEF Dead
  <2>6. RequestOK(x)'
    BY <1>1, <2>1, <2>2, <2>4, <2>5 DEF RequestOK, BurnStart, Dead, Born, Live
  <2>7. QED
    BY <1>1, <2>1, <2>3, <2>6, QuietStep DEF BurnStart
<1>2. CASE ExpelStart(r)
  <2>1. PICK x : x = [op |-> "revoke", cause |-> None, user |-> req[r].user,
                      rows |-> LiveOf(req[r].user)]
    OBVIOUS
  <2>2. req[r].op = "expel" /\ req[r].user \in Users /\ req[r].user \notin active
    BY <1>2, RequestFields DEF ExpelStart, SessionsInv, TypeOK, RequestOK
  <2>3. x \in Request
    BY <2>1, <2>2 DEF Request, LiveOf
  <2>4. RequestOK(x)'
    BY <1>2, <2>1, <2>2 DEF ExpelStart, RequestOK, Kept, Live, LiveOf
  <2>5. QED
    BY <1>2, <2>1, <2>3, <2>4, QuietStep DEF ExpelStart
<1>3. QED
  BY <1>1, <1>2

-----------------------------------------------------------------------------
(***************************************************************************)
(* The response, and time.                                                 *)
(***************************************************************************)
LEMMA RespondStep ==
  ASSUME SessionsInv, NEW r \in Requests, Respond(r)
  PROVE  SessionsInv'
<1>1. PICK n : n = req[r].token
  OBVIOUS
<1>2. /\ req[r].op = "respond" /\ n \in Tokens /\ Born(n) /\ n \notin held
      /\ \A q \in Requests : Unsent(req[q], n) => q = r
  BY <1>1, RequestFields DEF Respond, SessionsInv, TypeOK, OneCarrier, Unsent
<1>3. /\ req' \in [Requests -> Request] /\ req'[r] = Idle
      /\ \A q \in Requests : q # r => req'[q] = req[q]
  BY GotoKeepsType, Idle \in Request DEF Respond, SessionsInv, Request
<1>4. held' = held \cup {n} /\ UNCHANGED <<token, active, reused, closed>>
  BY <1>1 DEF Respond
<1>5. TypeOK' /\ Descent' /\ ReusedIsDead'
  BY <1>2, <1>3, <1>4 DEF SessionsInv, TypeOK, Descent, ReusedIsDead, Dead, Born, Live
<1>6. ASSUME NEW q \in Requests, NEW m \in Tokens, Unsent(req'[q], m)
      PROVE  Unsent(req[q], m) /\ m # n
  BY <1>2, <1>3, <1>6 DEF Unsent, Idle
<1>7. OneCarrier'
  BY <1>4, <1>6 DEF SessionsInv, OneCarrier, Born
<1>8. ASSUME NEW m \in Tokens, Sendable(m)' PROVE Sendable(m)
  BY <1>1, <1>2, <1>3, <1>4, <1>8 DEF Sendable, Idle
<1>9. OneCurrent'
  BY <1>4, <1>8 DEF SessionsInv, OneCurrent, Live
<1>10. ASSUME NEW m \in Tokens, Kept(m)' PROVE Kept(m)
  BY <1>1, <1>2, <1>3, <1>4, <1>10 DEF Kept, Live, Refreshed, Idle
<1>11. ClosedKeepsNothing'
  BY <1>4, <1>10 DEF SessionsInv, ClosedKeepsNothing
<1>12. ASSUME NEW q \in Requests PROVE RequestOK(req[q])'
  <2>1. CASE q = r
    BY <1>3, <2>1, Unconstrained DEF Idle, RequestOK
  <2>2. CASE q # r
    <3>1. Aging
      BY <1>4 DEF Aging, Born
    <3>2. req[q].op = "claim" => \A t \in Tokens : token'[t].next # req[q].next
      BY <1>4 DEF SessionsInv, RequestOK
    <3>3. QED
      BY <1>3, <1>4, <1>10, <2>2, <3>1, <3>2, OtherRequest
  <2>3. QED
    BY <2>1, <2>2
<1>13. QED
  BY <1>5, <1>7, <1>9, <1>11, <1>12 DEF SessionsInv

LEMMA ExpireStep ==
  ASSUME SessionsInv, NEW e \in Tokens, Expire(e)
  PROVE  SessionsInv'
<1>1. /\ token' \in [Tokens -> TokenRow]
      /\ \A t \in Tokens : /\ token'[t].state = token[t].state
                           /\ token'[t].family = token[t].family
                           /\ token'[t].user = token[t].user
                           /\ token'[t].next = token[t].next
                           /\ Dead(t) => token'[t] = token[t]
  <2> DEFINE LiveRow == [state: {"live"}, family: Families, user: Users,
                         late: BOOLEAN, next: {None}]
  <2>1. token[e] \in LiveRow
    BY DEF Expire, Live, SessionsInv, TypeOK, TokenRow, Unborn
  <2>2. [token[e] EXCEPT !.late = TRUE] \in LiveRow /\ LiveRow \subseteq TokenRow
    BY <2>1 DEF TokenRow
  <2> HIDE DEF LiveRow
  <2>3. token' = [token EXCEPT ![e] = [token[e] EXCEPT !.late = TRUE]] /\ Live(e)
    BY DEF Expire
  <2>4. token \in [Tokens -> TokenRow]
    BY DEF SessionsInv, TypeOK
  <2>5. /\ [token[e] EXCEPT !.late = TRUE].state = token[e].state
        /\ [token[e] EXCEPT !.late = TRUE].family = token[e].family
        /\ [token[e] EXCEPT !.late = TRUE].user = token[e].user
        /\ [token[e] EXCEPT !.late = TRUE].next = token[e].next
    BY <2>1 DEF LiveRow
  <2>6. QED
    BY <2>2, <2>3, <2>4, <2>5 DEF Dead
<1>2. UNCHANGED <<active, req, held, reused, closed>>
  BY DEF Expire
<1>3. TypeOK' /\ OneCarrier'
  BY <1>1, <1>2 DEF SessionsInv, TypeOK, OneCarrier, Born
<1>4. \A t \in Tokens : token[t].next \in Tokens \cup {None}
  BY RowFacts DEF SessionsInv, TypeOK
<1>5. Descent' /\ ReusedIsDead'
  BY <1>1, <1>2, <1>4 DEF SessionsInv, TypeOK, Descent, ReusedIsDead, Dead, Born, Live
<1>6. OneCurrent'
  BY <1>1, <1>2 DEF SessionsInv, OneCurrent, Sendable, Live
<1>7. ASSUME NEW n \in Tokens, Kept(n)' PROVE Kept(n)
  BY <1>1, <1>2, <1>7 DEF Kept, Live, Refreshed
<1>8. ClosedKeepsNothing'
  BY <1>1, <1>2, <1>7 DEF SessionsInv, ClosedKeepsNothing
<1>9. ASSUME NEW q \in Requests PROVE RequestOK(req[q])'
  <2>1. Aging
    BY <1>1 DEF Aging, Born
  <2>2. req[q].op = "claim" => \A t \in Tokens : token'[t].next # req[q].next
    BY <1>1 DEF SessionsInv, RequestOK
  <2>3. QED
    BY <1>2, <1>7, <2>1, <2>2, OtherRequest
<1>10. QED
  BY <1>3, <1>5, <1>6, <1>8, <1>9 DEF SessionsInv

-----------------------------------------------------------------------------
(***************************************************************************)
(* A new token: of a login, in a family of its own, or of a refresh, in    *)
(* the family of the token that was brought.                               *)
(***************************************************************************)
LEMMA IssueStep ==
  ASSUME SessionsInv, NEW r \in Requests, NEW n \in Tokens, NEW f \in Families,
         NEW u \in Users, Issue(n, f, u), NEW x \in Request, Goto(r, x),
         UNCHANGED <<active, held, reused, closed>>,
         \/ /\ x.op = "claim" /\ x.next = n
            /\ x.token \in held /\ token[x.token].family = f
         \/ /\ x.op = "respond" /\ x.token = n
            /\ \A s \in Tokens : token[s].family # f
  PROVE  SessionsInv'
<1>1. /\ req' \in [Requests -> Request] /\ req'[r] = x
      /\ \A q \in Requests : q # r => req'[q] = req[q]
  BY GotoKeepsType DEF SessionsInv
<1>2. /\ token[n] = Unborn /\ ~Born(n) /\ n \notin held /\ n \notin reused
      /\ \A t \in Tokens : token[t].next # n
      /\ \A q \in Requests : ~Unsent(req[q], n)
  <2>1. n # None
    BY SessionsAssumption
  <2>2. token[n] = Unborn /\ ~Born(n)
    BY DEF Issue, Born, Unborn
  <2>3. QED
    BY <2>1, <2>2 DEF SessionsInv, Descent, OneCarrier, ReusedIsDead, Dead
<1>3. /\ token' \in [Tokens -> TokenRow]
      /\ token'[n].state = "live" /\ token'[n].family = f /\ token'[n].user = u
      /\ token'[n].next = None
      /\ \A t \in Tokens : t # n => token'[t] = token[t]
  <2>1. [state |-> "live", family |-> f, user |-> u, late |-> FALSE, next |-> None]
          \in TokenRow
    BY DEF TokenRow
  <2>2. QED
    BY <2>1 DEF Issue, SessionsInv, TypeOK
<1>4. \A t \in Tokens : token[t].next \in Tokens \cup {None}
  BY RowFacts DEF SessionsInv, TypeOK
<1>5. TypeOK'
  BY <1>1, <1>3 DEF SessionsInv, TypeOK
<1>6. Descent'
  <2>1. \A t \in held' : Born(t)'
    BY <1>2, <1>3 DEF SessionsInv, TypeOK, Descent, Born
  <2>2. ASSUME NEW t \in Tokens, token'[t].next # None
        PROVE  /\ Born(token[t].next)'
               /\ token'[token'[t].next].family = token'[t].family
    <3>1. t # n /\ token'[t] = token[t] /\ token[t].next # n
      BY <1>2, <1>3, <2>2
    <3>2. token'[token[t].next] = token[token[t].next]
      BY <1>3, <1>4, <2>2, <3>1
    <3>3. QED
      BY <2>2, <3>1, <3>2 DEF SessionsInv, Descent, Born
  <2>3. QED
    BY <2>1, <2>2 DEF Descent
<1>7. ReusedIsDead'
  <2>1. ASSUME NEW t \in Tokens, Dead(t) PROVE t # n /\ Dead(t)'
    BY <1>2, <1>3, <2>1 DEF Dead, Born, Live
  <2>2. QED
    BY <1>3, <1>4, <2>1 DEF SessionsInv, TypeOK, ReusedIsDead
<1>8. OneCarrier'
  <2>1. ASSUME NEW q \in Requests, NEW m \in Tokens, Unsent(req'[q], m)
        PROVE  \/ m = n /\ q = r
               \/ m # n /\ q # r /\ Unsent(req[q], m)
    BY <1>1, <1>2, <2>1 DEF Unsent
  <2>2. \A m \in Tokens : Born(m) => Born(m)'
    BY <1>3 DEF Born
  <2>3. Born(n)'
    BY <1>3 DEF Born
  <2>4. QED
    BY <1>2, <2>1, <2>2, <2>3 DEF SessionsInv, OneCarrier
<1>9. OneCurrent'
  <2>1. ASSUME NEW m \in Tokens, Sendable(m)'
        PROVE  Sendable(m) \/ (m = n /\ x.op = "respond")
    BY <1>1, <2>1 DEF Sendable
  <2>2. ~Sendable(n)
    BY <1>2 DEF Sendable, Unsent
  <2>3. QED
    BY <1>3, <2>1, <2>2 DEF SessionsInv, OneCurrent, Live
<1>10. \A m \in Tokens : Refreshed(m)' => Refreshed(m) /\ m # n
  BY <1>2, <1>3, SessionsAssumption DEF Refreshed
<1>11. ASSUME NEW m \in Tokens, Kept(m)' PROVE Kept(m)
  <2>1. Refreshed(m) /\ m # n /\ Live(m)
    BY <1>3, <1>10, <1>11 DEF Kept, Live
  <2>2. QED
    BY <1>1, <1>11, <2>1 DEF Kept
<1>12. ClosedKeepsNothing'
  BY <1>3, <1>10, <1>11 DEF SessionsInv, ClosedKeepsNothing, Kept
<1>13. ASSUME NEW q \in Requests PROVE RequestOK(req[q])'
  <2>1. CASE q = r
    <3>1. CASE x.op = "respond"
      BY <1>1, <2>1, <3>1, Unconstrained
    <3>2. CASE x.op = "claim"
      <4>1. x.token \in Tokens /\ x.token # n
        BY <1>2, <3>2, RequestFields
      <4>2. \A t \in Tokens : token'[t].next # n
        BY <1>2, <1>3, SessionsAssumption
      <4>3. RequestOK(x)'
        BY <1>3, <3>2, <4>1, <4>2 DEF RequestOK
      <4>4. QED
        BY <1>1, <2>1, <4>3
    <3>3. QED
      BY <3>1, <3>2
  <2>2. CASE q # r
    <3>1. Aging
      BY <1>2, <1>3 DEF Aging, Born, Dead
    <3>2. req[q].op = "claim" => \A t \in Tokens : token'[t].next # req[q].next
      <4>1. ASSUME req[q].op = "claim" PROVE req[q].next # None
        BY <4>1, RequestFields, SessionsAssumption DEF SessionsInv, TypeOK
      <4>2. QED
        BY <1>3, <4>1 DEF SessionsInv, RequestOK
    <3>3. QED
      BY <1>1, <1>11, <2>2, <3>1, <3>2, OtherRequest
  <2>3. QED
    BY <2>1, <2>2
<1>14. QED
  BY <1>5, <1>6, <1>7, <1>8, <1>9, <1>12, <1>13 DEF SessionsInv

-----------------------------------------------------------------------------
(***************************************************************************)
(* The claim: the winner's next token takes the place of the old one.      *)
(***************************************************************************)
LEMMA ClaimStep ==
  ASSUME SessionsInv, NEW r \in Requests, RotateClaim(r)
  PROVE  SessionsInv'
<1>1. PICK t, n : t = req[r].token /\ n = req[r].next
  OBVIOUS
<1>2. /\ req[r].op = "claim" /\ t \in Tokens /\ n \in Tokens
      /\ t \in held /\ Born(n) /\ n \notin held
      /\ token[n].family = token[t].family
      /\ \A s \in Tokens : token[s].next # n
      /\ \A q \in Requests : Unsent(req[q], n) => q = r
  BY <1>1, RequestFields
     DEF RotateClaim, SessionsInv, TypeOK, OneCarrier, Unsent, RequestOK
<1>3. CASE ~Live(t)
  BY <1>1, <1>2, <1>3, BurnStep DEF RotateClaim
<1>4. CASE Live(t)
  <2>1. PICK x : x = [op |-> "check", token |-> n]
    OBVIOUS
  <2>2. /\ token' = [token EXCEPT ![t].state = "revoked", ![t].next = n]
        /\ Goto(r, x) /\ UNCHANGED <<active, held, reused, closed>>
    BY <1>1, <1>4, <2>1 DEF RotateClaim
  <2>3. /\ req' \in [Requests -> Request] /\ req'[r] = x
        /\ \A q \in Requests : q # r => req'[q] = req[q]
    BY <1>2, <2>1, <2>2, GotoKeepsType DEF SessionsInv, Request
  <2>4. /\ token' \in [Tokens -> TokenRow]
        /\ token'[t].state = "revoked" /\ token'[t].next = n
        /\ token'[t].family = token[t].family /\ token'[t].user = token[t].user
        /\ \A s \in Tokens : s # t => token'[s] = token[s]
    <3>1. PICK row : row = [token[t] EXCEPT !.state = "revoked", !.next = n]
      OBVIOUS
    <3>2. token[t] \in [state: {"live"}, family: Families, user: Users,
                        late: BOOLEAN, next: {None}]
      BY <1>2, <1>4 DEF SessionsInv, TypeOK, TokenRow, Unborn, Live
    <3>3. /\ row \in TokenRow /\ row.state = "revoked" /\ row.next = n
          /\ row.family = token[t].family /\ row.user = token[t].user
      BY <1>2, <3>1, <3>2 DEF TokenRow
    <3>4. token' = [token EXCEPT ![t] = row] /\ token \in [Tokens -> TokenRow]
      BY <1>2, <2>2, <3>1 DEF SessionsInv, TypeOK
    <3>5. QED
      BY <1>2, <3>3, <3>4
  <2>5. /\ t # n /\ Born(t) /\ \A s \in Tokens : Born(s) => Born(s)'
        /\ \A s \in Tokens : Live(s)' => Live(s) /\ s # t
        /\ \A s \in Tokens : Dead(s) => Dead(s)' /\ s # t
    BY <1>2, <1>4, <2>4 DEF Born, Live, Dead
  <2>6. \A s \in Tokens : token[s].next \in Tokens \cup {None}
    BY RowFacts DEF SessionsInv, TypeOK
  <2>7. TypeOK'
    BY <2>2, <2>3, <2>4 DEF SessionsInv, TypeOK
  <2>8. Descent'
    <3>1. \A s \in Tokens : token'[s].family = token[s].family
      BY <2>4
    <3>2. \A s \in held' : Born(s)'
      BY <2>2, <2>5 DEF SessionsInv, TypeOK, Descent
    <3>3. ASSUME NEW s \in Tokens, token'[s].next # None
          PROVE  /\ token'[s].next \in Tokens /\ Born(token'[s].next)
                 /\ token[token'[s].next].family = token[s].family
      BY <1>2, <2>4, <2>6, <3>3 DEF SessionsInv, Descent
    <3>4. QED
      BY <2>5, <3>1, <3>2, <3>3 DEF Descent, Born
  <2>9. ReusedIsDead'
    BY <2>2, <2>4, <2>5, <2>6 DEF SessionsInv, TypeOK, ReusedIsDead
  <2>10. ASSUME NEW q \in Requests, NEW m \in Tokens, Unsent(req'[q], m)
         PROVE  Unsent(req[q], m)
    BY <1>1, <1>2, <2>1, <2>3, <2>10 DEF Unsent
  <2>11. OneCarrier'
    BY <2>2, <2>5, <2>10 DEF SessionsInv, OneCarrier
  <2>12. OneCurrent'
    <3>1. ASSUME NEW m \in Tokens, Sendable(m)' PROVE Sendable(m) \/ m = n
      BY <2>1, <2>2, <2>3, <3>1 DEF Sendable
    <3>2. Sendable(t)
      BY <1>2 DEF Sendable
    <3>3. \A m \in Tokens : token'[m].family = token[m].family
      BY <2>4
    <3>4. ASSUME NEW m \in Tokens, Sendable(m), Live(m)',
                 token[m].family = token[t].family
          PROVE  FALSE
      BY <1>2, <1>4, <2>5, <3>2, <3>4 DEF SessionsInv, OneCurrent
    <3>5. QED
      BY <1>2, <2>5, <3>1, <3>3, <3>4 DEF SessionsInv, OneCurrent
  <2>13. ASSUME NEW m \in Tokens, Kept(m)' PROVE Kept(m)
    <3>1. m # n
      BY <1>2, <2>1, <2>2, <2>3, <2>13 DEF Kept, Unsent
    <3>2. Refreshed(m)
      BY <1>2, <2>4, <2>13, <3>1 DEF Kept, Refreshed
    <3>3. QED
      BY <2>1, <2>2, <2>3, <2>5, <2>13, <3>2 DEF Kept
  <2>14. ClosedKeepsNothing'
    BY <2>2, <2>4, <2>13 DEF SessionsInv, ClosedKeepsNothing
  <2>15. ASSUME NEW q \in Requests PROVE RequestOK(req[q])'
    <3>1. CASE q = r
      BY <2>1, <2>3, <3>1, Unconstrained
    <3>2. CASE q # r
      <4>1. Aging
        BY <2>4, <2>5 DEF Aging, Born
      <4>2. req[q].op = "claim" => \A s \in Tokens : token'[s].next # req[q].next
        BY <1>2, <2>4, <3>2 DEF SessionsInv, RequestOK, Unsent
      <4>3. QED
        BY <2>2, <2>3, <2>13, <3>2, <4>1, <4>2, OtherRequest
    <3>3. QED
      BY <3>1, <3>2
  <2>16. QED
    BY <2>7, <2>8, <2>9, <2>11, <2>12, <2>14, <2>15 DEF SessionsInv
<1>5. QED
  BY <1>3, <1>4

-----------------------------------------------------------------------------
(***************************************************************************)
(* The end of a statement that revokes many tokens.                        *)
(***************************************************************************)
LEMMA RevokeStep ==
  ASSUME SessionsInv, NEW r \in Requests, Revoke(r)
  PROVE  SessionsInv'
<1>1. PICK x \in Request : x = req[r]
  BY DEF SessionsInv, TypeOK
<1>2. /\ x.op = "revoke" /\ x.rows \subseteq Tokens
      /\ x.cause \in Tokens \cup {None} /\ x.user \in Users \cup {None}
      /\ RequestOK(x)
  BY <1>1, RequestFields DEF Revoke, SessionsInv
<1>3. /\ req' \in [Requests -> Request] /\ req'[r] = Idle
      /\ \A q \in Requests : q # r => req'[q] = req[q]
  BY GotoKeepsType, Idle \in Request DEF Revoke, SessionsInv, Request
<1>4. /\ UNCHANGED <<active, held>>
      /\ reused' = reused \cup ({x.cause} \ {None})
      /\ closed' = closed \cup ({x.user} \ {None})
  BY <1>1 DEF Revoke
<1>5. /\ token' \in [Tokens -> TokenRow]
      /\ \A t \in Tokens :
           /\ token'[t].family = token[t].family /\ token'[t].user = token[t].user
           /\ token'[t].next = token[t].next
           /\ Born(t) <=> Born(t)'
           /\ Live(t)' <=> Live(t) /\ t \notin x.rows
           /\ ~Live(t) => token'[t] = token[t]
  <2>1. ASSUME NEW t \in Tokens, t \in x.rows, Live(t)
        PROVE  LET row == [token[t] EXCEPT !.state = "revoked"] IN
               /\ row \in TokenRow /\ row.state = "revoked"
               /\ row.family = token[t].family /\ row.user = token[t].user
               /\ row.next = token[t].next
    <3>1. token[t] \in [state: {"live"}, family: Families, user: Users,
                        late: BOOLEAN, next: {None}]
      BY <2>1 DEF SessionsInv, TypeOK, TokenRow, Unborn, Live
    <3>2. QED
      BY <3>1 DEF TokenRow
  <2>2. token' = [t \in Tokens |->
          IF t \in x.rows /\ Live(t)
            THEN [token[t] EXCEPT !.state = "revoked"] ELSE token[t]]
    BY <1>1 DEF Revoke
  <2>3. token \in [Tokens -> TokenRow]
    BY DEF SessionsInv, TypeOK
  <2>4. QED
    BY <2>1, <2>2, <2>3 DEF Born, Live
<1>6. \A s \in Tokens : token[s].next \in Tokens \cup {None}
  BY RowFacts DEF SessionsInv, TypeOK
<1>7. TypeOK'
  BY <1>2, <1>3, <1>4, <1>5 DEF SessionsInv, TypeOK
<1>8. Descent'
  BY <1>4, <1>5, <1>6 DEF SessionsInv, TypeOK, Descent
<1>9. \A s \in Tokens : Dead(s) => Dead(s)'
  BY <1>5 DEF Dead
<1>10. ReusedIsDead'
  <2>1. ASSUME NEW s \in Tokens, s \in reused
        PROVE  Dead(s)' /\ (token'[s].next # None => Dead(token[s].next)')
    BY <1>5, <1>6, <1>9, <2>1 DEF SessionsInv, ReusedIsDead
  <2>2. ASSUME x.cause # None
        PROVE  /\ Dead(x.cause)'
               /\ token'[x.cause].next # None => Dead(token[x.cause].next)'
    <3>1. PICK n : n = token[x.cause].next
      OBVIOUS
    <3>2. x.cause \in Tokens /\ Dead(x.cause) /\ (n = None \/ Dead(n) \/ n \in x.rows)
      BY <1>2, <2>2, <3>1 DEF RequestOK
    <3>3. n # None => n \in Tokens /\ Born(n)
      BY <1>6, <3>1, <3>2 DEF SessionsInv, Descent
    <3>4. n # None => Dead(n)'
      BY <1>5, <1>9, <3>2, <3>3 DEF Dead
    <3>5. QED
      BY <1>5, <1>9, <3>1, <3>2, <3>4
  <2>3. QED
    BY <1>4, <1>5, <2>1, <2>2 DEF SessionsInv, TypeOK, ReusedIsDead
<1>11. ASSUME NEW q \in Requests, NEW m \in Tokens, Unsent(req'[q], m)
       PROVE  Unsent(req[q], m)
  BY <1>3, <1>11 DEF Unsent, Idle
<1>12. OneCarrier'
  BY <1>4, <1>5, <1>11 DEF SessionsInv, OneCarrier
<1>13. ASSUME NEW m \in Tokens, Sendable(m)' PROVE Sendable(m)
  BY <1>3, <1>4, <1>13 DEF Sendable, Idle
<1>14. OneCurrent'
  BY <1>5, <1>13 DEF SessionsInv, OneCurrent
<1>15. ASSUME NEW m \in Tokens, Kept(m)' PROVE Kept(m) /\ m \notin x.rows
  BY <1>3, <1>4, <1>5, <1>15 DEF Kept, Refreshed, Idle
<1>16. ClosedKeepsNothing'
  BY <1>2, <1>4, <1>5, <1>15 DEF SessionsInv, ClosedKeepsNothing, RequestOK
<1>17. ASSUME NEW q \in Requests PROVE RequestOK(req[q])'
  <2>1. CASE q = r
    BY <1>3, <2>1, Unconstrained DEF Idle, RequestOK
  <2>2. CASE q # r
    <3>1. Aging
      BY <1>5 DEF Aging, Born, Dead
    <3>2. req[q].op = "claim" => \A t \in Tokens : token'[t].next # req[q].next
      BY <1>5 DEF SessionsInv, RequestOK
    <3>3. QED
      BY <1>3, <1>4, <1>15, <2>2, <3>1, <3>2, OtherRequest
  <2>3. QED
    BY <2>1, <2>2
<1>18. QED
  BY <1>7, <1>8, <1>10, <1>12, <1>14, <1>16, <1>17 DEF SessionsInv

-----------------------------------------------------------------------------
(***************************************************************************)
(* The theorems.                                                           *)
(***************************************************************************)
LEMMA SessionsInvStep == SessionsInv /\ [Next]_vars => SessionsInv'
<1> SUFFICES ASSUME SessionsInv, [Next]_vars PROVE SessionsInv'
  OBVIOUS
<1>1. CASE UNCHANGED vars
  BY <1>1 DEF vars, SessionsInv, TypeOK, Descent, RequestOK, OneCarrier, Unsent,
              OneCurrent, Sendable, ReusedIsDead, ClosedKeepsNothing, Kept,
              Refreshed, Dead, Born, Live
<1>2. ASSUME NEW t \in Tokens, Expire(t) PROVE SessionsInv'
  BY <1>2, ExpireStep
<1>3. ASSUME NEW r \in Requests, NEW u \in Users, LoginRead(r, u)
      PROVE  SessionsInv'
  <2>1. PICK x : x = [op |-> "login", user |-> u]
    OBVIOUS
  <2>2. x \in Request /\ RequestOK(x)'
    BY <2>1, Unconstrained DEF Request
  <2>3. QED
    BY <1>3, <2>1, <2>2, QuietStep DEF LoginRead
<1>4. ASSUME NEW r \in Requests, NEW t \in Tokens, NEW f \in Families,
             LoginIssue(r, t, f)
      PROVE  SessionsInv'
  <2>1. PICK u, x : u = req[r].user /\ x = [op |-> "respond", token |-> t]
    OBVIOUS
  <2>2. u \in Users /\ x \in Request
    BY <1>4, <2>1, RequestFields DEF LoginIssue, SessionsInv, TypeOK, Request
  <2>3. QED
    BY <1>4, <2>1, <2>2, IssueStep DEF LoginIssue
<1>5. ASSUME NEW r \in Requests, Respond(r) PROVE SessionsInv'
  BY <1>5, RespondStep
<1>6. ASSUME NEW r \in Requests, NEW t \in Tokens, RotateRead(r, t)
      PROVE  SessionsInv'
  <2>1. CASE ~Live(t) /\ Burn(r, t)
    BY <1>6, <2>1, BurnStep DEF RotateRead
  <2>2. CASE Goto(r, [op |-> "issue", token |-> t])
    <3>1. PICK x : x = [op |-> "issue", token |-> t]
      OBVIOUS
    <3>2. x \in Request /\ RequestOK(x)'
      BY <1>6, <3>1 DEF Request, RequestOK, RotateRead
    <3>3. QED
      BY <1>6, <2>2, <3>1, <3>2, QuietStep DEF RotateRead
  <2>3. QED
    BY <1>6, <2>1, <2>2 DEF RotateRead
<1>7. ASSUME NEW r \in Requests, NEW n \in Tokens, RotateIssue(r, n)
      PROVE  SessionsInv'
  <2>1. PICK t : t = req[r].token
    OBVIOUS
  <2>2. PICK f, u, x : /\ f = token[t].family /\ u = token[t].user
                       /\ x = [op |-> "claim", token |-> t, next |-> n]
    OBVIOUS
  <2>3. t \in Tokens /\ t \in held /\ Born(t) /\ x \in Request
    BY <1>7, <2>1, <2>2, RequestFields
       DEF RotateIssue, SessionsInv, TypeOK, Request, RequestOK, Descent
  <2>4. f \in Families /\ u \in Users
    BY <2>2, <2>3, RowFacts DEF SessionsInv, TypeOK, Born
  <2>5. QED
    BY <1>7, <2>1, <2>2, <2>3, <2>4, IssueStep DEF RotateIssue
<1>8. ASSUME NEW r \in Requests, RotateClaim(r) PROVE SessionsInv'
  BY <1>8, ClaimStep
<1>9. ASSUME NEW r \in Requests, RefreshRead(r) PROVE SessionsInv'
  BY <1>9, RefreshReadStep
<1>10. ASSUME NEW r \in Requests, BurnStart(r) \/ ExpelStart(r) PROVE SessionsInv'
  BY <1>10, StartStep
<1>11. ASSUME NEW r \in Requests, Revoke(r) PROVE SessionsInv'
  BY <1>11, RevokeStep
<1>12. ASSUME NEW r \in Requests, NEW t \in Tokens, LogoutRead(r, t)
       PROVE  SessionsInv'
  BY <1>12, EndFamilyStep DEF LogoutRead, SessionsInv, Descent
<1>13. ASSUME NEW r \in Requests, NEW u \in Users, Disable(r, u)
       PROVE  SessionsInv'
  <2>1. PICK x : x = [op |-> "expel", user |-> u]
    OBVIOUS
  <2>2. x \in Request /\ RequestOK(x)'
    BY <1>13, <2>1 DEF Request, RequestOK, Disable
  <2>3. QED
    BY <1>13, <2>1, <2>2, QuietStep DEF Disable
<1>14. ASSUME NEW r \in Requests, NEW u \in Users, ChangePassword(r, u)
       PROVE  SessionsInv'
  <2>1. PICK x : x = [op |-> "revoke", cause |-> None, user |-> None,
                      rows |-> LiveOf(u)]
    OBVIOUS
  <2>2. x \in Request /\ RequestOK(x)'
    BY <2>1 DEF Request, RequestOK, LiveOf
  <2>3. QED
    BY <1>14, <2>1, <2>2, QuietStep DEF ChangePassword
<1>15. ASSUME NEW r \in Requests, Crash(r) PROVE SessionsInv'
  <2>1. PICK x : x = Idle
    OBVIOUS
  <2>2. x \in Request /\ RequestOK(x)'
    BY <2>1, Unconstrained DEF Request, Idle
  <2>3. QED
    BY <1>15, <2>1, <2>2, QuietStep DEF Crash, Idle
<1>16. QED
  BY <1>1, <1>2, <1>3, <1>4, <1>5, <1>6, <1>7, <1>8, <1>9, <1>10, <1>11, <1>12,
     <1>13, <1>14, <1>15 DEF Next, Rotate

LEMMA SessionsInvHolds == Spec => []SessionsInv
<1>1. QED
  BY SessionsInvInit, SessionsInvStep, PTL DEF Spec

\* The rows, the requests and the histories keep their types; a token that
\* notes its replacement is revoked.
THEOREM TypeCorrect == Spec => []TypeOK
<1>1. SessionsInv => TypeOK
  BY DEF SessionsInv
<1>2. QED
  BY <1>1, SessionsInvHolds, PTL

\* However the rotations of RefreshTokenService overlap, a client that holds
\* the tokens of a login can refresh with at most one of them.
THEOREM OneTokenPerLogin == Spec => []OneSessionPerFamily
<1>1. SessionsInv => OneSessionPerFamily
  BY DEF SessionsInv, TypeOK, OneCurrent, OneSessionPerFamily, Sendable
<1>2. QED
  BY <1>1, SessionsInvHolds, PTL

\* The comment in RefreshTokenService.rotate is right, also when the statement
\* that revokes the family misses tokens that are inserted while it runs.
THEOREM LoserTakesWinnerDown == Spec => []WinnerDiesWithLoser
<1>1. SessionsInv => WinnerDiesWithLoser
  BY DEF SessionsInv, ReusedIsDead, WinnerDiesWithLoser, Dead
<1>2. QED
  BY <1>1, SessionsInvHolds, PTL

\* Disabling an account ends its refreshed sessions, whatever refreshes it
\* overlaps.
THEOREM DisablingEndsRefreshes == Spec => []DisabledIsNotRefreshed
<1>1. SessionsInv => DisabledIsNotRefreshed
  BY DEF SessionsInv, TypeOK, ClosedKeepsNothing, Kept, DisabledIsNotRefreshed
<1>2. QED
  BY <1>1, SessionsInvHolds, PTL

-----------------------------------------------------------------------------
(***************************************************************************)
(* Rotation implements OneShot.  A token that is to replace another one is *)
(* carried by one request, which found it the replacement of none, and the *)
(* claim is of a live token, which has no replacement yet.                 *)
(***************************************************************************)
links == [t \in Tokens |-> token[t].next]

LEMMA SameLinks ==
  ASSUME \A t \in Tokens : token'[t].next = token[t].next
  PROVE  [Replacement!Next]_links
BY DEF links

LEMMA IssueKeepsLinks ==
  ASSUME SessionsInv, NEW n \in Tokens, NEW f, NEW u, Issue(n, f, u)
  PROVE  [Replacement!Next]_links
<1>1. token \in [Tokens -> TokenRow] /\ token[n].next = None
  BY DEF SessionsInv, TypeOK, Issue, Unborn
<1>2. /\ token'[n].next = None
      /\ \A t \in Tokens : t # n => token'[t] = token[t]
  BY <1>1 DEF Issue
<1> QED
  BY <1>1, <1>2, SameLinks

LEMMA ClaimBinds ==
  ASSUME SessionsInv, NEW r \in Requests, RotateClaim(r)
  PROVE  [Replacement!Next]_links
<1> DEFINE t == req[r].token
           n == req[r].next
<1>1. /\ t \in Tokens /\ n \in Tokens
      /\ \A s \in Tokens : token[s].next # n
      /\ token \in [Tokens -> TokenRow]
  BY RequestFields DEF RotateClaim, SessionsInv, TypeOK, RequestOK
<1>2. CASE UNCHANGED token
  BY <1>2, SameLinks
<1>3. CASE Live(t) /\ token' = [token EXCEPT ![t].state = "revoked", ![t].next = n]
  <2>1. token[t].next = None
    BY <1>1, <1>3, RowFacts DEF Live
  <2>2. /\ token'[t].next = n
        /\ \A s \in Tokens : s # t => token'[s].next = token[s].next
    <3>1. token[t] \in [state: {"live"}, family: Families, user: Users, late: BOOLEAN, next: {None}]
      BY <1>1, <1>3 DEF TokenRow, Unborn, Live
    <3> QED
      BY <1>1, <1>3, <3>1
  <2>3. links' = [links EXCEPT ![t] = n]
    BY <1>1, <2>2 DEF links
  <2>4. links[t] = None /\ \A s \in Tokens : links[s] # n
    BY <1>1, <2>1 DEF links
  <2>5. ASSUME NEW s \in Tokens, NEW m \in Tokens,
               links' = [links EXCEPT ![s] = m], links[s] = None, \A o \in Tokens : links[o] # m
        PROVE  Replacement!Next
    <3>1. Replacement!Bind(s, m)
      BY <2>5 DEF Replacement!Bind, links
    <3> QED
      BY <3>1 DEF Replacement!Next
  <2> HIDE DEF t, n
  <2> QED
    BY <1>1, <2>3, <2>4, <2>5
<1> QED
  BY <1>2, <1>3 DEF RotateClaim

LEMMA OthersKeepLinks ==
  ASSUME SessionsInv,
         \/ \E t \in Tokens : Expire(t)
         \/ \E r \in Requests : Revoke(r)
  PROVE  [Replacement!Next]_links
<1>1. token \in [Tokens -> TokenRow]
  BY DEF SessionsInv, TypeOK
<1>2. ASSUME NEW t \in Tokens, Expire(t) PROVE \A s \in Tokens : token'[s].next = token[s].next
  <2>1. token[t] \in [state: {"live"}, family: Families, user: Users, late: BOOLEAN, next: {None}]
    BY <1>1, <1>2 DEF Expire, TokenRow, Unborn, Live
  <2> QED
    BY <1>1, <1>2, <2>1 DEF Expire
<1>3. ASSUME NEW r \in Requests, Revoke(r) PROVE \A s \in Tokens : token'[s].next = token[s].next
  <2>1. ASSUME NEW s \in Tokens, Live(s)
        PROVE  [token[s] EXCEPT !.state = "revoked"].next = token[s].next
    <3>1. token[s] \in [state: {"live"}, family: Families, user: Users, late: BOOLEAN, next: {None}]
      BY <1>1, <2>1 DEF TokenRow, Unborn, Live
    <3> QED
      BY <3>1
  <2>2. ASSUME NEW s \in Tokens
        PROVE  token'[s] = token[s] \/ (Live(s) /\ token'[s] = [token[s] EXCEPT !.state = "revoked"])
    BY <1>3 DEF Revoke
  <2> QED
    BY <2>1, <2>2
<1> QED
  BY <1>2, <1>3, SameLinks

\* A token of RefreshTokenService.rotate is replaced at most once, by a token that
\* replaces no other, and no revocation undoes or changes it.
THEOREM RotationImplementsOneShot == Spec => RotationIsOneShot
<1>1. Init => Replacement!Init
  BY DEF Init, Replacement!Init, Unborn
<1>2. SessionsInv /\ [Next]_vars => [Replacement!Next]_links
  <2> SUFFICES ASSUME SessionsInv, [Next]_vars PROVE [Replacement!Next]_links
    OBVIOUS
  <2>1. CASE UNCHANGED token
    BY <2>1, SameLinks
  <2>2. ASSUME NEW r \in Requests, NEW t \in Tokens, NEW f \in Families, LoginIssue(r, t, f)
        PROVE  [Replacement!Next]_links
    BY <2>2, IssueKeepsLinks DEF LoginIssue
  <2>3. ASSUME NEW r \in Requests, NEW n \in Tokens, RotateIssue(r, n)
        PROVE  [Replacement!Next]_links
    BY <2>3, IssueKeepsLinks DEF RotateIssue
  <2>4. CASE UNCHANGED vars
    BY <2>1, <2>4 DEF vars
  <2>5. ASSUME NEW r \in Requests,
               \/ \E u \in Users : LoginRead(r, u) \/ Disable(r, u) \/ ChangePassword(r, u)
               \/ \E t \in Tokens : RotateRead(r, t) \/ LogoutRead(r, t)
               \/ Respond(r) \/ RefreshRead(r) \/ BurnStart(r) \/ ExpelStart(r) \/ Crash(r)
        PROVE  UNCHANGED token
    BY <2>5 DEF LoginRead, Disable, ChangePassword, RotateRead, LogoutRead, Respond,
       RefreshRead, BurnStart, ExpelStart, Crash
  <2> QED
    BY <2>1, <2>2, <2>3, <2>4, <2>5, ClaimBinds, OthersKeepLinks DEF Next, Rotate
<1> QED
  BY <1>1, <1>2, SessionsInvHolds, PTL DEF Spec, RotationIsOneShot, Replacement!Spec, links

-----------------------------------------------------------------------------
(***************************************************************************)
(* The tab of the frontend.  While no answer to a refresh has been lost,   *)
(* the only refresh in flight is the shared one, and each token that the   *)
(* tab has, has sent or is about to get is the only one of its family that *)
(* can be live: nothing has used it.  A call that is to be repeated has    *)
(* not been carried out.                                                   *)
(***************************************************************************)
Unspent(g) == live \cap B!FamilyOf(g) \subseteq {g}

\* The answer to a login is on its way to the tab.
Brought(x) == x.op = "ok" /\ x.kind = "login"

Plain(x) ==
  /\ x.op \in {"sent", "refused", "waiting"} => x.ran = 0
  /\ x.op \in {"ok", "lost"} => x.ran <= 1
  /\ x.op = "refused" /\ x.kind \in B!Retried => x.token \in refused \cup {0}

BroughtOK(x) ==
  /\ x.token \in 1 .. issued
  /\ x.token # csrf
  /\ ~lost => Unspent(x.token)

RefreshOK(x) ==
  /\ x.op = "sent" => x.header \in 1 .. issued /\ (~lost => Unspent(x.header))
  /\ x.op = "answered" =>
       x.pair = 0 \/ (x.pair \in 1 .. issued /\ (~lost => Unspent(x.pair)))

Unused(x, y) ==
  /\ y.op = "sent" => x.token # y.header
  /\ y.op = "answered" => x.token # y.pair

\* The tokens of logins that are on their way belong to nothing else.
Fresh ==
  /\ \A c \in Calls, s \in Refreshes :
       Brought(call[c]) => Unused(call[c], refresh[s])
  /\ \A c, d \in Calls :
       c # d /\ Brought(call[c]) /\ Brought(call[d]) => call[c].token # call[d].token

TabInv ==
  /\ B!TypeOK
  /\ B!ReuseNeedsLoss
  /\ \A g \in 1 .. issued : login[g] \in 1 .. issued
  /\ csrf <= issued
  /\ ~lost /\ shared = NoRefresh /\ csrf # 0 => Unspent(csrf)
  /\ \A c \in Calls : Plain(call[c]) /\ (Brought(call[c]) => BroughtOK(call[c]))
  /\ \A s \in Refreshes : RefreshOK(refresh[s])
  /\ ~lost => \A s \in Refreshes : refresh[s] # B!Idle => s = shared
  /\ Fresh

Answerable ==
  [op: {"sent", "ok", "refused", "lost"}, kind: B!Kinds, token: 0 .. MaxPairs,
   again: BOOLEAN, ran: 0 .. 2]

LEMMA CallFacts ==
  ASSUME NEW x \in B!Call
  PROVE  /\ x.op \in {"sent", "ok", "refused", "lost"} =>
              x.kind \in B!Kinds /\ x.token \in 0 .. MaxPairs /\ x.ran \in 0 .. 2
         /\ x.op = "waiting" => x.kind \in B!Retried \cup {"restore"} /\ x.ran \in 0 .. 2
         /\ x.op \in {"leaving", "left"} => x.token \in B!Pairs /\ x.cookie \in 0 .. MaxPairs
         /\ x.op \in {"idle", "sent", "ok", "refused", "lost", "waiting", "leaving", "left"}
BY DEF B!Call, B!Idle

LEMMA CallsThatRan ==
  ASSUME NEW x \in B!Call, "ran" \in DOMAIN x
  PROVE  x.op \in {"sent", "ok", "refused", "lost", "waiting"}
BY DEF B!Call, B!Idle

LEMMA IsAnswerable ==
  ASSUME NEW x \in B!Call, x.op \in {"sent", "ok", "refused", "lost"}
  PROVE  x \in Answerable
BY DEF B!Call, B!Idle, Answerable

LEMMA NewCalls ==
  /\ B!Idle \in B!Call /\ B!Idle.op = "idle"
  /\ \A k \in B!Kinds, g \in 0 .. MaxPairs :
       LET y == B!Request(k, g)
       IN y \in B!Call /\ y.op = "sent" /\ y.kind = k /\ y.token = g /\ y.ran = 0
  /\ \A x \in B!Call, g \in 0 .. MaxPairs :
       x.op \in {"sent", "ok", "refused", "lost", "waiting"} =>
         LET y == B!Repeated(x, g)
         IN y \in B!Call /\ y.op = "sent" /\ y.kind = x.kind /\ y.token = g /\ y.ran = x.ran
  /\ \A x \in B!Call :
       x.op \in {"sent", "ok", "refused", "lost"} /\ x.kind \in B!Retried \cup {"restore"} =>
         LET y == B!Waiting(x)
         IN y \in B!Call /\ y.op = "waiting" /\ y.kind = x.kind /\ y.ran = x.ran
  /\ \A g \in B!Pairs, k \in 0 .. MaxPairs :
       LET y == [op |-> "leaving", token |-> g, cookie |-> k]
       IN y \in B!Call /\ y.op = "leaving" /\ y.token = g /\ y.cookie = k
<1>1. B!Idle \in B!Call /\ B!Idle.op = "idle"
  BY DEF B!Call, B!Idle
<1>2. ASSUME NEW k \in B!Kinds, NEW g \in 0 .. MaxPairs
      PROVE  LET y == B!Request(k, g)
             IN y \in B!Call /\ y.op = "sent" /\ y.kind = k /\ y.token = g /\ y.ran = 0
  BY DEF B!Call, B!Request
<1>3. ASSUME NEW x \in B!Call, NEW g \in 0 .. MaxPairs,
             x.op \in {"sent", "ok", "refused", "lost", "waiting"}
      PROVE  LET y == B!Repeated(x, g)
             IN y \in B!Call /\ y.op = "sent" /\ y.kind = x.kind /\ y.token = g /\ y.ran = x.ran
  <2>1. x.kind \in B!Kinds /\ x.ran \in 0 .. 2
    BY <1>3, CallFacts DEF B!Kinds
  <2>2. QED
    BY <2>1 DEF B!Call, B!Repeated
<1>4. ASSUME NEW x \in B!Call, x.op \in {"sent", "ok", "refused", "lost"},
             x.kind \in B!Retried \cup {"restore"}
      PROVE  LET y == B!Waiting(x)
             IN y \in B!Call /\ y.op = "waiting" /\ y.kind = x.kind /\ y.ran = x.ran
  <2>1. x.ran \in 0 .. 2
    BY <1>4, CallFacts
  <2>2. QED
    BY <1>4, <2>1 DEF B!Call, B!Waiting
<1>5. ASSUME NEW g \in B!Pairs, NEW k \in 0 .. MaxPairs
      PROVE  LET y == [op |-> "leaving", token |-> g, cookie |-> k]
             IN y \in B!Call /\ y.op = "leaving" /\ y.token = g /\ y.cookie = k
  BY DEF B!Call
<1>6. QED
  BY <1>1, <1>2, <1>3, <1>4, <1>5

LEMMA RefreshFacts ==
  /\ B!Idle \in B!Refresh /\ B!Idle.op = "idle"
  /\ \A x \in B!Refresh :
       /\ x.op = "sent" => x.header \in B!Pairs /\ x.cookie \in 0 .. MaxPairs
       /\ x.op = "answered" => x.pair \in 0 .. MaxPairs
       /\ x.op \in {"idle", "sent", "answered"}
       /\ x # B!Idle <=> x.op \in {"sent", "answered"}
  /\ \A g \in B!Pairs, k \in 0 .. MaxPairs :
       LET y == [op |-> "sent", header |-> g, cookie |-> k]
       IN y \in B!Refresh /\ y.op = "sent" /\ y.header = g /\ y.cookie = k /\ y # B!Idle
  /\ \A g \in 0 .. MaxPairs :
       LET y == [op |-> "answered", pair |-> g]
       IN y \in B!Refresh /\ y.op = "answered" /\ y.pair = g /\ y # B!Idle
BY DEF B!Refresh, B!Idle

LEMMA TabInvInit == B!Init => TabInv
<1> SUFFICES ASSUME B!Init PROVE TabInv
  OBVIOUS
<1>1. B!TypeOK
  <2>1. /\ call \in [Calls -> B!Call] /\ refresh \in [Refreshes -> B!Refresh]
        /\ \A c \in Calls : call[c].op # "waiting"
    BY NewCalls, RefreshFacts DEF B!Init
  <2>2. login \in [B!Pairs -> 0 .. MaxPairs] /\ 0 \in 0 .. MaxPairs
    BY BrowserAssumption DEF B!Init
  <2>3. QED
    BY <2>1, <2>2 DEF B!Init, B!TypeOK
<1>2. /\ \A c \in Calls : call[c].op = "idle"
      /\ \A s \in Refreshes : refresh[s] = B!Idle /\ refresh[s].op = "idle"
  BY NewCalls DEF B!Init
<1>3. Fresh /\ \A c \in Calls : Plain(call[c]) /\ (Brought(call[c]) => BroughtOK(call[c]))
  BY <1>2 DEF Fresh, Plain, Brought
<1>4. \A s \in Refreshes : RefreshOK(refresh[s])
  BY <1>2 DEF RefreshOK
<1>5. QED
  BY <1>1, <1>2, <1>3, <1>4 DEF B!Init, B!ReuseNeedsLoss, TabInv

LEMMA Bounds ==
  ASSUME TabInv
  PROVE  /\ issued \in 0 .. MaxPairs /\ MaxPairs \in Nat /\ csrf \in 0 .. issued
         /\ 1 .. issued \subseteq B!Pairs
         /\ call \in [Calls -> B!Call] /\ refresh \in [Refreshes -> B!Refresh]
         /\ lost \in BOOLEAN /\ burned \in BOOLEAN
         /\ live \subseteq 1 .. issued
         /\ login \in [B!Pairs -> 0 .. MaxPairs]
         /\ jar \in 0 .. MaxPairs /\ access \in 0 .. MaxPairs /\ csrf \in 0 .. MaxPairs
         /\ refused \subseteq B!Pairs
<1>1. MaxPairs \in Nat
  BY BrowserAssumption
<1>2. QED
  BY <1>1 DEF TabInv, B!TypeOK, B!Pairs

\* Fewer live tokens: what is unspent stays unspent.
LEMMA FewerLive ==
  ASSUME live' \subseteq live, login' = login, NEW g, Unspent(g)
  PROVE  Unspent(g)'
BY DEF Unspent, B!FamilyOf

\* Calls may come and go, be answered and be repeated, as long as no answer to
\* a login appears; the CSRF token may be forgotten.
LEMMA CallsChange ==
  ASSUME TabInv, B!TypeOK',
         issued' = issued, login' = login, live' \subseteq live,
         csrf' = csrf \/ csrf' = 0, shared' = shared, refresh' = refresh,
         lost' = lost, burned' = burned, refused \subseteq refused',
         \A c \in Calls :
           call'[c] = call[c] \/ (Plain(call[c]) /\ ~Brought(call[c]))'
  PROVE  TabInv'
<1>1. B!ReuseNeedsLoss' /\ (\A g \in 1 .. issued : login[g] \in 1 .. issued)' /\ (csrf <= issued)'
  BY Bounds DEF TabInv, B!ReuseNeedsLoss
<1>2. (~lost /\ shared = NoRefresh /\ csrf # 0 => Unspent(csrf))'
  BY FewerLive DEF TabInv
<1>3. ASSUME NEW c \in Calls
      PROVE  (Plain(call[c]) /\ (Brought(call[c]) => BroughtOK(call[c])))'
  <2>1. CASE call'[c] = call[c]
    <3>1. Plain(call[c])'
      BY <2>1 DEF TabInv, Plain
    <3>2. ASSUME Brought(call[c])' PROVE BroughtOK(call[c])'
      <4> DEFINE t == call[c].token
      <4>1. BroughtOK(call[c])
        BY <2>1, <3>2 DEF TabInv, Brought
      <4>2. t \in 1 .. issued /\ t # csrf /\ t # 0
        BY <4>1 DEF BroughtOK
      <4>3. ASSUME NEW x, x = t, ~lost PROVE Unspent(x)'
        BY <4>1, <4>3, FewerLive DEF BroughtOK
      <4>4. QED
        BY <2>1, <4>2, <4>3 DEF BroughtOK
    <3>3. QED
      BY <3>1, <3>2
  <2>2. CASE (Plain(call[c]) /\ ~Brought(call[c]))'
    BY <2>2
  <2>3. QED
    BY <2>1, <2>2
<1>4. ASSUME NEW s \in Refreshes PROVE RefreshOK(refresh[s])'
  <2>1. RefreshOK(refresh[s])
    BY DEF TabInv
  <2>2. ASSUME NEW x, Unspent(x) PROVE Unspent(x)'
    BY <2>2, FewerLive
  <2>3. QED
    BY <2>1, <2>2 DEF RefreshOK
<1>5. (~lost => \A s \in Refreshes : refresh[s] # B!Idle => s = shared)'
  BY DEF TabInv, B!Idle
<1>6. Fresh'
  BY DEF TabInv, Fresh, Brought, Unused
<1>7. QED
  BY <1>1, <1>2, <1>3, <1>4, <1>5, <1>6 DEF TabInv

\* A step of one call, which is not the answer to a login.
LEMMA CallStep ==
  ASSUME TabInv, NEW c \in Calls,
         call' \in [Calls -> B!Call],
         \A d \in Calls : d # c => call'[d] = call[d],
         Plain(call[c])',
         ~Brought(call'[c]),
         call'[c].op = "waiting" => shared # NoRefresh,
         issued' = issued, login' = login, live' \subseteq live, expired' = expired,
         jar' \in 0 .. MaxPairs, access' \in 0 .. MaxPairs,
         csrf' = csrf \/ csrf' = 0,
         status' \in {"loading", "authenticated", "unauthenticated"},
         shared' = shared, refresh' = refresh, lost' = lost, burned' = burned,
         refused \subseteq refused', refused' \subseteq B!Pairs
  PROVE  TabInv'
<1>1. B!TypeOK'
  <2>1. \A d \in Calls : call'[d].op = "waiting" => shared' # NoRefresh
    BY DEF TabInv, B!TypeOK
  <2>2. csrf' \in 0 .. MaxPairs
    BY Bounds
  <2>3. QED
    BY <2>1, <2>2 DEF TabInv, B!TypeOK, B!Idle
<1>2. \A d \in Calls : call'[d] = call[d] \/ (Plain(call[d]) /\ ~Brought(call[d]))'
  BY DEF Brought
<1>3. QED
  BY <1>1, <1>2, CallsChange

\* The same, with what the step makes of the call.
LEMMA CallBecomes ==
  ASSUME TabInv, NEW c \in Calls, NEW x \in B!Call, call' = [call EXCEPT ![c] = x]
  PROVE  /\ call' \in [Calls -> B!Call]
         /\ call'[c] = x
         /\ \A d \in Calls : d # c => call'[d] = call[d]
BY Bounds

LEMMA TimeStep ==
  ASSUME TabInv
  PROVE  /\ \A g \in B!Pairs : B!Expire(g) => TabInv'
         /\ B!EndSessions => TabInv'
<1>1. ASSUME NEW g \in B!Pairs, B!Expire(g) PROVE TabInv'
  <2>1. UNCHANGED <<issued, login, live, B!tab, refresh, call, refused, lost, burned>>
    BY <1>1 DEF B!Expire, B!history
  <2>2. UNCHANGED <<jar, access, csrf, status, shared>>
    BY <2>1 DEF B!tab
  <2>3. expired' \subseteq 1 .. issued
    BY <1>1 DEF B!Expire, TabInv, B!TypeOK
  <2>4. B!TypeOK'
    BY <2>1, <2>2, <2>3 DEF TabInv, B!TypeOK, B!Idle
  <2>5. QED
    BY <2>1, <2>2, <2>4, CallsChange
<1>2. ASSUME B!EndSessions PROVE TabInv'
  <2>1. UNCHANGED <<issued, login, expired, B!tab, refresh, call, refused, lost, burned>>
    BY <1>2 DEF B!EndSessions, B!history
  <2>2. UNCHANGED <<jar, access, csrf, status, shared>>
    BY <2>1 DEF B!tab
  <2>3. live' = {}
    BY <1>2 DEF B!EndSessions
  <2>4. B!TypeOK'
    BY <2>1, <2>2, <2>3 DEF TabInv, B!TypeOK, B!Idle
  <2>5. QED
    BY <2>1, <2>2, <2>3, <2>4, CallsChange
<1>3. QED
  BY <1>1, <1>2

LEMMA ServeCallStep ==
  ASSUME TabInv, NEW c \in Calls, B!ServeCall(c)
  PROVE  TabInv'
<1> DEFINE accepted == call[c].token \notin expired \cup {0}
           o == IF accepted THEN "ok" ELSE "refused"
           n == IF accepted /\ call[c].kind \in B!Counted THEN call[c].ran + 1 ELSE call[c].ran
           x == [[call[c] EXCEPT !.op = o] EXCEPT !.ran = n]
<1>1. /\ call[c] \in B!Call /\ call[c].op = "sent" /\ call[c].kind # "login"
      /\ call[c].ran = 0 /\ call[c].token \in 0 .. MaxPairs
  BY Bounds, CallFacts DEF B!ServeCall, TabInv, Plain
<1>2. o \in {"ok", "refused"} /\ n \in 0 .. 1 /\ n \in 0 .. 2 /\ (~accepted => n = 0)
  BY <1>1
<1>3. /\ x \in B!Call
      /\ x.op = o /\ x.kind = call[c].kind /\ x.token = call[c].token /\ x.ran = n
  <2>1. call[c] \in Answerable
    BY <1>1, IsAnswerable
  <2> HIDE DEF o, n
  <2>2. QED
    BY <1>2, <2>1 DEF B!Call, Answerable
<1>4. call' = [call EXCEPT ![c] = x]
  BY <1>1, Bounds DEF B!ServeCall
<1>5. refused' = IF accepted THEN refused ELSE refused \cup ({call[c].token} \ {0})
  BY DEF B!ServeCall
<1>6. /\ UNCHANGED <<issued, login, live, expired>> /\ UNCHANGED <<jar, access, csrf, status, shared>>
      /\ UNCHANGED <<refresh, lost, burned>>
  BY DEF B!ServeCall, B!server, B!tab
<1>7. refused \subseteq refused' /\ refused' \subseteq B!Pairs
  BY <1>1, <1>5, Bounds DEF B!Pairs
<1>8. /\ call' \in [Calls -> B!Call] /\ call'[c] = x
      /\ \A d \in Calls : d # c => call'[d] = call[d]
  <2> HIDE DEF x
  <2>1. QED
    BY <1>3, <1>4, Bounds
<1>9. Plain(call[c])' /\ ~Brought(call'[c]) /\ call'[c].op # "waiting"
  BY <1>1, <1>2, <1>3, <1>5, <1>8 DEF Brought, Plain
<1>10. /\ jar' \in 0 .. MaxPairs /\ access' \in 0 .. MaxPairs /\ live' \subseteq live
       /\ status' \in {"loading", "authenticated", "unauthenticated"}
  BY <1>6, Bounds DEF TabInv, B!TypeOK
<1> HIDE DEF x, o, n, accepted
<1>11. QED
  BY <1>6, <1>7, <1>8, <1>9, <1>10, CallStep

\* What a step of one call leaves alone.
Quiet ==
  /\ UNCHANGED <<issued, login, expired, shared, refresh, refused, lost, burned>>
  /\ live' \subseteq live
  /\ jar' \in 0 .. MaxPairs /\ access' \in 0 .. MaxPairs
  /\ csrf' = csrf \/ csrf' = 0
  /\ status' \in {"loading", "authenticated", "unauthenticated"}

Others(c) == \A d \in Calls : d # c => call'[d] = call[d]

LEMMA SameTab ==
  ASSUME TabInv, UNCHANGED <<jar, access, csrf, status>>,
         UNCHANGED <<issued, login, live, expired, shared, refresh, refused, lost, burned>>
  PROVE  Quiet
BY Bounds DEF Quiet, TabInv, B!TypeOK

LEMMA ClearedTab ==
  ASSUME TabInv, UNCHANGED jar, B!ClearSession,
         UNCHANGED <<issued, login, live, expired, shared, refresh, refused, lost, burned>>
  PROVE  Quiet
BY Bounds DEF Quiet, B!ClearSession

LEMMA BecomesIdle ==
  ASSUME TabInv, NEW c \in Calls, Quiet, call' = [call EXCEPT ![c] = B!Idle]
  PROVE  TabInv'
<1>1. call' \in [Calls -> B!Call] /\ call'[c] = B!Idle /\ Others(c)
  BY Bounds, NewCalls DEF Others
<1>2. Plain(call[c])' /\ ~Brought(call'[c]) /\ call'[c].op # "waiting"
  BY <1>1, NewCalls DEF Plain, Brought
<1>3. QED
  BY <1>1, <1>2, Bounds, CallStep DEF Quiet, Others

LEMMA BecomesSent ==
  ASSUME TabInv, NEW c \in Calls, Quiet, Others(c), call' \in [Calls -> B!Call],
         call'[c].op = "sent", call'[c].ran = 0
  PROVE  TabInv'
<1>1. Plain(call[c])' /\ ~Brought(call'[c]) /\ call'[c].op # "waiting"
  BY DEF Plain, Brought
<1>2. QED
  BY <1>1, Bounds, CallStep DEF Quiet, Others

LEMMA LoseCallStep ==
  ASSUME TabInv, NEW c \in Calls, B!LoseCall(c)
  PROVE  TabInv'
<1> DEFINE x == [call[c] EXCEPT !.op = "lost"]
<1>1. call[c] \in Answerable /\ call[c].ran <= 1
  BY Bounds, IsAnswerable DEF B!LoseCall, TabInv, Plain
<1>2. x \in B!Call /\ x.op = "lost" /\ x.ran = call[c].ran
  BY <1>1 DEF B!Call, Answerable
<1>3. call' = [call EXCEPT ![c] = x]
  BY Bounds DEF B!LoseCall
<1> HIDE DEF x
<1>4. call' \in [Calls -> B!Call] /\ call'[c] = x /\ Others(c)
  BY <1>2, <1>3, Bounds DEF Others
<1>5. Plain(call[c])' /\ ~Brought(call'[c]) /\ call'[c].op # "waiting"
  BY <1>1, <1>2, <1>4 DEF Plain, Brought
<1>6. Quiet
  BY SameTab DEF B!LoseCall, B!server, B!tab, B!history
<1>7. QED
  BY <1>4, <1>5, <1>6, Bounds, CallStep DEF Quiet, Others

LEMMA ServeLogoutStep ==
  ASSUME TabInv, NEW c \in Calls, B!ServeLogout(c)
  PROVE  TabInv'
<1> DEFINE x == [call[c] EXCEPT !.op = "left"]
<1>1. call[c] \in [op: {"leaving", "left"}, token: B!Pairs, cookie: 0 .. MaxPairs]
  BY Bounds DEF B!ServeLogout, B!Call, B!Idle
<1>2. x \in B!Call /\ x.op = "left"
  BY <1>1 DEF B!Call
<1>3. call' = [call EXCEPT ![c] = x]
  BY Bounds DEF B!ServeLogout
<1> HIDE DEF x
<1>4. call' \in [Calls -> B!Call] /\ call'[c] = x /\ Others(c)
  BY <1>2, <1>3, Bounds DEF Others
<1>5. Plain(call[c])' /\ ~Brought(call'[c]) /\ call'[c].op # "waiting"
  BY <1>2, <1>4 DEF Plain, Brought
<1>6. Quiet
  BY Bounds DEF Quiet, TabInv, B!TypeOK, B!ServeLogout, B!tab, B!history
<1>7. QED
  BY <1>4, <1>5, <1>6, Bounds, CallStep DEF Quiet, Others

LEMMA SendStep ==
  ASSUME TabInv, NEW c \in Calls
  PROVE  /\ \A k \in B!Retried : B!Send(c, k) => TabInv'
         /\ B!LoginSend(c) => TabInv'
<1>1. ASSUME NEW k \in B!Retried, B!Send(c, k) PROVE TabInv'
  <2> DEFINE x == B!Request(k, access)
  <2>1. x \in B!Call /\ x.op = "sent" /\ x.ran = 0
    BY Bounds, NewCalls DEF B!Kinds
  <2>2. call' = [call EXCEPT ![c] = x]
    BY <1>1 DEF B!Send
  <2> HIDE DEF x
  <2>3. call' \in [Calls -> B!Call] /\ call'[c] = x /\ Others(c)
    BY <2>1, <2>2, Bounds DEF Others
  <2>4. Quiet
    BY <1>1, SameTab DEF B!Send, B!server, B!tab, B!history
  <2>5. QED
    BY <2>1, <2>3, <2>4, BecomesSent
<1>2. ASSUME B!LoginSend(c) PROVE TabInv'
  <2> DEFINE x == B!Request("login", 0)
  <2>1. x \in B!Call /\ x.op = "sent" /\ x.ran = 0
    <3>1. "login" \in B!Kinds /\ 0 \in 0 .. MaxPairs
      BY BrowserAssumption DEF B!Kinds
    <3>2. QED
      BY <3>1, NewCalls
  <2>2. call' = [call EXCEPT ![c] = x]
    BY <1>2 DEF B!LoginSend
  <2> HIDE DEF x
  <2>3. call' \in [Calls -> B!Call] /\ call'[c] = x /\ Others(c)
    BY <2>1, <2>2, Bounds DEF Others
  <2>4. Quiet
    BY <1>2, SameTab DEF B!LoginSend, B!server, B!tab, B!history
  <2>5. QED
    BY <2>1, <2>3, <2>4, BecomesSent
<1>3. QED
  BY <1>1, <1>2

LEMMA DoneStep ==
  ASSUME TabInv, NEW c \in Calls
  PROVE  /\ B!DataDone(c) => TabInv'
         /\ B!DataLost(c) => TabInv'
         /\ B!CodeAnswered(c) => TabInv'
<1>1. ASSUME B!DataDone(c) PROVE TabInv'
  <2> DEFINE x == B!Request("code", access)
  <2>1. x \in B!Call /\ x.op = "sent" /\ x.ran = 0
    BY Bounds, NewCalls DEF B!Kinds
  <2>2. call' = [call EXCEPT ![c] = x] \/ call' = [call EXCEPT ![c] = B!Idle]
    BY <1>1 DEF B!DataDone
  <2> HIDE DEF x
  <2>3. Quiet
    BY <1>1, SameTab DEF B!DataDone, B!server, B!tab, B!history
  <2>4. CASE call' = [call EXCEPT ![c] = x]
    <3>1. call' \in [Calls -> B!Call] /\ call'[c] = x /\ Others(c)
      BY <2>1, <2>4, Bounds DEF Others
    <3>2. QED
      BY <2>1, <2>3, <3>1, BecomesSent
  <2>5. QED
    BY <2>2, <2>3, <2>4, BecomesIdle
<1>2. ASSUME B!DataLost(c) PROVE TabInv'
  BY <1>2, SameTab, BecomesIdle DEF B!DataLost, B!server, B!tab, B!history
<1>3. ASSUME B!CodeAnswered(c) PROVE TabInv'
  BY <1>3, SameTab, BecomesIdle DEF B!CodeAnswered, B!server, B!tab, B!history
<1>4. QED
  BY <1>1, <1>2, <1>3

LEMMA MeStep ==
  ASSUME TabInv, NEW c \in Calls
  PROVE  /\ B!MeAnswered(c) => TabInv'
         /\ B!ConsentsAnswered(c) => TabInv'
<1>1. ASSUME B!MeAnswered(c) PROVE TabInv'
  <2> DEFINE x == B!Request("consents", access)
  <2>1. x \in B!Call /\ x.op = "sent" /\ x.ran = 0
    BY Bounds, NewCalls DEF B!Kinds
  <2>2. /\ UNCHANGED <<issued, login, live, expired, jar, shared, refresh, refused, lost, burned>>
        /\ \/ /\ status' = "authenticated"
              /\ call' = [call EXCEPT ![c] = IF access = 0 THEN B!Idle ELSE x]
              /\ UNCHANGED <<access, csrf>>
           \/ call' = [call EXCEPT ![c] = B!Idle] /\ B!ClearSession
           \/ call' = [call EXCEPT ![c] = B!Idle] /\ UNCHANGED <<access, csrf, status>>
    BY <1>1 DEF B!MeAnswered, B!server, B!history
  <2> HIDE DEF x
  <2>3. CASE /\ status' = "authenticated"
             /\ call' = [call EXCEPT ![c] = IF access = 0 THEN B!Idle ELSE x]
             /\ UNCHANGED <<access, csrf>>
    <3>1. Quiet
      BY <2>2, <2>3, Bounds DEF Quiet
    <3>2. CASE access = 0
      BY <2>3, <3>1, <3>2, BecomesIdle
    <3>3. CASE access # 0
      <4>1. call' = [call EXCEPT ![c] = x]
        BY <2>3, <3>3
      <4>2. call' \in [Calls -> B!Call] /\ call'[c] = x /\ Others(c)
        BY <2>1, <4>1, Bounds DEF Others
      <4>3. QED
        BY <2>1, <3>1, <4>2, BecomesSent
    <3>4. QED
      BY <3>2, <3>3
  <2>4. CASE call' = [call EXCEPT ![c] = B!Idle] /\ B!ClearSession
    BY <2>2, <2>4, ClearedTab, BecomesIdle
  <2>5. CASE call' = [call EXCEPT ![c] = B!Idle] /\ UNCHANGED <<access, csrf, status>>
    BY <2>2, <2>5, SameTab, BecomesIdle
  <2>6. QED
    BY <2>2, <2>3, <2>4, <2>5
<1>2. ASSUME B!ConsentsAnswered(c) PROVE TabInv'
  <2>1. /\ UNCHANGED <<issued, login, live, expired, jar, shared, refresh, refused, lost, burned>>
        /\ call' = [call EXCEPT ![c] = B!Idle]
        /\ B!ClearSession \/ UNCHANGED <<access, csrf, status>>
    BY <1>2 DEF B!ConsentsAnswered, B!server, B!history
  <2>2. Quiet
    BY <2>1, SameTab, ClearedTab
  <2>3. QED
    BY <2>1, <2>2, BecomesIdle
<1>3. QED
  BY <1>1, <1>2

LEMMA LogoutStep ==
  ASSUME TabInv, NEW c \in Calls
  PROVE  /\ B!LogoutSend(c) => TabInv'
         /\ B!LogoutAnswered(c) => TabInv'
<1>1. ASSUME B!LogoutSend(c) PROVE TabInv'
  <2> DEFINE x == [op |-> "leaving", token |-> csrf, cookie |-> jar]
  <2>1. /\ UNCHANGED <<issued, login, live, expired, jar, shared, refresh, refused, lost, burned>>
        /\ \/ /\ csrf # 0 /\ call' = [call EXCEPT ![c] = x]
              /\ UNCHANGED <<access, csrf, status>>
           \/ B!ClearSession /\ UNCHANGED call
    BY <1>1 DEF B!LogoutSend, B!server, B!history
  <2>2. csrf # 0 => x \in B!Call /\ x.op = "leaving"
    BY Bounds, NewCalls
  <2> HIDE DEF x
  <2>3. CASE csrf # 0 /\ call' = [call EXCEPT ![c] = x] /\ UNCHANGED <<access, csrf, status>>
    <3>1. call' \in [Calls -> B!Call] /\ call'[c] = x /\ Others(c)
      BY <2>2, <2>3, Bounds DEF Others
    <3>2. Plain(call[c])' /\ ~Brought(call'[c]) /\ call'[c].op # "waiting"
      BY <2>2, <2>3, <3>1 DEF Plain, Brought
    <3>3. Quiet
      BY <2>1, <2>3, SameTab
    <3>4. QED
      BY <3>1, <3>2, <3>3, Bounds, CallStep DEF Quiet, Others
  <2>4. CASE B!ClearSession /\ UNCHANGED call
    <3>1. Quiet
      BY <2>1, <2>4, ClearedTab
    <3>2. B!TypeOK'
      BY <2>4, <3>1, Bounds DEF Quiet, TabInv, B!TypeOK, B!Idle
    <3>3. QED
      BY <2>4, <3>1, <3>2, CallsChange DEF Quiet
  <2>5. QED
    BY <2>1, <2>3, <2>4
<1>2. ASSUME B!LogoutAnswered(c) PROVE TabInv'
  <2>1. /\ UNCHANGED <<issued, login, live, expired, shared, refresh, refused, lost, burned>>
        /\ call' = [call EXCEPT ![c] = B!Idle]
        /\ B!ClearSession
        /\ jar' = 0 \/ jar' = jar
    BY <1>2 DEF B!LogoutAnswered, B!server, B!history
  <2>2. 0 \in 0 .. MaxPairs
    BY BrowserAssumption
  <2>3. Quiet
    BY <2>1, <2>2, Bounds DEF Quiet, B!ClearSession
  <2>4. QED
    BY <2>1, <2>3, BecomesIdle
<1>3. QED
  BY <1>1, <1>2

\* A refresh starts when the tab knows of no other, or has just been reloaded.
LEMMA RefreshStarts ==
  ASSUME TabInv, NEW s \in Refreshes,
         csrf # 0, refresh[s] = B!Idle,
         refresh' = [refresh EXCEPT ![s] = [op |-> "sent", header |-> csrf, cookie |-> jar]],
         shared' = s,
         UNCHANGED <<issued, login, live, expired, jar, csrf, refused, burned>>,
         access' \in 0 .. MaxPairs,
         status' \in {"loading", "authenticated", "unauthenticated"},
         lost' \in BOOLEAN, lost => lost', shared # NoRefresh => lost',
         call' \in [Calls -> B!Call],
         \A c \in Calls :
           call'[c] = call[c] \/ (Plain(call[c]) /\ ~Brought(call[c]))'
  PROVE  TabInv'
<1> DEFINE y == [op |-> "sent", header |-> csrf, cookie |-> jar]
<1>1. csrf \in B!Pairs /\ csrf \in 1 .. issued /\ jar \in 0 .. MaxPairs
  BY Bounds
<1>2. y \in B!Refresh /\ y.op = "sent" /\ y.header = csrf /\ y # B!Idle
  BY <1>1, RefreshFacts
<1> HIDE DEF y
<1>3. /\ refresh' \in [Refreshes -> B!Refresh] /\ refresh'[s] = y
      /\ \A q \in Refreshes : q # s => refresh'[q] = refresh[q]
  <2>1. refresh' = [refresh EXCEPT ![s] = y]
    BY DEF y
  <2>2. QED
    BY <1>2, <2>1, Bounds
<1>4. B!TypeOK'
  <2>1. shared' # NoRefresh
    BY BrowserAssumption
  <2>2. refresh'[shared'] # B!Idle
    BY <1>2, <1>3
  <2>3. QED
    BY <1>3, <2>1, <2>2, Bounds DEF TabInv, B!TypeOK, B!Idle
<1>5. ~lost' => /\ ~lost /\ Unspent(csrf)
                /\ \A q \in Refreshes : refresh[q] = B!Idle
  BY BrowserAssumption DEF TabInv
<1>6. \A c \in Calls : (Plain(call[c]) /\ (Brought(call[c]) => BroughtOK(call[c])))'
  <2> TAKE c \in Calls
  <2>1. CASE call'[c] = call[c]
    <3>1. Plain(call[c]) /\ (Brought(call[c]) => BroughtOK(call[c]))
      BY DEF TabInv
    <3>2. Plain(call[c])'
      BY <2>1, <3>1 DEF Plain
    <3>3. ASSUME NEW g, Unspent(g) PROVE Unspent(g)'
      BY <3>3, FewerLive
    <3>4. Brought(call[c])' => BroughtOK(call[c])'
      BY <1>5, <2>1, <3>1, <3>3 DEF Brought, BroughtOK
    <3>5. QED
      BY <3>2, <3>4
  <2>2. CASE (Plain(call[c]) /\ ~Brought(call[c]))'
    BY <2>2
  <2>3. QED
    BY <2>1, <2>2
<1>7. \A q \in Refreshes : RefreshOK(refresh[q])'
  <2> TAKE q \in Refreshes
  <2>1. ASSUME NEW g, Unspent(g) PROVE Unspent(g)'
    BY <2>1, FewerLive
  <2>2. CASE q = s
    BY <1>1, <1>2, <1>3, <1>5, <2>1, <2>2 DEF RefreshOK
  <2>3. CASE q # s
    <3>1. RefreshOK(refresh[q]) /\ refresh'[q] = refresh[q]
      BY <1>3, <2>3 DEF TabInv
    <3>2. QED
      BY <1>5, <2>1, <3>1 DEF RefreshOK
  <2>4. QED
    BY <2>2, <2>3
<1>8. (~lost => \A q \in Refreshes : refresh[q] # B!Idle => q = shared)'
  BY <1>3, <1>5 DEF B!Idle
<1>9. Fresh'
  <2>1. \A c \in Calls : Brought(call'[c]) => call'[c] = call[c] /\ call[c].token # csrf
    BY DEF TabInv, Brought, BroughtOK
  <2>2. \A c \in Calls, q \in Refreshes : Brought(call'[c]) => Unused(call'[c], refresh'[q])
    BY <1>2, <1>3, <2>1 DEF TabInv, Fresh, Unused, Brought
  <2>3. QED
    BY <2>1, <2>2 DEF TabInv, Fresh, Brought, Unused
<1>10. (~lost /\ shared = NoRefresh /\ csrf # 0 => Unspent(csrf))'
  BY BrowserAssumption
<1>11. B!ReuseNeedsLoss' /\ (\A g \in 1 .. issued : login[g] \in 1 .. issued)' /\ (csrf <= issued)'
  BY Bounds DEF TabInv, B!ReuseNeedsLoss
<1>12. QED
  BY <1>4, <1>6, <1>7, <1>8, <1>9, <1>10, <1>11 DEF TabInv

LEMMA DataRefusedStep ==
  ASSUME TabInv, NEW c \in Calls, B!DataRefused(c)
  PROVE  TabInv'
<1> DEFINE q == B!Repeated(call[c], access)
           w == B!Waiting(call[c])
<1>1. /\ call[c] \in B!Call /\ call[c].op = "refused" /\ call[c].kind \in B!Retried
      /\ call[c].ran = 0
  BY Bounds DEF B!DataRefused, TabInv, Plain
<1>2. q \in B!Call /\ q.op = "sent" /\ q.ran = 0
  BY <1>1, Bounds, NewCalls
<1>3. w \in B!Call /\ w.op = "waiting" /\ w.ran = 0
  BY <1>1, NewCalls
<1>4. UNCHANGED <<issued, login, live, expired, jar, refused, lost, burned>>
  BY DEF B!DataRefused, B!server, B!history
<1>5. \/ /\ call' = [call EXCEPT ![c] = q]
         /\ UNCHANGED <<refresh, shared, access, csrf, status>>
      \/ /\ call' = [call EXCEPT ![c] = B!Idle]
         /\ B!ClearSession
         /\ UNCHANGED <<refresh, shared>>
      \/ /\ shared # NoRefresh
         /\ call' = [call EXCEPT ![c] = w]
         /\ UNCHANGED <<refresh, shared, access, csrf, status>>
      \/ /\ shared = NoRefresh
         /\ csrf # 0
         /\ \E s \in Refreshes :
              /\ refresh[s] = B!Idle
              /\ refresh' = [refresh EXCEPT ![s] =
                               [op |-> "sent", header |-> csrf, cookie |-> jar]]
              /\ shared' = s
         /\ call' = [call EXCEPT ![c] = w]
         /\ UNCHANGED <<access, csrf, status>>
  BY Bounds DEF B!DataRefused, B!JoinRefresh
<1> HIDE DEF q, w
<1>6. CASE /\ call' = [call EXCEPT ![c] = q]
           /\ UNCHANGED <<refresh, shared, access, csrf, status>>
  <2>1. call' \in [Calls -> B!Call] /\ call'[c] = q /\ Others(c)
    BY <1>2, <1>6, Bounds DEF Others
  <2>2. Quiet
    BY <1>4, <1>6, SameTab
  <2>3. QED
    BY <1>2, <2>1, <2>2, BecomesSent
<1>7. CASE /\ call' = [call EXCEPT ![c] = B!Idle]
           /\ B!ClearSession
           /\ UNCHANGED <<refresh, shared>>
  BY <1>4, <1>7, ClearedTab, BecomesIdle
<1>8. CASE call' = [call EXCEPT ![c] = w] /\ UNCHANGED <<access, csrf, status>>
  <2>1. call' \in [Calls -> B!Call] /\ call'[c] = w /\ Others(c)
    BY <1>3, <1>8, Bounds DEF Others
  <2>2. Plain(call[c])' /\ ~Brought(call'[c])
    BY <1>3, <2>1 DEF Plain, Brought
  <2>3. CASE shared # NoRefresh /\ UNCHANGED <<refresh, shared>>
    <3>1. Quiet
      BY <1>4, <1>8, <2>3, SameTab
    <3>2. QED
      BY <2>1, <2>2, <2>3, <3>1, Bounds, CallStep DEF Quiet, Others
  <2>4. CASE /\ shared = NoRefresh /\ csrf # 0
             /\ \E s \in Refreshes :
                  /\ refresh[s] = B!Idle
                  /\ refresh' = [refresh EXCEPT ![s] =
                                   [op |-> "sent", header |-> csrf, cookie |-> jar]]
                  /\ shared' = s
    <3>1. \A d \in Calls : call'[d] = call[d] \/ (Plain(call[d]) /\ ~Brought(call[d]))'
      BY <2>1, <2>2 DEF Others, Brought
    <3>2. status' \in {"loading", "authenticated", "unauthenticated"} /\ lost' \in BOOLEAN
      BY <1>4, <1>8 DEF TabInv, B!TypeOK
    <3>3. QED
      BY <1>4, <1>8, <2>1, <2>4, <3>1, <3>2, Bounds, RefreshStarts
  <2>5. QED
    BY <1>5, <1>8, <2>3, <2>4, <1>6, <1>7
<1>9. QED
  BY <1>5, <1>6, <1>7, <1>8

LEMMA ReloadStep ==
  ASSUME TabInv, B!Reload
  PROVE  TabInv'
<1> DEFINE w == B!Waiting(B!Request("restore", 0))
<1>1. w \in B!Call /\ w.op = "waiting" /\ w.ran = 0
  <2>1. "restore" \in B!Kinds /\ 0 \in 0 .. MaxPairs
    BY BrowserAssumption DEF B!Kinds
  <2>2. QED
    BY <2>1, NewCalls
<1>2. /\ UNCHANGED <<issued, login, live, expired, jar, csrf, refused, burned>>
      /\ lost' = (lost \/ shared # NoRefresh)
      /\ access' = 0
  BY DEF B!Reload, B!server
<1>3. \E c \in Calls :
        \/ /\ csrf # 0
           /\ \E s \in Refreshes :
                /\ refresh[s] = B!Idle
                /\ refresh' = [refresh EXCEPT ![s] =
                                 [op |-> "sent", header |-> csrf, cookie |-> jar]]
                /\ shared' = s
           /\ call' = [d \in Calls |-> IF d = c THEN w ELSE B!Idle]
           /\ status' = "loading"
        \/ /\ csrf = 0
           /\ call' = [d \in Calls |-> B!Idle]
           /\ status' = "unauthenticated"
           /\ shared' = NoRefresh
           /\ UNCHANGED refresh
  BY DEF B!Reload
<1>4. lost' \in BOOLEAN /\ (lost => lost') /\ (shared # NoRefresh => lost')
  BY <1>2, Bounds
<1> HIDE DEF w
<1>5. CASE \E c \in Calls :
             /\ csrf # 0
             /\ \E s \in Refreshes :
                  /\ refresh[s] = B!Idle
                  /\ refresh' = [refresh EXCEPT ![s] =
                                   [op |-> "sent", header |-> csrf, cookie |-> jar]]
                  /\ shared' = s
             /\ call' = [d \in Calls |-> IF d = c THEN w ELSE B!Idle]
             /\ status' = "loading"
  <2>1. /\ call' \in [Calls -> B!Call]
        /\ \A d \in Calls : call'[d] = w \/ call'[d] = B!Idle
    BY <1>1, <1>5, NewCalls
  <2>2. \A d \in Calls : (Plain(call[d]) /\ ~Brought(call[d]))'
    BY <1>1, <2>1, NewCalls DEF Plain, Brought
  <2>3. access' \in 0 .. MaxPairs /\ status' \in {"loading", "authenticated", "unauthenticated"}
    BY <1>2, <1>5, BrowserAssumption
  <2>4. QED
    BY <1>2, <1>4, <1>5, <2>1, <2>2, <2>3, RefreshStarts
<1>6. CASE /\ csrf = 0
           /\ call' = [d \in Calls |-> B!Idle]
           /\ status' = "unauthenticated"
           /\ shared' = NoRefresh
           /\ UNCHANGED refresh
  <2>1. /\ call' \in [Calls -> B!Call]
        /\ \A d \in Calls : call'[d].op = "idle"
    BY <1>6, NewCalls
  <2>2. \A d \in Calls : (Plain(call[d]) /\ ~Brought(call[d]))'
    BY <2>1 DEF Plain, Brought
  <2>3. B!TypeOK'
    BY <1>2, <1>4, <1>6, <2>1, BrowserAssumption DEF TabInv, B!TypeOK
  <2>4. ~lost' => ~lost /\ shared = NoRefresh
    BY <1>2
  <2>5. \A s \in Refreshes : RefreshOK(refresh[s])'
    <3> TAKE s \in Refreshes
    <3>1. RefreshOK(refresh[s])
      BY DEF TabInv
    <3>2. ASSUME NEW g, Unspent(g) PROVE Unspent(g)'
      BY <1>2, <3>2, FewerLive
    <3>3. QED
      BY <1>2, <1>6, <2>4, <3>1, <3>2 DEF RefreshOK
  <2>6. Fresh'
    BY <2>2 DEF Fresh
  <2>7. (~lost => \A s \in Refreshes : refresh[s] # B!Idle => s = shared)'
    BY <1>6, <2>4 DEF TabInv, B!Idle
  <2>8. B!ReuseNeedsLoss' /\ (\A g \in 1 .. issued : login[g] \in 1 .. issued)' /\ (csrf <= issued)'
    BY <1>2, Bounds DEF TabInv, B!ReuseNeedsLoss
  <2>9. QED
    BY <1>2, <1>6, <2>2, <2>3, <2>5, <2>6, <2>7, <2>8 DEF TabInv
<1>7. QED
  BY <1>3, <1>5, <1>6

LEMMA LoginAnsweredStep ==
  ASSUME TabInv, NEW c \in Calls, B!LoginAnswered(c)
  PROVE  TabInv'
<1>1. UNCHANGED <<issued, login, live, expired, status, shared, refresh, refused, lost, burned>>
  BY DEF B!LoginAnswered, B!server, B!history
<1>2. CASE call[c].op # "ok"
  <2>1. call' = [call EXCEPT ![c] = B!Idle] /\ UNCHANGED <<jar, access, csrf>>
    BY <1>2 DEF B!LoginAnswered
  <2>2. QED
    BY <1>1, <2>1, SameTab, BecomesIdle
<1>3. CASE call[c].op = "ok"
  <2> DEFINE g == call[c].token
             x == B!Request("me", g)
  <2>1. Brought(call[c]) /\ BroughtOK(call[c]) /\ g \in 1 .. issued
    BY <1>3 DEF B!LoginAnswered, TabInv, Brought, BroughtOK
  <2>2. jar' = g /\ access' = g /\ csrf' = g /\ call' = [call EXCEPT ![c] = x]
    BY <1>3 DEF B!LoginAnswered
  <2>3. g \in 0 .. MaxPairs /\ g # 0
    BY <2>1, Bounds
  <2>4. x \in B!Call /\ x.op = "sent" /\ x.ran = 0
    <3>1. "me" \in B!Kinds
      BY DEF B!Kinds
    <3>2. QED
      BY <2>3, <3>1, NewCalls
  <2> HIDE DEF x
  <2>5. call' \in [Calls -> B!Call] /\ call'[c] = x /\ Others(c)
    BY <2>2, <2>4, Bounds DEF Others
  <2>6. B!TypeOK'
    <3>1. \A d \in Calls : call'[d].op = "waiting" => shared' # NoRefresh
      BY <1>1, <2>4, <2>5 DEF TabInv, B!TypeOK, Others
    <3>2. QED
      BY <1>1, <2>2, <2>3, <2>5, <3>1 DEF TabInv, B!TypeOK, B!Idle
  <2>7. ASSUME NEW h, Unspent(h) PROVE Unspent(h)'
    BY <1>1, <2>7, FewerLive
  <2>8. ASSUME NEW d \in Calls
        PROVE  (Plain(call[d]) /\ (Brought(call[d]) => BroughtOK(call[d])))'
    <3>1. CASE d = c
      BY <2>4, <2>5, <3>1 DEF Plain, Brought
    <3>2. CASE d # c
      <4>1. call'[d] = call[d] /\ Plain(call[d]) /\ (Brought(call[d]) => BroughtOK(call[d]))
        BY <2>5, <3>2 DEF TabInv, Others
      <4>2. Plain(call[d])'
        BY <1>1, <4>1 DEF Plain
      <4>3. Brought(call[d]) => call[d].token # g
        BY <2>1, <3>2 DEF TabInv, Fresh
      <4>4. Brought(call[d])' => BroughtOK(call[d])'
        BY <1>1, <2>2, <2>7, <4>1, <4>3 DEF Brought, BroughtOK
      <4>5. QED
        BY <4>2, <4>4
    <3>3. QED
      BY <3>1, <3>2
  <2>9. \A s \in Refreshes : RefreshOK(refresh[s])'
    <3> TAKE s \in Refreshes
    <3>1. RefreshOK(refresh[s])
      BY DEF TabInv
    <3>2. QED
      BY <1>1, <2>7, <3>1 DEF RefreshOK
  <2>10. (~lost /\ shared = NoRefresh /\ csrf # 0 => Unspent(csrf))'
    <3>1. ASSUME NEW h, h = g, ~lost PROVE Unspent(h)'
      BY <2>1, <2>7, <3>1 DEF BroughtOK
    <3>2. QED
      BY <1>1, <2>2, <3>1
  <2>11. Fresh'
    <3>1. \A d \in Calls : Brought(call'[d]) => call'[d] = call[d]
      BY <2>4, <2>5 DEF Others, Brought
    <3>2. QED
      BY <1>1, <3>1 DEF TabInv, Fresh, Brought, Unused
  <2>12. (~lost => \A s \in Refreshes : refresh[s] # B!Idle => s = shared)'
    BY <1>1 DEF TabInv, B!Idle
  <2>13. B!ReuseNeedsLoss' /\ (\A h \in 1 .. issued : login[h] \in 1 .. issued)' /\ (csrf <= issued)'
    BY <1>1, <2>1, <2>2, Bounds DEF TabInv, B!ReuseNeedsLoss
  <2>14. QED
    BY <2>6, <2>8, <2>9, <2>10, <2>11, <2>12, <2>13 DEF TabInv
<1>4. QED
  BY <1>2, <1>3

\* What the functions that waited for a refresh do.
LEMMA WaitersGoOn ==
  ASSUME TabInv, NEW g \in 0 .. MaxPairs
  PROVE  /\ B!Resumed(g) \in [Calls -> B!Call]
         /\ B!GivenUp \in [Calls -> B!Call]
         /\ \A c \in Calls :
              /\ \/ B!Resumed(g)[c] = call[c] /\ call[c].op # "waiting"
                 \/ B!Resumed(g)[c].op = "sent" /\ B!Resumed(g)[c].ran = 0
              /\ \/ B!GivenUp[c] = call[c] /\ call[c].op # "waiting"
                 \/ B!GivenUp[c].op = "idle"
<1>1. ASSUME NEW c \in Calls
      PROVE  /\ B!Resumed(g)[c] \in B!Call /\ B!GivenUp[c] \in B!Call
             /\ \/ B!Resumed(g)[c] = call[c] /\ call[c].op # "waiting"
                \/ B!Resumed(g)[c].op = "sent" /\ B!Resumed(g)[c].ran = 0
             /\ \/ B!GivenUp[c] = call[c] /\ call[c].op # "waiting"
                \/ B!GivenUp[c].op = "idle"
  <2> DEFINE m == B!Request("me", g)
             q == B!Repeated(call[c], g)
  <2>1. call[c] \in B!Call /\ (call[c].op = "waiting" => call[c].ran = 0)
    BY Bounds DEF TabInv, Plain
  <2>2. m \in B!Call /\ m.op = "sent" /\ m.ran = 0
    <3>1. "me" \in B!Kinds
      BY DEF B!Kinds
    <3>2. QED
      BY <3>1, NewCalls
  <2>3. call[c].op = "waiting" => q \in B!Call /\ q.op = "sent" /\ q.ran = 0
    BY <2>1, NewCalls
  <2>4. B!Resumed(g)[c] = IF call[c].op # "waiting" THEN call[c]
                          ELSE IF call[c].kind = "restore" THEN m ELSE q
    BY DEF B!Resumed
  <2>5. B!GivenUp[c] = IF call[c].op = "waiting" THEN B!Idle ELSE call[c]
    BY DEF B!GivenUp
  <2> HIDE DEF m, q
  <2>6. QED
    BY <2>1, <2>2, <2>3, <2>4, <2>5, NewCalls
<1>2. B!Resumed(g) = [c \in Calls |-> B!Resumed(g)[c]] /\ B!GivenUp = [c \in Calls |-> B!GivenUp[c]]
  BY DEF B!Resumed, B!GivenUp
<1>3. QED
  BY <1>1, <1>2

\* A refresh is over: what a call that waited does is no answer to a login.
LEMMA RefreshEnds ==
  ASSUME TabInv, NEW s \in Refreshes,
         refresh' = [refresh EXCEPT ![s] = B!Idle],
         UNCHANGED <<issued, login, live, expired, refused, lost, burned>>,
         jar' \in 0 .. MaxPairs, access' \in 0 .. MaxPairs,
         status' \in {"loading", "authenticated", "unauthenticated"},
         (shared = s /\ shared' = NoRefresh) \/ (shared' = shared /\ shared # s),
         shared' = shared => csrf' = csrf,
         csrf' \in 0 .. issued,
         ~lost /\ csrf' # 0 /\ shared' # shared => Unspent(csrf'),
         \A c \in Calls : Brought(call[c]) => call[c].token # csrf',
         call' \in [Calls -> B!Call],
         shared' = NoRefresh => \A c \in Calls : call'[c].op # "waiting",
         shared' # NoRefresh => call' = call,
         \A c \in Calls :
           call'[c] = call[c] \/ (Plain(call[c]) /\ ~Brought(call[c]))'
  PROVE  TabInv'
<1>1. /\ refresh' \in [Refreshes -> B!Refresh] /\ refresh'[s] = B!Idle
      /\ \A q \in Refreshes : q # s => refresh'[q] = refresh[q]
  BY Bounds, RefreshFacts
<1>2. B!TypeOK'
  <2>1. csrf' \in 0 .. MaxPairs
    BY Bounds
  <2>2. \A c \in Calls : call'[c].op = "waiting" => shared' # NoRefresh
    OBVIOUS
  <2>3. shared' # NoRefresh => refresh'[shared'] # B!Idle /\ shared' \in Refreshes
    BY <1>1 DEF TabInv, B!TypeOK
  <2>4. QED
    BY <1>1, <2>1, <2>2, <2>3, Bounds DEF TabInv, B!TypeOK, B!Idle
<1>3. ASSUME NEW g, Unspent(g) PROVE Unspent(g)'
  BY <1>3, FewerLive
<1>4. \A c \in Calls : (Plain(call[c]) /\ (Brought(call[c]) => BroughtOK(call[c])))'
  <2> TAKE c \in Calls
  <2>1. CASE call'[c] = call[c]
    <3>1. Plain(call[c]) /\ (Brought(call[c]) => BroughtOK(call[c]))
      BY DEF TabInv
    <3>2. Plain(call[c])'
      BY <2>1, <3>1 DEF Plain
    <3>3. Brought(call[c])' => BroughtOK(call[c])'
      BY <1>3, <2>1, <3>1 DEF Brought, BroughtOK
    <3>4. QED
      BY <3>2, <3>3
  <2>2. CASE (Plain(call[c]) /\ ~Brought(call[c]))'
    BY <2>2
  <2>3. QED
    BY <2>1, <2>2
<1>5. \A q \in Refreshes : RefreshOK(refresh[q])'
  <2> TAKE q \in Refreshes
  <2>1. RefreshOK(refresh[q])
    BY DEF TabInv
  <2>2. refresh'[q] = refresh[q] \/ refresh'[q].op = "idle"
    BY <1>1, RefreshFacts
  <2>3. QED
    BY <1>3, <2>1, <2>2 DEF RefreshOK
<1>6. (~lost => \A q \in Refreshes : refresh[q] # B!Idle => q = shared)'
  BY <1>1 DEF TabInv, B!Idle
<1>7. Fresh'
  <2>1. \A c \in Calls : Brought(call'[c]) => call'[c] = call[c]
    BY DEF Brought
  <2>2. \A q \in Refreshes : refresh'[q] = refresh[q] \/ refresh'[q].op = "idle"
    BY <1>1, RefreshFacts
  <2>3. QED
    BY <2>1, <2>2 DEF TabInv, Fresh, Brought, Unused
<1>8. (~lost /\ shared = NoRefresh /\ csrf # 0 => Unspent(csrf))'
  <2>1. CASE shared' = shared
    BY <1>3, <2>1 DEF TabInv
  <2>2. CASE shared' # shared
    <3>1. ASSUME NEW g, g = csrf', ~lost, g # 0 PROVE Unspent(g)'
      BY <1>3, <2>2, <3>1
    <3>2. QED
      BY <2>2, <3>1
  <2>3. QED
    BY <2>1, <2>2
<1>9. B!ReuseNeedsLoss' /\ (\A g \in 1 .. issued : login[g] \in 1 .. issued)' /\ (csrf <= issued)'
  BY Bounds DEF TabInv, B!ReuseNeedsLoss
<1>10. QED
  BY <1>2, <1>4, <1>5, <1>6, <1>7, <1>8, <1>9 DEF TabInv

LEMMA RefreshAnsweredStep ==
  ASSUME TabInv, NEW s \in Refreshes
  PROVE  /\ B!RefreshAnswered(s) => TabInv'
         /\ B!StrayAnswer(s) => TabInv'
<1>1. ASSUME B!RefreshAnswered(s) PROVE TabInv'
  <2> DEFINE g == refresh[s].pair
  <2>1. /\ UNCHANGED <<issued, login, live, expired, refused, lost, burned>>
        /\ shared = s /\ shared' = NoRefresh /\ refresh[s].op = "answered"
        /\ refresh' = [refresh EXCEPT ![s] = B!Idle]
        /\ \/ /\ g # 0 /\ jar' = g /\ access' = g /\ csrf' = g
              /\ call' = B!Resumed(g) /\ UNCHANGED status
           \/ /\ g = 0 /\ call' = B!GivenUp
              /\ B!ClearSession /\ UNCHANGED jar
    BY <1>1 DEF B!RefreshAnswered, B!server, B!history
  <2>2. g \in 0 .. MaxPairs /\ 0 \in 0 .. MaxPairs
    BY <2>1, Bounds, RefreshFacts
  <2>3. g = 0 \/ (g \in 1 .. issued /\ (~lost => Unspent(g)))
    BY <2>1 DEF TabInv, RefreshOK
  <2>4. \A c \in Calls : Brought(call[c]) => call[c].token # g /\ call[c].token \in 1 .. issued
    BY <2>1 DEF TabInv, Fresh, Unused, BroughtOK
  <2>5. /\ call' \in [Calls -> B!Call]
        /\ \A c \in Calls :
             \/ call'[c] = call[c] /\ call[c].op # "waiting"
             \/ call'[c].op = "sent" /\ call'[c].ran = 0
             \/ call'[c].op = "idle"
    BY <2>1, <2>2, WaitersGoOn
  <2>6. /\ \A c \in Calls : call'[c].op # "waiting"
        /\ \A c \in Calls : call'[c] = call[c] \/ (Plain(call[c]) /\ ~Brought(call[c]))'
    BY <2>5 DEF Plain, Brought
  <2>7. /\ jar' \in 0 .. MaxPairs /\ access' \in 0 .. MaxPairs
        /\ status' \in {"loading", "authenticated", "unauthenticated"}
    BY <2>1, <2>2, Bounds DEF TabInv, B!TypeOK, B!ClearSession
  <2>8. csrf' = g
    BY <2>1 DEF B!ClearSession
  <2>9. csrf' \in 0 .. issued /\ (~lost /\ csrf' # 0 => Unspent(csrf'))
    BY <2>3, <2>8, Bounds
  <2>10. \A c \in Calls : Brought(call[c]) => call[c].token # csrf'
    BY <2>4, <2>8
  <2>11. shared' # shared
    BY <2>1, BrowserAssumption
  <2>12. QED
    BY <2>1, <2>5, <2>6, <2>7, <2>9, <2>10, <2>11, RefreshEnds
<1>2. ASSUME B!StrayAnswer(s) PROVE TabInv'
  <2>1. /\ UNCHANGED <<issued, login, live, expired, refused, lost, burned>>
        /\ UNCHANGED <<access, csrf, status, shared, call>>
        /\ shared # s /\ refresh[s].op = "answered"
        /\ refresh' = [refresh EXCEPT ![s] = B!Idle]
        /\ jar' = refresh[s].pair \/ jar' = jar
    BY <1>2 DEF B!StrayAnswer, B!server, B!history
  <2>2. jar' \in 0 .. MaxPairs
    BY <2>1, Bounds, RefreshFacts
  <2>3. \A c \in Calls : Brought(call[c]) => call[c].token # csrf'
    BY <2>1 DEF TabInv, BroughtOK
  <2>4. /\ status' \in {"loading", "authenticated", "unauthenticated"}
        /\ shared = NoRefresh => \A c \in Calls : call[c].op # "waiting"
    BY <2>1 DEF TabInv, B!TypeOK
  <2>5. QED
    BY <2>1, <2>2, <2>3, <2>4, Bounds, RefreshEnds
<1>3. QED
  BY <1>1, <1>2

LEMMA LoseRefreshStep ==
  ASSUME TabInv, NEW s \in Refreshes, B!LoseRefresh(s)
  PROVE  TabInv'
<1> DEFINE y == [op |-> "answered", pair |-> 0]
<1>1. y \in B!Refresh /\ y.op = "answered" /\ y.pair = 0 /\ y # B!Idle
  <2>1. 0 \in 0 .. MaxPairs
    BY BrowserAssumption
  <2>2. QED
    BY <2>1, RefreshFacts
<1>2. /\ UNCHANGED <<issued, login, live, expired, jar, access, csrf, status, shared>>
      /\ UNCHANGED <<call, refused, burned>>
      /\ lost' = TRUE
      /\ refresh' = [refresh EXCEPT ![s] = y]
  BY DEF B!LoseRefresh, B!server, B!tab
<1> HIDE DEF y
<1>3. /\ refresh' \in [Refreshes -> B!Refresh] /\ refresh'[s] = y
      /\ \A q \in Refreshes : q # s => refresh'[q] = refresh[q]
  BY <1>1, <1>2, Bounds
<1>4. B!TypeOK'
  <2>1. shared # NoRefresh => refresh'[shared] # B!Idle
    BY <1>1, <1>3 DEF TabInv, B!TypeOK
  <2>2. QED
    BY <1>2, <1>3, <2>1 DEF TabInv, B!TypeOK, B!Idle
<1>5. \A c \in Calls : (Plain(call[c]) /\ (Brought(call[c]) => BroughtOK(call[c])))'
  BY <1>2 DEF TabInv, Plain, Brought, BroughtOK
<1>6. \A q \in Refreshes : RefreshOK(refresh[q])'
  BY <1>1, <1>2, <1>3 DEF TabInv, RefreshOK
<1>7. Fresh'
  <2>1. ASSUME NEW c \in Calls, NEW q \in Refreshes, Brought(call[c])
        PROVE  Unused(call[c], refresh'[q])
    <3>1. call[c].token # 0 /\ Unused(call[c], refresh[q])
      BY <2>1 DEF TabInv, BroughtOK, Fresh
    <3>2. QED
      BY <1>1, <1>3, <3>1 DEF Unused
  <2>2. QED
    BY <1>2, <2>1 DEF TabInv, Fresh, Brought, Unused
<1>8. QED
  BY <1>2, <1>4, <1>5, <1>6, <1>7 DEF TabInv, B!ReuseNeedsLoss

\* A new pair: the families of the others stay as they are.
LEMMA PairIssued ==
  ASSUME TabInv, NEW root \in 0 .. issued, B!IssuePair(root)
  PROVE  /\ issued' = issued + 1 /\ issued + 1 \in B!Pairs /\ issued' \in 0 .. MaxPairs
         /\ login' \in [B!Pairs -> 0 .. MaxPairs]
         /\ login'[issued + 1] = IF root = 0 THEN issued + 1 ELSE root
         /\ \A g \in 1 .. issued : login'[g] = login[g] /\ login[g] \in 1 .. issued
         /\ (\A g \in 1 .. issued : login[g] \in 1 .. issued)'
<1>1. issued + 1 \in B!Pairs /\ issued < MaxPairs
  BY Bounds DEF B!IssuePair, B!Pairs
<1>2. login' = [login EXCEPT ![issued + 1] = IF root = 0 THEN issued + 1 ELSE root]
  BY DEF B!IssuePair
<1>3. (IF root = 0 THEN issued + 1 ELSE root) \in 0 .. MaxPairs
  BY <1>1, Bounds
<1>4. /\ login' \in [B!Pairs -> 0 .. MaxPairs]
      /\ login'[issued + 1] = IF root = 0 THEN issued + 1 ELSE root
      /\ \A g \in 1 .. issued : login'[g] = login[g]
  BY <1>1, <1>2, <1>3, Bounds
<1>5. issued' = issued + 1
  BY DEF B!IssuePair
<1>6. \A g \in 1 .. issued : login[g] \in 1 .. issued
  BY DEF TabInv
<1>7. (\A g \in 1 .. issued : login[g] \in 1 .. issued)'
  <2> SUFFICES ASSUME NEW g \in 1 .. issued' PROVE login'[g] \in 1 .. issued'
    OBVIOUS
  <2>1. g \in 1 .. issued \/ g = issued + 1
    BY <1>5, Bounds
  <2>2. QED
    BY <1>4, <1>5, <1>6, <2>1, Bounds
<1>8. QED
  BY <1>1, <1>4, <1>5, <1>6, <1>7, Bounds

LEMMA ServeLoginStep ==
  ASSUME TabInv, NEW c \in Calls, B!ServeLogin(c)
  PROVE  TabInv'
<1>1. /\ call[c].op = "sent" /\ call[c].kind = "login" /\ call[c].ran = 0
      /\ call[c] \in Answerable
      /\ UNCHANGED <<expired, jar, access, csrf, status, shared, refresh, refused, lost, burned>>
  BY Bounds, IsAnswerable DEF B!ServeLogin, TabInv, Plain, B!tab, B!history
<1>2. ASSUME call' = [call EXCEPT ![c].op = "refused"], UNCHANGED <<issued, login, live>>
      PROVE  TabInv'
  <2> DEFINE x == [call[c] EXCEPT !.op = "refused"]
  <2>1. x \in B!Call /\ x.op = "refused" /\ x.ran = 0 /\ x.kind = "login"
    BY <1>1 DEF B!Call, Answerable
  <2>2. call' = [call EXCEPT ![c] = x]
    BY <1>2, Bounds
  <2> HIDE DEF x
  <2>3. call' \in [Calls -> B!Call] /\ call'[c] = x /\ Others(c)
    BY <2>1, <2>2, Bounds DEF Others
  <2>4. Plain(call[c])' /\ ~Brought(call'[c]) /\ call'[c].op # "waiting"
    BY <2>1, <2>3 DEF Plain, Brought, B!Retried
  <2>5. Quiet
    BY <1>1, <1>2, SameTab
  <2>6. QED
    BY <2>3, <2>4, <2>5, Bounds, CallStep DEF Quiet, Others
<1>3. ASSUME B!IssuePair(0), live' = live \cup {issued + 1},
             call' = [call EXCEPT ![c].op = "ok", ![c].token = issued + 1]
      PROVE  TabInv'
  <2> DEFINE n == issued + 1
             x == [[call[c] EXCEPT !.op = "ok"] EXCEPT !.token = n]
  <2>1. /\ issued' = n /\ n \in B!Pairs /\ issued' \in 0 .. MaxPairs /\ n \in 0 .. MaxPairs
        /\ login' \in [B!Pairs -> 0 .. MaxPairs] /\ login'[n] = n
        /\ \A g \in 1 .. issued : login'[g] = login[g] /\ login[g] \in 1 .. issued
        /\ (\A g \in 1 .. issued : login[g] \in 1 .. issued)'
    <3>1. 0 \in 0 .. issued
      BY Bounds
    <3>2. QED
      BY <1>3, <3>1, PairIssued, Bounds
  <2>2. x \in B!Call /\ x.op = "ok" /\ x.ran = 0 /\ x.kind = "login" /\ x.token = n
    BY <1>1, <2>1 DEF B!Call, Answerable
  <2>3. call' = [call EXCEPT ![c] = x]
    BY <1>3, Bounds
  <2> HIDE DEF x
  <2>4. call' \in [Calls -> B!Call] /\ call'[c] = x /\ Others(c)
    BY <2>2, <2>3, Bounds DEF Others
  <2>5. n \notin 1 .. issued /\ n # csrf /\ n # 0 /\ 1 .. issued \subseteq 1 .. n /\ n \in 1 .. n
    BY Bounds
  <2>6. ASSUME NEW g \in 1 .. issued, Unspent(g) PROVE Unspent(g)'
    BY <1>3, <2>1, <2>5, <2>6, Bounds DEF Unspent, B!FamilyOf
  <2>7. ASSUME NEW g, g = n PROVE Unspent(g)'
    BY <1>3, <2>1, <2>5, <2>7, Bounds DEF Unspent, B!FamilyOf
  <2>8. B!TypeOK'
    <3>1. \A d \in Calls : call'[d].op = "waiting" => shared' # NoRefresh
      BY <1>1, <2>2, <2>4 DEF TabInv, B!TypeOK, Others
    <3>2. live' \subseteq 1 .. issued' /\ expired' \subseteq 1 .. issued'
      BY <1>1, <1>3, <2>1, <2>5 DEF TabInv, B!TypeOK
    <3>3. QED
      BY <1>1, <2>1, <2>4, <3>1, <3>2 DEF TabInv, B!TypeOK, B!Idle
  <2>9. ASSUME NEW d \in Calls
        PROVE  (Plain(call[d]) /\ (Brought(call[d]) => BroughtOK(call[d])))'
    <3>1. CASE d = c
      <4>1. Plain(call[d])'
        BY <2>2, <2>4, <3>1 DEF Plain
      <4>2. BroughtOK(call[d])'
        BY <1>1, <2>1, <2>2, <2>4, <2>5, <2>7, <3>1 DEF BroughtOK
      <4>3. QED
        BY <4>1, <4>2
    <3>2. CASE d # c
      <4>1. call'[d] = call[d] /\ Plain(call[d]) /\ (Brought(call[d]) => BroughtOK(call[d]))
        BY <2>4, <3>2 DEF TabInv, Others
      <4>2. Plain(call[d])'
        BY <1>1, <4>1 DEF Plain
      <4>3. Brought(call[d])' => BroughtOK(call[d])'
        BY <1>1, <2>1, <2>5, <2>6, <4>1 DEF Brought, BroughtOK
      <4>4. QED
        BY <4>2, <4>3
    <3>3. QED
      BY <3>1, <3>2
  <2>10. \A s \in Refreshes : RefreshOK(refresh[s])'
    <3> TAKE s \in Refreshes
    <3>1. RefreshOK(refresh[s])
      BY DEF TabInv
    <3>2. QED
      BY <1>1, <2>1, <2>5, <2>6, <3>1 DEF RefreshOK
  <2>11. (~lost /\ shared = NoRefresh /\ csrf # 0 => Unspent(csrf))'
    <3>1. ASSUME ~lost, shared = NoRefresh, csrf # 0, NEW g, g = csrf PROVE Unspent(g)'
      BY <2>6, <3>1, Bounds DEF TabInv
    <3>2. QED
      BY <1>1, <3>1
  <2>12. Fresh'
    <3>1. \A d \in Calls : d # c /\ Brought(call[d]) => call[d].token # n
      BY <2>5 DEF TabInv, BroughtOK
    <3>2. ASSUME NEW d \in Calls, NEW s \in Refreshes, Brought(call'[d])
          PROVE  Unused(call'[d], refresh[s])
      <4>1. CASE d = c
        BY <2>2, <2>4, <2>5, <4>1 DEF TabInv, RefreshOK, Unused
      <4>2. CASE d # c
        BY <2>4, <3>2, <4>2 DEF TabInv, Fresh, Others
      <4>3. QED
        BY <4>1, <4>2
    <3>3. ASSUME NEW d \in Calls, NEW e \in Calls, d # e, Brought(call'[d]), Brought(call'[e])
          PROVE  call'[d].token # call'[e].token
      <4>1. Brought(call[d]) \/ d = c
        BY <2>4, <3>3 DEF Others
      <4>2. Brought(call[e]) \/ e = c
        BY <2>4, <3>3 DEF Others
      <4>3. QED
        BY <2>2, <2>4, <3>1, <3>3, <4>1, <4>2 DEF TabInv, Fresh, Others
    <3>4. QED
      BY <1>1, <3>2, <3>3 DEF Fresh, Brought, Unused
  <2>13. (~lost => \A s \in Refreshes : refresh[s] # B!Idle => s = shared)'
    BY <1>1 DEF TabInv, B!Idle
  <2>14. B!ReuseNeedsLoss' /\ (csrf <= issued)'
    BY <1>1, <2>1, Bounds DEF TabInv, B!ReuseNeedsLoss
  <2>15. QED
    BY <2>1, <2>8, <2>9, <2>10, <2>11, <2>12, <2>13, <2>14 DEF TabInv
<1>4. QED
  BY <1>2, <1>3 DEF B!ServeLogin

\* The rotation of k: what is unspent stays so, but for k itself.
LEMMA Rotation ==
  ASSUME TabInv, NEW k \in live, B!IssuePair(login[k]),
         live' = (live \ {k}) \cup {issued + 1}
  PROVE  /\ \A g \in 1 .. issued : g # k /\ Unspent(g) => Unspent(g)'
         /\ ~lost /\ Unspent(k) => \A g : g = issued + 1 => Unspent(g)'
<1> DEFINE n == issued + 1
<1>1. k \in 1 .. issued /\ login[k] \in 1 .. issued /\ login[k] \in 0 .. issued /\ login[k] # 0
  BY Bounds DEF TabInv
<1>2. /\ login'[n] = login[k] /\ n \in B!Pairs
      /\ \A g \in 1 .. issued : login'[g] = login[g]
  BY <1>1, PairIssued
<1>3. n \notin 1 .. issued /\ live \subseteq 1 .. issued /\ live \subseteq B!Pairs
  BY Bounds
<1>4. ASSUME NEW g \in 1 .. issued, g # k, Unspent(g)
      PROVE  Unspent(g)'
  <2>1. login[k] # login[g]
    BY <1>1, <1>3, <1>4 DEF Unspent, B!FamilyOf
  <2>2. QED
    BY <1>1, <1>2, <1>3, <1>4, <2>1 DEF Unspent, B!FamilyOf
<1>5. ASSUME Unspent(k), NEW g, g = n PROVE Unspent(g)'
  BY <1>1, <1>2, <1>3, <1>5 DEF Unspent, B!FamilyOf
<1>6. QED
  BY <1>4, <1>5

LEMMA ServeRefreshStep ==
  ASSUME TabInv, NEW s \in Refreshes, B!ServeRefresh(s)
  PROVE  TabInv'
<1> DEFINE k == refresh[s].cookie
           h == refresh[s].header
           answer(g) == refresh' = [refresh EXCEPT ![s] = [op |-> "answered", pair |-> g]]
<1>1. /\ UNCHANGED <<expired, jar, access, csrf, status, shared, call, refused, lost>>
      /\ refresh[s].op = "sent" /\ refresh[s] # B!Idle
      /\ h \in 1 .. issued /\ (~lost => Unspent(h))
  BY Bounds, RefreshFacts DEF B!ServeRefresh, B!tab, TabInv, RefreshOK
<1>2. \/ answer(0) /\ UNCHANGED <<issued, login, live, burned>>
      \/ /\ k = h /\ k \in live /\ B!IssuePair(login[k])
         /\ live' = (live \ {k}) \cup {issued + 1}
         /\ answer(issued + 1)
         /\ UNCHANGED burned
      \/ /\ k = h /\ k \notin live
         /\ live' = live \ B!FamilyOf(k)
         /\ burned' = (burned \/ live \cap B!FamilyOf(k) # {})
         /\ answer(0)
         /\ UNCHANGED <<issued, login>>
  BY DEF B!ServeRefresh
<1>3. CASE answer(0) /\ UNCHANGED <<issued, login>> /\ live' \subseteq live
           /\ burned' \in BOOLEAN /\ (burned' => burned \/ lost)
  <2> DEFINE y == [op |-> "answered", pair |-> 0]
  <2>1. y \in B!Refresh /\ y.op = "answered" /\ y.pair = 0 /\ y # B!Idle
    <3>1. 0 \in 0 .. MaxPairs
      BY BrowserAssumption
    <3>2. QED
      BY <3>1, RefreshFacts
  <2>2. refresh' = [refresh EXCEPT ![s] = y]
    BY <1>3
  <2> HIDE DEF y
  <2>3. /\ refresh' \in [Refreshes -> B!Refresh] /\ refresh'[s] = y
        /\ \A q \in Refreshes : q # s => refresh'[q] = refresh[q]
    BY <2>1, <2>2, Bounds
  <2>4. B!TypeOK'
    <3>1. shared # NoRefresh => refresh'[shared] # B!Idle
      BY <2>1, <2>3 DEF TabInv, B!TypeOK
    <3>2. live' \subseteq 1 .. issued'
      BY <1>3, Bounds
    <3>3. QED
      BY <1>1, <1>3, <2>3, <3>1, <3>2 DEF TabInv, B!TypeOK, B!Idle
  <2>5. ASSUME NEW g, Unspent(g) PROVE Unspent(g)'
    BY <1>3, <2>5, FewerLive
  <2>6. \A c \in Calls : (Plain(call[c]) /\ (Brought(call[c]) => BroughtOK(call[c])))'
    <3> TAKE c \in Calls
    <3>1. Plain(call[c]) /\ (Brought(call[c]) => BroughtOK(call[c]))
      BY DEF TabInv
    <3>2. QED
      BY <1>1, <1>3, <2>5, <3>1 DEF Plain, Brought, BroughtOK
  <2>7. \A q \in Refreshes : RefreshOK(refresh[q])'
    <3> TAKE q \in Refreshes
    <3>1. CASE q = s
      BY <2>1, <2>3, <3>1 DEF RefreshOK
    <3>2. CASE q # s
      <4>1. RefreshOK(refresh[q]) /\ refresh'[q] = refresh[q]
        BY <2>3, <3>2 DEF TabInv
      <4>2. QED
        BY <1>1, <1>3, <2>5, <4>1 DEF RefreshOK
    <3>3. QED
      BY <3>1, <3>2
  <2>8. Fresh'
    <3>1. ASSUME NEW c \in Calls, NEW q \in Refreshes, Brought(call[c])
          PROVE  Unused(call[c], refresh'[q])
      <4>1. call[c].token # 0 /\ Unused(call[c], refresh[q])
        BY <3>1 DEF TabInv, BroughtOK, Fresh
      <4>2. QED
        BY <2>1, <2>3, <4>1 DEF Unused
    <3>2. QED
      BY <1>1, <3>1 DEF TabInv, Fresh, Brought, Unused
  <2>9. (~lost => \A q \in Refreshes : refresh[q] # B!Idle => q = shared)'
    BY <1>1, <2>3 DEF TabInv, B!Idle
  <2>10. (~lost /\ shared = NoRefresh /\ csrf # 0 => Unspent(csrf))'
    <3>1. ASSUME ~lost, shared = NoRefresh, csrf # 0 PROVE Unspent(csrf)'
      BY <1>1, <1>3, <3>1, FewerLive DEF TabInv
    <3>2. QED
      BY <1>1, <3>1
  <2>11. B!ReuseNeedsLoss' /\ (\A g \in 1 .. issued : login[g] \in 1 .. issued)' /\ (csrf <= issued)'
    BY <1>1, <1>3, Bounds DEF TabInv, B!ReuseNeedsLoss
  <2>12. QED
    BY <2>4, <2>6, <2>7, <2>8, <2>9, <2>10, <2>11 DEF TabInv
<1>4. CASE /\ k = h /\ k \in live /\ B!IssuePair(login[k])
           /\ live' = (live \ {k}) \cup {issued + 1}
           /\ answer(issued + 1)
           /\ UNCHANGED burned
  <2> DEFINE n == issued + 1
             y == [op |-> "answered", pair |-> n]
  <2>1. login[k] \in 1 .. issued /\ login[k] \in 0 .. issued
    BY <1>4, Bounds DEF TabInv
  <2>2. /\ issued' = n /\ n \in B!Pairs /\ issued' \in 0 .. MaxPairs /\ n \in 0 .. MaxPairs
        /\ login' \in [B!Pairs -> 0 .. MaxPairs]
        /\ (\A g \in 1 .. issued : login[g] \in 1 .. issued)'
    BY <1>4, <2>1, PairIssued, Bounds
  <2>3. n \notin 1 .. issued /\ n # 0 /\ 1 .. issued \subseteq 1 .. n /\ n \in 1 .. n
    BY Bounds
  <2>4. y \in B!Refresh /\ y.op = "answered" /\ y.pair = n /\ y # B!Idle
    BY <2>2, RefreshFacts
  <2>5. refresh' = [refresh EXCEPT ![s] = y]
    BY <1>4
  <2>6. ASSUME NEW g \in 1 .. issued, g # h, Unspent(g) PROVE Unspent(g)'
    BY <1>4, <2>6, Rotation
  <2>7. ASSUME ~lost, NEW g, g = n PROVE Unspent(g)'
    BY <1>1, <1>4, <2>7, Rotation
  <2> HIDE DEF y, n
  <2>8. /\ refresh' \in [Refreshes -> B!Refresh] /\ refresh'[s] = y
        /\ \A q \in Refreshes : q # s => refresh'[q] = refresh[q]
    BY <2>4, <2>5, Bounds
  <2>9. B!TypeOK'
    <3>1. shared # NoRefresh => refresh'[shared] # B!Idle
      BY <2>4, <2>8 DEF TabInv, B!TypeOK
    <3>2. live' \subseteq 1 .. issued' /\ expired' \subseteq 1 .. issued'
      BY <1>1, <1>4, <2>2, <2>3 DEF TabInv, B!TypeOK, n
    <3>3. QED
      BY <1>1, <1>4, <2>2, <2>8, <3>1, <3>2 DEF TabInv, B!TypeOK, B!Idle
  <2>10. \A c \in Calls : (Plain(call[c]) /\ (Brought(call[c]) => BroughtOK(call[c])))'
    <3> TAKE c \in Calls
    <3>1. Plain(call[c]) /\ (Brought(call[c]) => BroughtOK(call[c]))
      BY DEF TabInv
    <3>2. Brought(call[c]) => call[c].token # h
      BY <1>1 DEF TabInv, Fresh, Unused
    <3>3. Plain(call[c])'
      BY <1>1, <3>1 DEF Plain
    <3>4. Brought(call[c])' => BroughtOK(call[c])'
      BY <1>1, <2>2, <2>3, <2>6, <3>1, <3>2 DEF Brought, BroughtOK
    <3>5. QED
      BY <3>3, <3>4
  <2>11. ~lost => s = shared /\ \A q \in Refreshes : q # s => refresh[q] = B!Idle
    BY <1>1 DEF TabInv
  <2>12. \A q \in Refreshes : RefreshOK(refresh[q])'
    <3> TAKE q \in Refreshes
    <3>1. CASE q = s
      BY <1>1, <2>2, <2>3, <2>4, <2>7, <2>8, <3>1 DEF RefreshOK
    <3>2. CASE q # s
      <4>1. RefreshOK(refresh[q]) /\ refresh'[q] = refresh[q]
        BY <2>8, <3>2 DEF TabInv
      <4>2. ~lost => refresh[q].op = "idle"
        BY <2>11, <3>2, RefreshFacts
      <4>3. QED
        BY <1>1, <2>2, <2>3, <4>1, <4>2 DEF RefreshOK
    <3>3. QED
      BY <3>1, <3>2
  <2>13. Fresh'
    <3>1. ASSUME NEW c \in Calls, NEW q \in Refreshes, Brought(call[c])
          PROVE  Unused(call[c], refresh'[q])
      <4>1. call[c].token # n /\ Unused(call[c], refresh[q])
        BY <2>3, <3>1 DEF TabInv, BroughtOK, Fresh
      <4>2. QED
        BY <2>4, <2>8, <4>1 DEF Unused
    <3>2. QED
      BY <1>1, <3>1 DEF TabInv, Fresh, Brought, Unused
  <2>14. (~lost => \A q \in Refreshes : refresh[q] # B!Idle => q = shared)'
    BY <1>1, <2>8, <2>11 DEF B!Idle
  <2>15. (~lost /\ shared = NoRefresh /\ csrf # 0 => Unspent(csrf))'
    BY <1>1, <2>11, BrowserAssumption
  <2>16. B!ReuseNeedsLoss' /\ (csrf <= issued)'
    BY <1>1, <1>4, <2>2, Bounds DEF TabInv, B!ReuseNeedsLoss, n
  <2>17. QED
    BY <2>2, <2>9, <2>10, <2>12, <2>13, <2>14, <2>15, <2>16 DEF TabInv
<1>5. CASE /\ k = h /\ k \notin live
           /\ live' = live \ B!FamilyOf(k)
           /\ burned' = (burned \/ live \cap B!FamilyOf(k) # {})
           /\ answer(0)
           /\ UNCHANGED <<issued, login>>
  <2>1. ~lost => live \cap B!FamilyOf(k) = {}
    BY <1>1, <1>5 DEF Unspent
  <2>2. burned' \in BOOLEAN /\ (burned' => burned \/ lost)
    BY <1>5, <2>1, Bounds
  <2>3. QED
    BY <1>3, <1>5, <2>2
<1>6. QED
  BY <1>2, <1>3, <1>4, <1>5, Bounds

LEMMA TabInvStep == TabInv /\ [B!Next]_tabVars => TabInv'
<1> SUFFICES ASSUME TabInv, [B!Next]_tabVars PROVE TabInv'
  OBVIOUS
<1>1. CASE UNCHANGED tabVars
  <2>1. UNCHANGED <<issued, login, live, expired, jar, access, csrf, status, shared>>
        /\ UNCHANGED <<refresh, call, refused, lost, burned>>
    BY <1>1 DEF tabVars
  <2>2. B!TypeOK'
    BY <2>1 DEF TabInv, B!TypeOK, B!Idle
  <2>3. QED
    BY <2>1, <2>2, CallsChange
<1>2. CASE B!ServerStep
  <2>1. CASE (\E g \in B!Pairs : B!Expire(g)) \/ B!EndSessions
    BY <2>1, TimeStep
  <2>2. CASE \E c \in Calls : B!ServeCall(c) \/ B!ServeLogin(c) \/ B!ServeLogout(c) \/ B!LoseCall(c)
    BY <2>2, ServeCallStep, ServeLoginStep, ServeLogoutStep, LoseCallStep
  <2>3. CASE \E s \in Refreshes : B!ServeRefresh(s) \/ B!LoseRefresh(s)
    BY <2>3, ServeRefreshStep, LoseRefreshStep
  <2>4. QED
    BY <1>2, <2>1, <2>2, <2>3 DEF B!ServerStep
<1>3. CASE B!TabStep
  <2>1. CASE \E c \in Calls, k \in B!Retried : B!Send(c, k)
    BY <2>1, SendStep
  <2>2. ASSUME NEW c \in Calls,
               \/ B!DataRefused(c) \/ B!DataDone(c) \/ B!DataLost(c) \/ B!CodeAnswered(c)
               \/ B!LoginSend(c) \/ B!LoginAnswered(c) \/ B!MeAnswered(c)
               \/ B!ConsentsAnswered(c) \/ B!LogoutSend(c) \/ B!LogoutAnswered(c)
        PROVE  TabInv'
    BY <2>2, DataRefusedStep, DoneStep, SendStep, LoginAnsweredStep, MeStep, LogoutStep
  <2>3. CASE \E s \in Refreshes : B!RefreshAnswered(s) \/ B!StrayAnswer(s)
    BY <2>3, RefreshAnsweredStep
  <2>4. CASE B!Reload
    BY <2>4, ReloadStep
  <2>5. QED
    BY <1>3, <2>1, <2>2, <2>3, <2>4 DEF B!TabStep
<1>4. QED
  BY <1>1, <1>2, <1>3 DEF B!Next

LEMMA TabInvHolds == TabSpec => []TabInv
<1>1. QED
  BY TabInvInit, TabInvStep, PTL DEF TabSpec

\* However 401 answers, logins, logouts and reloads overlap, the tab does not
\* end its own session unless the answer to a refresh was lost, and no call is
\* carried out twice (refreshSession, authorizedRequest, confirmedRequest).
THEOREM TabKeepsItsSession == TabSpec => []SessionIsSound
<1>1. ASSUME TabInv PROVE SessionIsSound
  <2>1. ASSUME NEW c \in Calls, "ran" \in DOMAIN call[c] PROVE call[c].ran <= 1
    <3>1. call[c] \in B!Call /\ Plain(call[c])
      BY <1>1, Bounds DEF TabInv
    <3>2. QED
      BY <2>1, <3>1, CallsThatRan DEF Plain
  <2>2. QED
    BY <1>1, <2>1 DEF TabInv, SessionIsSound, B!RanAtMostOnce
<1>2. QED
  BY <1>1, TabInvHolds, PTL

\* A refresh is sent only for an access token that the server has refused, or
\* by a tab that has none (authorizedRequest, restoreSession).
THEOREM RefreshesAreDue == TabSpec => RefreshIsDue
<1>1. ASSUME TabInv, [B!Next]_tabVars
      PROVE  [shared = NoRefresh /\ shared' # NoRefresh =>
                access \in refused \cup {0} \/ access' = 0]_tabVars
  <2> SUFFICES ASSUME B!Next, shared = NoRefresh, shared' # NoRefresh
               PROVE  access \in refused \cup {0} \/ access' = 0
    BY <1>1
  <2>1. CASE B!Reload
    BY <2>1 DEF B!Reload
  <2>2. ASSUME NEW c \in Calls, B!DataRefused(c)
        PROVE  access \in refused \cup {0} \/ access' = 0
    <3>1. call[c].op = "refused" /\ call[c].kind \in B!Retried
      BY <2>2 DEF B!DataRefused
    <3>2. call[c].token \in refused \cup {0}
      BY <1>1, <3>1 DEF TabInv, Plain
    <3>3. ~B!AlreadyRefreshed(call[c].token)
      BY <2>2 DEF B!DataRefused
    <3>4. QED
      BY <3>2, <3>3 DEF B!AlreadyRefreshed
  <2>3. ~B!ServerStep
    BY DEF B!ServerStep, B!Expire, B!EndSessions, B!ServeCall, B!ServeLogin, B!ServeLogout,
           B!LoseCall, B!ServeRefresh, B!LoseRefresh, B!tab
  <2>4. ASSUME NEW c \in Calls
        PROVE  /\ \A k \in B!Retried : ~B!Send(c, k)
               /\ ~(B!DataDone(c) \/ B!DataLost(c) \/ B!CodeAnswered(c) \/ B!LoginSend(c))
               /\ ~(B!LoginAnswered(c) \/ B!MeAnswered(c) \/ B!ConsentsAnswered(c))
               /\ ~(B!LogoutSend(c) \/ B!LogoutAnswered(c))
    BY DEF B!Send, B!DataDone, B!DataLost, B!CodeAnswered, B!LoginSend, B!LoginAnswered,
           B!MeAnswered, B!ConsentsAnswered, B!LogoutSend, B!LogoutAnswered, B!tab
  <2>5. \A s \in Refreshes : ~B!RefreshAnswered(s) /\ ~B!StrayAnswer(s)
    BY DEF B!RefreshAnswered, B!StrayAnswer
  <2>6. QED
    BY <2>1, <2>2, <2>3, <2>4, <2>5 DEF B!Next, B!TabStep
<1>2. QED
  BY <1>1, TabInvHolds, PTL DEF TabSpec, RefreshIsDue
=============================================================================
