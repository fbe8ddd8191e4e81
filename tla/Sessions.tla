------------------------------ MODULE Sessions ------------------------------
(***************************************************************************)
(* Refresh sessions (src/src/auth): login, rotation with reuse detection,  *)
(* logout, and the ends of all the sessions of an account by its disabling *)
(* or a change of its password (src/src/users).  The tokens that descend   *)
(* from one login are a family.  Every database call is a step of its own, *)
(* and a statement that revokes many tokens is two: at READ COMMITTED it   *)
(* finds the rows that exist when it starts, and by the time it comes to a *)
(* row others may have changed it or inserted new ones.                    *)
(***************************************************************************)
EXTENDS Naturals, FiniteSets

CONSTANTS
  Tokens,    \* ids of rows of RefreshToken, all unborn at first
  Families,  \* values of familyId
  Users,     \* accounts
  Requests,  \* slots of HTTP requests in flight
  None       \* no token, no family, no user

ASSUME SessionsAssumption ==
  None \notin Tokens /\ None \notin Families /\ None \notin Users

VARIABLES
  token,   \* table RefreshToken
  active,  \* table User: the accounts with status active
  req,     \* what each request in flight goes on to do
  held,    \* the tokens whose raw value has been sent to a client
  reused,  \* history: the tokens whose reuse has been dealt with
  closed   \* history: the accounts whose disabling has ended

vars == <<token, active, req, held, reused, closed>>

Unborn == [state |-> "unborn", family |-> None, user |-> None, late |-> FALSE,
           next |-> None]

\* next is replacedByTokenId: only a rotated token has one.
TokenRow ==
       {Unborn}
  \cup [state: {"live"}, family: Families, user: Users, late: BOOLEAN, next: {None}]
  \cup [state: {"revoked"}, family: Families, user: Users, late: BOOLEAN,
        next: Tokens \cup {None}]

Idle == [op |-> "idle"]

Request ==
       {Idle}
  \cup [op: {"login", "expel"}, user: Users]
  \cup [op: {"issue", "check", "respond"}, token: Tokens]
  \cup [op: {"claim"}, token: Tokens, next: Tokens]
  \cup [op: {"burn"}, family: Families, cause: Tokens \cup {None}]
  \cup [op: {"revoke"}, rows: SUBSET Tokens, cause: Tokens \cup {None},
        user: Users \cup {None}]

TypeOK ==
  /\ token \in [Tokens -> TokenRow]
  /\ active \subseteq Users
  /\ req \in [Requests -> Request]
  /\ held \subseteq Tokens
  /\ reused \subseteq Tokens
  /\ closed \subseteq Users

Init ==
  /\ token = [t \in Tokens |-> Unborn]
  /\ active = Users
  /\ req = [r \in Requests |-> Idle]
  /\ held = {}
  /\ reused = {}
  /\ closed = {}

Live(t) == token[t].state = "live"

Goto(r, request) == req' = [req EXCEPT ![r] = request]

-----------------------------------------------------------------------------
(***************************************************************************)
(* RefreshTokenService.issue                                               *)
(***************************************************************************)

Issue(t, f, u) ==
  /\ token[t] = Unborn
  /\ token' = [token EXCEPT ![t] =
       [state |-> "live", family |-> f, user |-> u, late |-> FALSE, next |-> None]]

\* REFRESH_TTL after it was issued the token has expired.
Expire(t) ==
  /\ Live(t) /\ ~token[t].late
  /\ token' = [token EXCEPT ![t].late = TRUE]
  /\ UNCHANGED <<active, req, held, reused, closed>>

-----------------------------------------------------------------------------
(***************************************************************************)
(* AuthService.verifyLoginCode: the code is EmailCodes' business.          *)
(***************************************************************************)

LoginRead(r, u) ==
  /\ req[r] = Idle
  /\ u \in active
  /\ Goto(r, [op |-> "login", user |-> u])
  /\ UNCHANGED <<token, active, held, reused, closed>>

LoginIssue(r, t, f) ==
  /\ req[r].op = "login"
  /\ \A s \in Tokens : token[s].family # f
  /\ Issue(t, f, req[r].user)
  /\ Goto(r, [op |-> "respond", token |-> t])
  /\ UNCHANGED <<active, held, reused, closed>>

Respond(r) ==
  /\ req[r].op = "respond"
  /\ held' = held \cup {req[r].token}
  /\ Goto(r, Idle)
  /\ UNCHANGED <<token, active, reused, closed>>

-----------------------------------------------------------------------------
(***************************************************************************)
(* AuthService.refresh                                                     *)
(***************************************************************************)

Burn(r, t) == Goto(r, [op |-> "burn", family |-> token[t].family, cause |-> t])

\* An expired token is refused and nothing changes.
RotateRead(r, t) ==
  /\ req[r] = Idle
  /\ t \in held
  /\ \/ /\ ~Live(t)
        /\ Burn(r, t)
     \/ /\ Live(t) /\ ~token[t].late
        /\ Goto(r, [op |-> "issue", token |-> t])
  /\ UNCHANGED <<token, active, held, reused, closed>>

RotateIssue(r, n) ==
  /\ req[r].op = "issue"
  /\ LET t == req[r].token IN
     /\ Issue(n, token[t].family, token[t].user)
     /\ Goto(r, [op |-> "claim", token |-> t, next |-> n])
  /\ UNCHANGED <<active, held, reused, closed>>

\* Mutant: the update asks for the id only.
RotateClaimBlindly(r) ==
  /\ req[r].op = "claim"
  /\ token' = [token EXCEPT ![req[r].token].state = "revoked",
                            ![req[r].token].next = req[r].next]
  /\ Goto(r, [op |-> "check", token |-> req[r].next])
  /\ UNCHANGED <<active, held, reused, closed>>

\* The conditional update: a request that finds the token revoked lost the
\* race, and its own next token stays behind until the family is revoked.
RotateClaim(r) ==
  /\ req[r].op = "claim"
  /\ LET t == req[r].token IN
     \/ /\ Live(t)
        /\ token' = [token EXCEPT ![t].state = "revoked", ![t].next = req[r].next]
        /\ Goto(r, [op |-> "check", token |-> req[r].next])
     \/ /\ ~Live(t)
        /\ Burn(r, t)
        /\ UNCHANGED token
  /\ UNCHANGED <<active, held, reused, closed>>

\* Mutant: the old token is revoked before the next one exists.
RotateClaimsFirst(r) ==
  \/ /\ req[r].op = "issue"
     /\ LET t == req[r].token IN
        \/ /\ Live(t)
           /\ token' = [token EXCEPT ![t].state = "revoked"]
           /\ Goto(r, [op |-> "mint", token |-> t])
        \/ /\ ~Live(t)
           /\ Burn(r, t)
           /\ UNCHANGED token
     /\ UNCHANGED <<active, held, reused, closed>>
  \/ /\ req[r].op = "mint"
     /\ \E n \in Tokens :
          /\ token[n] = Unborn
          /\ LET t == req[r].token
                 row == [state |-> "live", family |-> token[t].family,
                         user |-> token[t].user, late |-> FALSE, next |-> None]
             IN  token' = [token EXCEPT ![n] = row, ![t].next = n]
          /\ Goto(r, [op |-> "check", token |-> n])
     /\ UNCHANGED <<active, held, reused, closed>>

Rotate(r) ==
  \/ \E n \in Tokens : RotateIssue(r, n)
  \/ RotateClaim(r)

\* Mutant: the account is not looked at.
RefreshBlindly(r) ==
  /\ req[r].op = "check"
  /\ Goto(r, [op |-> "respond", token |-> req[r].token])
  /\ UNCHANGED <<token, active, held, reused, closed>>

RefreshRead(r) ==
  /\ req[r].op = "check"
  /\ LET n == req[r].token IN
     \/ /\ token[n].user \in active
        /\ Goto(r, [op |-> "respond", token |-> n])
     \/ /\ token[n].user \notin active
        /\ Goto(r, [op |-> "burn", family |-> token[n].family, cause |-> None])
  /\ UNCHANGED <<token, active, held, reused, closed>>

-----------------------------------------------------------------------------
(***************************************************************************)
(* The statements that revoke many tokens                                  *)
(***************************************************************************)

\* revokeFamily: of handleReuse, of a refresh by a disabled account, of logout.
BurnStart(r) ==
  /\ req[r].op = "burn"
  /\ Goto(r, [op |-> "revoke", cause |-> req[r].cause, user |-> None,
              rows |-> {t \in Tokens : Live(t) /\ token[t].family = req[r].family}])
  /\ UNCHANGED <<token, active, held, reused, closed>>

LiveOf(u) == {t \in Tokens : Live(t) /\ token[t].user = u}

ExpelStart(r) ==
  /\ req[r].op = "expel"
  /\ Goto(r, [op |-> "revoke", cause |-> None, user |-> req[r].user,
              rows |-> LiveOf(req[r].user)])
  /\ UNCHANGED <<token, active, held, reused, closed>>

\* The rows that were found and are still not revoked; then the handler ends.
Revoke(r) ==
  /\ req[r].op = "revoke"
  /\ token' = [t \in Tokens |->
       IF t \in req[r].rows /\ Live(t)
         THEN [token[t] EXCEPT !.state = "revoked"] ELSE token[t]]
  /\ reused' = reused \cup ({req[r].cause} \ {None})
  /\ closed' = closed \cup ({req[r].user} \ {None})
  /\ Goto(r, Idle)
  /\ UNCHANGED <<active, held>>

-----------------------------------------------------------------------------
(***************************************************************************)
(* The handlers that end sessions                                          *)
(***************************************************************************)

\* AuthService.logout: the family is that of the token brought, dead or alive.
LogoutRead(r, t) ==
  /\ req[r] = Idle
  /\ t \in held
  /\ Goto(r, [op |-> "burn", family |-> token[t].family, cause |-> None])
  /\ UNCHANGED <<token, active, held, reused, closed>>

\* UsersService.executeDisableUser: the status, then the sessions.
Disable(r, u) ==
  /\ req[r] = Idle
  /\ active' = active \ {u}
  /\ Goto(r, [op |-> "expel", user |-> u])
  /\ UNCHANGED <<token, held, reused, closed>>

\* UsersService.changePassword: password and sessions in one transaction.
ChangePassword(r, u) ==
  /\ req[r] = Idle
  /\ Goto(r, [op |-> "revoke", cause |-> None, user |-> None, rows |-> LiveOf(u)])
  /\ UNCHANGED <<token, active, held, reused, closed>>

\* The process dies, or the response is lost.
Crash(r) ==
  /\ req[r] # Idle
  /\ Goto(r, Idle)
  /\ UNCHANGED <<token, active, held, reused, closed>>

Next ==
  \/ \E t \in Tokens : Expire(t)
  \/ \E r \in Requests :
       \/ \E u \in Users : LoginRead(r, u)
       \/ \E t \in Tokens, f \in Families : LoginIssue(r, t, f)
       \/ Respond(r)
       \/ \E t \in Tokens : RotateRead(r, t)
       \/ Rotate(r)
       \/ RefreshRead(r)
       \/ BurnStart(r)
       \/ ExpelStart(r)
       \/ Revoke(r)
       \/ \E t \in Tokens : LogoutRead(r, t)
       \/ \E u \in Users : Disable(r, u)
       \/ \E u \in Users : ChangePassword(r, u)
       \/ Crash(r)

Spec == Init /\ [][Next]_vars

-----------------------------------------------------------------------------
(***************************************************************************)
(* Properties                                                              *)
(***************************************************************************)

\* However refreshes of the same and of different tokens overlap, a login has
\* at most one token that a client holds and can still refresh with.
OneSessionPerFamily ==
  \A s, t \in held :
    Live(s) /\ Live(t) /\ token[s].family = token[t].family => s = t

\* "next is created BEFORE this claim so a losing request's family revocation
\* always covers the winner's freshly issued token as well": once the reuse of
\* a token has been dealt with, the token that replaced it is dead.
WinnerDiesWithLoser ==
  \A t \in reused :
    /\ ~Live(t)
    /\ token[t].next # None => ~Live(token[t].next)

\* The token that a refresh has issued, not a login.
Refreshed(n) == \E t \in Tokens : token[t].next = n

\* Once an account has been disabled, no refresh that overlapped it has left
\* a client with a token it can refresh with.
DisabledIsNotRefreshed ==
  \A n \in held : token[n].user \in closed /\ Live(n) => ~Refreshed(n)

\* Whatever overlaps it, a rotation is the one-shot binding of a token to the one
\* that replaces it: replacedByTokenId is set once, is never another token's as
\* well, and no revocation ever changes it, so the tokens that replaced one another
\* form a chain (RefreshTokenService.rotate).
Replacement == INSTANCE OneShot WITH
  Sources <- Tokens, Targets <- Tokens, Unbound <- None,
  bound <- [t \in Tokens |-> token[t].next]
RotationIsOneShot == Replacement!Spec
=============================================================================
