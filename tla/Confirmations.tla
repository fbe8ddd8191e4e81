--------------------------- MODULE Confirmations ---------------------------
(***************************************************************************)
(* Maker-checker confirmations (src/src/confirmations).  An action is      *)
(* prepared as a PendingAction; a Director who brings the right code       *)
(* claims it with a conditional update and only then executes it.  Wrong   *)
(* codes are counted with a compare-and-swap loop, while a rejection and   *)
(* the expiry write by id, whatever has happened since they read the row.  *)
(***************************************************************************)
EXTENDS Naturals

CONSTANTS
  Actions,      \* ids of rows of PendingAction, all unborn at first
  Directors,
  Requests,     \* slots of HTTP requests in flight
  MaxAttempts,  \* CONFIRMATION_CODE_MAX_ATTEMPTS
  Retries,      \* rounds of the loop that counts a wrong code
  None

ASSUME ConfirmationsAssumption ==
  /\ MaxAttempts \in Nat \ {0}
  /\ Retries \in Nat \ {0}
  /\ None \notin Directors

VARIABLES
  action,      \* table PendingAction
  effect,      \* what the execution of an action has done to the users
  req,         \* what each request in flight goes on to do
  wrong,       \* history: the wrong codes that were answered as invalid
  executions,  \* history: how often an action was executed
  lost         \* history: a request that had claimed the action died

vars == <<action, effect, req, wrong, executions, lost>>

Status == {"pending", "confirmed", "rejected", "failed", "expired"}

ActionRow == [status: Status \cup {"unborn"},
              type: {"create_user", "disable_user"},
              by: Directors \cup {None},
              late: BOOLEAN,
              attempts: 0 .. MaxAttempts]

Idle == [op |-> "idle"]

Request ==
       {Idle}
  \cup [op: {"claim", "execute", "revoke", "downgrade"},
        action: Actions, director: Directors]
  \cup [op: {"reject", "expire"}, action: Actions]
  \cup [op: {"countRead"}, action: Actions, retry: 0 .. Retries - 1]
  \cup [op: {"countWrite"}, action: Actions, retry: 0 .. Retries - 1,
        seen: 0 .. MaxAttempts]

TypeOK ==
  /\ action \in [Actions -> ActionRow]
  /\ effect \in [Actions -> {"none", "half", "done"}]
  /\ req \in [Requests -> Request]
  /\ wrong \in [Actions -> Nat]
  /\ executions \in [Actions -> Nat]
  /\ lost \in [Actions -> BOOLEAN]

Init ==
  /\ action \in [Actions -> [status: {"unborn"}, by: {None}, late: {FALSE},
                             type: {"create_user", "disable_user"}, attempts: {0}]]
  /\ effect = [p \in Actions |-> "none"]
  /\ req = [r \in Requests |-> Idle]
  /\ wrong = [p \in Actions |-> 0]
  /\ executions = [p \in Actions |-> 0]
  /\ lost = [p \in Actions |-> FALSE]

Pending(p) == action[p].status = "pending"

Goto(r, request) == req' = [req EXCEPT ![r] = request]

\* A request that only remembers what it has read.
Remember(r, request) ==
  /\ Goto(r, request)
  /\ UNCHANGED <<action, effect, wrong, executions, lost>>

-----------------------------------------------------------------------------
\* initiateCreateUser and initiateDisableUser: the row is created whether or
\* not its code can be e-mailed.
Initiate(p) ==
  /\ action[p].status = "unborn"
  /\ action' = [action EXCEPT ![p].status = "pending"]
  /\ UNCHANGED <<effect, req, wrong, executions, lost>>

\* CONFIRMATION_CODE_TTL_SECONDS have passed.
GrowLate(p) ==
  /\ action[p].status # "unborn" /\ ~action[p].late
  /\ action' = [action EXCEPT ![p].late = TRUE]
  /\ UNCHANGED <<effect, req, wrong, executions, lost>>

-----------------------------------------------------------------------------
(***************************************************************************)
(* loadAndExpireIfNeeded, used by confirm and reject, and the same loop in *)
(* listPending: the update that expires the row is by id.                  *)
(***************************************************************************)
ExpireRead(r, p) ==
  /\ req[r] = Idle
  /\ Pending(p) /\ action[p].late
  /\ Remember(r, [op |-> "expire", action |-> p])

ExpireWrite(r) ==
  /\ req[r].op = "expire"
  /\ action' = [action EXCEPT ![req[r].action].status = "expired"]
  /\ Goto(r, Idle)
  /\ UNCHANGED <<effect, wrong, executions, lost>>

-----------------------------------------------------------------------------
(***************************************************************************)
(* reject                                                                  *)
(***************************************************************************)
RejectRead(r, p) ==
  /\ req[r] = Idle
  /\ Pending(p) /\ ~action[p].late
  /\ Remember(r, [op |-> "reject", action |-> p])

RejectWrite(r) ==
  /\ req[r].op = "reject"
  /\ action' = [action EXCEPT ![req[r].action].status = "rejected"]
  /\ Goto(r, Idle)
  /\ UNCHANGED <<effect, wrong, executions, lost>>

-----------------------------------------------------------------------------
(***************************************************************************)
(* confirm                                                                 *)
(***************************************************************************)
ConfirmRead(r, p, d, right) ==
  /\ req[r] = Idle
  /\ Pending(p) /\ ~action[p].late
  /\ Remember(r, IF right THEN [op |-> "claim", action |-> p, director |-> d]
                 ELSE [op |-> "countRead", action |-> p, retry |-> 0])

\* Mutant: the claim does not ask that the action still be pending.
ClaimBlindly(r) ==
  /\ req[r].op = "claim"
  /\ action' = [action EXCEPT ![req[r].action].status = "confirmed",
                              ![req[r].action].by = req[r].director]
  /\ Goto(r, [req[r] EXCEPT !.op = "execute"])
  /\ UNCHANGED <<effect, wrong, executions, lost>>

(***************************************************************************)
(* The conditional update.  Its expiry is compared with the time at which  *)
(* the row was read and found in time, so it refuses nothing more.         *)
(***************************************************************************)
Claim(r) ==
  /\ req[r].op = "claim"
  /\ LET p == req[r].action IN
     \/ /\ Pending(p)
        /\ action' = [action EXCEPT ![p].status = "confirmed",
                                    ![p].by = req[r].director]
        /\ Goto(r, [req[r] EXCEPT !.op = "execute"])
     \/ /\ ~Pending(p)
        /\ Goto(r, Idle)
        /\ UNCHANGED action
  /\ UNCHANGED <<effect, wrong, executions, lost>>

\* executeCreateUser: one transaction.
ExecuteCreate(r) ==
  /\ req[r].op = "execute"
  /\ LET p == req[r].action IN
     /\ action[p].type = "create_user"
     /\ effect' = [effect EXCEPT ![p] = "done"]
     /\ executions' = [executions EXCEPT ![p] = @ + 1]
  /\ Goto(r, Idle)
  /\ UNCHANGED <<action, wrong, lost>>

\* executeDisableUser: the account is disabled ...
ExecuteDisable(r) ==
  /\ req[r].op = "execute"
  /\ LET p == req[r].action IN
     /\ action[p].type = "disable_user"
     /\ effect' = [effect EXCEPT ![p] = "half"]
     /\ executions' = [executions EXCEPT ![p] = @ + 1]
  /\ Goto(r, [req[r] EXCEPT !.op = "revoke"])
  /\ UNCHANGED <<action, wrong, lost>>

\* ... and then, in a second statement, its sessions are revoked.
ExecuteRevoke(r) ==
  /\ req[r].op = "revoke"
  /\ effect' = [effect EXCEPT ![req[r].action] = "done"]
  /\ Goto(r, Idle)
  /\ UNCHANGED <<action, wrong, executions, lost>>

\* A user name that is taken by now, a role that has changed, or an error of
\* the database in either statement.
ExecuteFails(r) ==
  /\ req[r].op \in {"execute", "revoke"}
  /\ Remember(r, [req[r] EXCEPT !.op = "downgrade"])

\* Mutant: a failed execution leaves the action confirmed.
NoDowngrade(r) ==
  /\ req[r].op = "downgrade"
  /\ Remember(r, Idle)

Downgrade(r) ==
  /\ req[r].op = "downgrade"
  /\ LET p == req[r].action
         held == action[p].status = "confirmed" /\ action[p].by = req[r].director
     IN action' = [action EXCEPT ![p] =
          IF held THEN [@ EXCEPT !.status = "failed", !.by = None] ELSE @]
  /\ Goto(r, Idle)
  /\ UNCHANGED <<effect, wrong, executions, lost>>

-----------------------------------------------------------------------------
(***************************************************************************)
(* recordFailedAttempt                                                     *)
(***************************************************************************)
CountRead(r) ==
  /\ req[r].op = "countRead"
  /\ LET p == req[r].action IN
     \/ /\ Pending(p)
        /\ Remember(r, [op |-> "countWrite", action |-> p,
                        retry |-> req[r].retry, seen |-> action[p].attempts])
     \/ /\ ~Pending(p)
        /\ Remember(r, Idle)

AttemptRow(row) ==
  [row EXCEPT !.attempts = @ + 1,
              !.status = IF row.attempts + 1 >= MaxAttempts THEN "failed" ELSE @]

\* Mutant: the update is not conditional on the attempts that were read.
CountWriteBlind(r) ==
  /\ req[r].op = "countWrite"
  /\ LET p == req[r].action IN
     /\ action' = [action EXCEPT ![p] =
          IF Pending(p) THEN AttemptRow([@ EXCEPT !.attempts = req[r].seen]) ELSE @]
     /\ wrong' = [wrong EXCEPT ![p] = @ + 1]
  /\ Goto(r, Idle)
  /\ UNCHANGED <<effect, executions, lost>>

CountWrite(r) ==
  /\ req[r].op = "countWrite"
  /\ LET p == req[r].action
         swapped == Pending(p) /\ action[p].attempts = req[r].seen
     IN
     \/ /\ swapped
        /\ action' = [action EXCEPT ![p] = AttemptRow(@)]
        /\ wrong' = [wrong EXCEPT ![p] = @ + 1]
        /\ Goto(r, Idle)
     \/ /\ ~swapped
        /\ req[r].retry + 1 < Retries
        /\ Goto(r, [op |-> "countRead", action |-> p, retry |-> req[r].retry + 1])
        /\ UNCHANGED <<action, wrong>>
     \/ /\ ~swapped
        /\ req[r].retry + 1 = Retries
        /\ Goto(r, Idle)
        /\ UNCHANGED <<action, wrong>>
  /\ UNCHANGED <<effect, executions, lost>>

-----------------------------------------------------------------------------
\* The process dies: nobody takes over what the request had begun.
Crash(r) ==
  /\ req[r] # Idle
  /\ lost' = IF req[r].op \in {"execute", "revoke", "downgrade"}
             THEN [lost EXCEPT ![req[r].action] = TRUE] ELSE lost
  /\ Goto(r, Idle)
  /\ UNCHANGED <<action, effect, wrong, executions>>

Next ==
  \/ \E p \in Actions : Initiate(p) \/ GrowLate(p)
  \/ \E r \in Requests :
       \/ \E p \in Actions : ExpireRead(r, p) \/ RejectRead(r, p)
       \/ \E p \in Actions, d \in Directors, right \in BOOLEAN :
            ConfirmRead(r, p, d, right)
       \/ ExpireWrite(r) \/ RejectWrite(r) \/ Claim(r)
       \/ ExecuteCreate(r) \/ ExecuteDisable(r) \/ ExecuteRevoke(r)
       \/ ExecuteFails(r) \/ Downgrade(r)
       \/ CountRead(r) \/ CountWrite(r)
       \/ Crash(r)

Spec == Init /\ [][Next]_vars

-----------------------------------------------------------------------------
(***************************************************************************)
(* Properties                                                              *)
(***************************************************************************)

\* Request r has claimed action p and has not answered yet.
Holds(r, p) ==
  req[r].op \in {"execute", "revoke", "downgrade"} /\ req[r].action = p

\* However many Directors confirm an action at once, and whoever rejects it
\* or lets it expire meanwhile, it is executed at most once ("exactly one
\* caller wins and runs the underlying action").
ExecutedAtMostOnce ==
  /\ \A p \in Actions : executions[p] <= 1
  /\ \A r1, r2 \in Requests, p \in Actions : Holds(r1, p) /\ Holds(r2, p) => r1 = r2

\* What the row says of the execution is true, unless the process died in it:
\* a confirmed action that nobody is working on has been executed completely,
\* and a failed one has not.
ResolutionIsTruthful ==
  \A p \in Actions :
    /\ action[p].status = "confirmed" /\ ~lost[p] /\ (\A r \in Requests : ~Holds(r, p))
         => effect[p] = "done"
    /\ action[p].status = "failed" => effect[p] # "done"

\* Every wrong code that was answered is counted, exactly once, and an action
\* with MaxAttempts of them is no longer pending ("parallel guesses cannot
\* undercount maxAttempts").
GuessesAreCounted ==
  \A p \in Actions :
    /\ wrong[p] = action[p].attempts
    /\ action[p].status = "pending" => wrong[p] < MaxAttempts

-----------------------------------------------------------------------------
(***************************************************************************)
(* What a test of the repository says and the code does not keep.          *)
(***************************************************************************)

\* "a Director can reject a pending action, which can then no longer be
\* confirmed": a rejected action has no effect.
RejectedIsNotExecuted ==
  \A p \in Actions : action[p].status = "rejected" => effect[p] = "none"
=============================================================================
