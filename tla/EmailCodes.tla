----------------------------- MODULE EmailCodes -----------------------------
(***************************************************************************)
(* One-time e-mail codes (src/src/email-codes).  A request issues a code,  *)
(* or brings one: the code is checked, claimed with a conditional update,  *)
(* and the protected action runs; a code whose action is rejected with a   *)
(* 4xx is given back, and a wrong guess is counted with a compare-and-swap *)
(* loop.  Every database call is a step of its own.  The codes are those   *)
(* of one user and one purpose, which the rate limit is about; their kind  *)
(* is the action they confirm.                                             *)
(***************************************************************************)
EXTENDS Naturals, FiniteSets

CONSTANTS
  Codes,        \* ids of rows of EmailCode, all unborn at first
  Kinds,        \* actions a code may confirm
  Requests,     \* slots of HTTP requests in flight
  MaxAttempts,  \* EMAIL_CODE_MAX_ATTEMPTS
  MaxPerWindow, \* EMAIL_CODE_MAX_PER_15_MIN
  Retries,      \* rounds of the loop that counts a wrong guess
  None,         \* consumedAt is null
  Used          \* consumed for good: nobody is left to give the code back

ASSUME CodesAssumption ==
  /\ MaxAttempts \in Nat \ {0}
  /\ MaxPerWindow \in Nat
  /\ Retries \in Nat
  /\ MaxAttempts <= Retries
  /\ None \notin Requests
  /\ Used \notin Requests
  /\ None # Used

VARIABLES
  code,      \* table EmailCode
  req,       \* what each request in flight goes on to do
  wrong,     \* history: the wrong guesses of a code that were answered
  happened   \* history: the requests a code has let through for good

vars == <<code, req, wrong, happened>>

CodeRow == [state: {"unborn", "present", "deleted"},
            kind: Kinds \cup {None},
            by: Requests \cup {None, Used},
            superseded: BOOLEAN,
            late: BOOLEAN,
            recent: BOOLEAN,
            attempts: Nat]

Idle == [op |-> "idle"]

Request ==
       {Idle}
  \cup [op: {"invalidate", "create"}, kind: Kinds]
  \cup [op: {"send", "claim", "act", "release"}, code: Codes]
  \cup [op: {"fail"}, code: Codes, retry: 0 .. Retries - 1, seen: Nat]
  \cup [op: {"reread"}, code: Codes, retry: 0 .. Retries - 1]

TypeOK ==
  /\ code \in [Codes -> CodeRow]
  /\ req \in [Requests -> Request]
  /\ wrong \in [Codes -> Nat]
  /\ happened \in [Codes -> Nat]

Unborn == [state |-> "unborn", kind |-> None, by |-> None, superseded |-> FALSE,
           late |-> FALSE, recent |-> TRUE, attempts |-> 0]

Init ==
  /\ code = [c \in Codes |-> Unborn]
  /\ req = [r \in Requests |-> Idle]
  /\ wrong = [c \in Codes |-> 0]
  /\ happened = [c \in Codes |-> 0]

Present(c) == code[c].state = "present"

Goto(r, request) == req' = [req EXCEPT ![r] = request]

-----------------------------------------------------------------------------
(***************************************************************************)
(* EmailCodesService.issue                                                 *)
(***************************************************************************)

InWindow == {c \in Codes : Present(c) /\ code[c].recent}

\* The codes of every kind count.
IssueRead(r, k) ==
  /\ req[r] = Idle
  /\ Cardinality(InWindow) < MaxPerWindow
  /\ Goto(r, [op |-> "invalidate", kind |-> k])
  /\ UNCHANGED <<code, wrong, happened>>

\* A consumed code is left alone, even if its request may still give it back.
Invalidate(r) ==
  /\ req[r].op = "invalidate"
  /\ code' = [c \in Codes |->
       [code[c] EXCEPT !.superseded =
          @ \/ (Present(c) /\ code[c].kind = req[r].kind /\ code[c].by = None)]]
  /\ Goto(r, [op |-> "create", kind |-> req[r].kind])
  /\ UNCHANGED <<wrong, happened>>

Create(r, c) ==
  /\ req[r].op = "create"
  /\ code[c].state = "unborn"
  /\ code' = [code EXCEPT ![c].state = "present", ![c].kind = req[r].kind]
  /\ Goto(r, [op |-> "send", code |-> c])
  /\ UNCHANGED <<wrong, happened>>

\* The message names the code by its id, so the code can be brought from here
\* on, and also when the mail server accepted it and then reported an error.
SendSucceeds(r) ==
  /\ req[r].op = "send"
  /\ Goto(r, Idle)
  /\ UNCHANGED <<code, wrong, happened>>

SendFails(r) ==
  /\ req[r].op = "send"
  /\ code' = [code EXCEPT ![req[r].code].state = "deleted"]
  /\ Goto(r, Idle)
  /\ UNCHANGED <<wrong, happened>>

-----------------------------------------------------------------------------
(***************************************************************************)
(* EmailCodesService.consume                                               *)
(***************************************************************************)

Acceptable(c) ==
  /\ Present(c)
  /\ code[c].by = None
  /\ ~code[c].superseded
  /\ ~code[c].late
  /\ code[c].attempts < MaxAttempts

\* The row is read, checked, and the code of the request compared with it.
ConsumeRead(r, c, right) ==
  /\ req[r] = Idle
  /\ Acceptable(c)
  /\ Goto(r, IF right THEN [op |-> "claim", code |-> c]
             ELSE [op |-> "fail", code |-> c, retry |-> 0,
                   seen |-> code[c].attempts])
  /\ UNCHANGED <<code, wrong, happened>>

\* Mutant: the conditional update does not ask that consumedAt be null.
ClaimableTwice(c) ==
  /\ Present(c)
  /\ ~code[c].superseded
  /\ ~code[c].late
  /\ code[c].attempts < MaxAttempts

\* The WHERE of the conditional update.
Claimable(c) ==
  /\ Present(c)
  /\ code[c].by = None
  /\ ~code[c].superseded
  /\ ~code[c].late
  /\ code[c].attempts < MaxAttempts

Claim(r) ==
  /\ req[r].op = "claim"
  /\ LET c == req[r].code IN
     \/ /\ Claimable(c)
        /\ code' = [code EXCEPT ![c].by = r]
        /\ Goto(r, [op |-> "act", code |-> c])
     \/ /\ ~Claimable(c)
        /\ Goto(r, Idle)
        /\ UNCHANGED code
  /\ UNCHANGED <<wrong, happened>>

-----------------------------------------------------------------------------
(***************************************************************************)
(* EmailCodeInterceptor: the protected action                              *)
(***************************************************************************)

\* It succeeds, fails with a 5xx, or the process dies in it: it may have
\* happened, and the code stays consumed.
ActHappens(r) ==
  /\ req[r].op = "act"
  /\ happened' = [happened EXCEPT ![req[r].code] = @ + 1]
  /\ code' = [code EXCEPT ![req[r].code].by = Used]
  /\ Goto(r, Idle)
  /\ UNCHANGED wrong

ActRejected(r) ==
  /\ req[r].op = "act"
  /\ Goto(r, [op |-> "release", code |-> req[r].code])
  /\ UNCHANGED <<code, wrong, happened>>

\* Only this very claim is undone; an error of the database is ignored.
Release(r) ==
  /\ req[r].op = "release"
  /\ LET c == req[r].code IN
     \E holder \in {None, Used} :
       code' = [code EXCEPT ![c].by = IF @ = r THEN holder ELSE @]
  /\ Goto(r, Idle)
  /\ UNCHANGED <<wrong, happened>>

-----------------------------------------------------------------------------
(***************************************************************************)
(* EmailCodesService.recordFailedAttempt                                   *)
(***************************************************************************)

Answered(c) == wrong' = [wrong EXCEPT ![c] = @ + 1]

\* Mutant: the update is not conditional on the attempts that were read.
FailWriteBlind(r) ==
  /\ req[r].op = "fail"
  /\ code' = [code EXCEPT ![req[r].code].attempts = req[r].seen + 1]
  /\ Answered(req[r].code)
  /\ Goto(r, Idle)
  /\ UNCHANGED happened

FailWrite(r) ==
  /\ req[r].op = "fail"
  /\ LET c == req[r].code
         swapped == Present(c) /\ code[c].attempts = req[r].seen
     IN
     \/ /\ swapped
        /\ code' = [code EXCEPT ![c].attempts = @ + 1]
        /\ Answered(c)
        /\ Goto(r, Idle)
     \/ /\ ~swapped
        /\ req[r].retry + 1 < Retries
        /\ Goto(r, [op |-> "reread", code |-> c, retry |-> req[r].retry + 1])
        /\ UNCHANGED <<code, wrong>>
     \/ /\ ~swapped
        /\ req[r].retry + 1 = Retries
        /\ Answered(c)
        /\ Goto(r, Idle)
        /\ UNCHANGED code
  /\ UNCHANGED happened

FailReread(r) ==
  /\ req[r].op = "reread"
  /\ LET c == req[r].code IN
     \/ /\ Present(c)
        /\ Goto(r, [op |-> "fail", code |-> c, retry |-> req[r].retry,
                    seen |-> code[c].attempts])
        /\ UNCHANGED wrong
     \/ /\ ~Present(c)
        /\ Answered(c)
        /\ Goto(r, Idle)
  /\ UNCHANGED <<code, happened>>

-----------------------------------------------------------------------------
\* EMAIL_CODE_TTL_SECONDS after its creation the code has expired ...
Expire(c) ==
  /\ Present(c) /\ ~code[c].late
  /\ code' = [code EXCEPT ![c].late = TRUE]
  /\ UNCHANGED <<req, wrong, happened>>

\* ... and fifteen minutes after its creation it no longer counts.
LeaveWindow(c) ==
  /\ Present(c) /\ code[c].recent
  /\ code' = [code EXCEPT ![c].recent = FALSE]
  /\ UNCHANGED <<req, wrong, happened>>

\* The process dies before the action has begun.
Crash(r) ==
  /\ req[r].op \notin {"idle", "act", "release"}
  /\ Goto(r, Idle)
  /\ UNCHANGED <<code, wrong, happened>>

Next ==
  \/ \E c \in Codes : Expire(c) \/ LeaveWindow(c)
  \/ \E r \in Requests :
       \/ \E k \in Kinds : IssueRead(r, k)
       \/ Invalidate(r)
       \/ \E c \in Codes : Create(r, c)
       \/ SendSucceeds(r)
       \/ SendFails(r)
       \/ \E c \in Codes, right \in BOOLEAN : ConsumeRead(r, c, right)
       \/ Claim(r)
       \/ ActHappens(r)
       \/ ActRejected(r)
       \/ Release(r)
       \/ FailWrite(r)
       \/ FailReread(r)
       \/ Crash(r)

Spec == Init /\ [][Next]_vars

-----------------------------------------------------------------------------
(***************************************************************************)
(* Properties                                                              *)
(***************************************************************************)

\* A code lets one action happen and no two run at once, however the claims,
\* the releases and the deletion of an undelivered code overlap ("used once
\* (atomic conditional update, so concurrent requests cannot both win)").
CodeUsedOnce ==
  /\ \A c \in Codes : happened[c] <= 1
  /\ \A r \in Requests : req[r].op = "act" => happened[req[r].code] = 0
  /\ \A r1, r2 \in Requests :
       req[r1].op = "act" /\ req[r2].op = "act" /\ req[r1].code = req[r2].code
         => r1 = r2

\* No wrong guess is lost: once MaxAttempts of them have been answered, also
\* when they overlap or the loop gives up, the code is never claimed again.
LockedCodeIsNeverClaimed ==
  [][\A c \in Codes, r \in Requests :
       code[c].by # r /\ code'[c].by = r => wrong[c] < MaxAttempts]_vars
=============================================================================
