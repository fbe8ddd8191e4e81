-------------------------- MODULE EmailCodesProofs --------------------------
(***************************************************************************)
(* Proofs about EmailCodes, for any number of codes and requests and any   *)
(* limits with MaxAttempts <= Retries; about the forms, the cards, the     *)
(* queue of confirmations and the lists of the frontend; and about the     *)
(* rights, for any staff.                                                  *)
(***************************************************************************)
EXTENDS MCEmailCodes, Sequences, FiniteSets, FiniteSetTheorems, TLAPS

\* The code a request names, in the operations that name one.
LEMMA RequestFields ==
  ASSUME NEW x \in Request
  PROVE  /\ x.op \in {"invalidate", "create"} => x.kind \in Kinds
         /\ x.op \in {"send", "claim", "act", "release"} => x.code \in Codes
         /\ x.op = "fail" =>
              x.code \in Codes /\ x.retry \in 0 .. Retries - 1 /\ x.seen \in Nat
         /\ x.op = "reread" => x.code \in Codes /\ x.retry \in 0 .. Retries - 1
BY DEF Request, Idle

LEMMA Requested ==
  /\ Idle \in Request
  /\ \A k \in Kinds : /\ [op |-> "invalidate", kind |-> k] \in Request
                      /\ [op |-> "create", kind |-> k] \in Request
  /\ \A c \in Codes : /\ [op |-> "send", code |-> c] \in Request
                      /\ [op |-> "claim", code |-> c] \in Request
                      /\ [op |-> "act", code |-> c] \in Request
                      /\ [op |-> "release", code |-> c] \in Request
  /\ \A c \in Codes, i \in 0 .. Retries - 1 :
       /\ [op |-> "reread", code |-> c, retry |-> i] \in Request
       /\ \A n \in Nat : [op |-> "fail", code |-> c, retry |-> i, seen |-> n] \in Request
BY DEF Request

LEMMA GotoKeepsType ==
  ASSUME TypeOK, NEW r \in Requests, NEW x \in Request, Goto(r, x)
  PROVE  /\ req' \in [Requests -> Request]
         /\ req'[r] = x
         /\ \A r2 \in Requests : r2 # r => req'[r2] = req[r2]
BY DEF TypeOK, Goto

LEMMA RetriesPositive == 0 \in 0 .. Retries - 1
BY CodesAssumption

-----------------------------------------------------------------------------
(***************************************************************************)
(* The inductive invariant.  A request that runs the protected action, or  *)
(* is about to give the code back, is the one that consumed it; a code     *)
(* that has let an action happen is consumed for good.  A guess that is    *)
(* being counted has lost its earlier rounds to guesses that were counted. *)
(***************************************************************************)
Gone(c) == code[c].state = "deleted"

HolderConsumed(r) ==
  req[r].op \in {"act", "release"} => code[req[r].code].by = r

GuessIsBehind(r) ==
  /\ req[r].op = "fail" =>
       \/ Gone(req[r].code)
       \/ /\ Present(req[r].code)
          /\ req[r].retry <= req[r].seen
          /\ req[r].seen <= code[req[r].code].attempts
  /\ req[r].op = "reread" =>
       \/ Gone(req[r].code)
       \/ /\ Present(req[r].code)
          /\ req[r].retry <= code[req[r].code].attempts

HappenedIsUsed(c) ==
  happened[c] = 0 \/ (happened[c] = 1 /\ code[c].by = Used)

GuessesAreCounted(c) ==
  wrong[c] <= code[c].attempts \/ code[c].attempts >= MaxAttempts \/ Gone(c)

CodesInv ==
  /\ TypeOK
  /\ \A r \in Requests : HolderConsumed(r) /\ GuessIsBehind(r)
  /\ \A c \in Codes : HappenedIsUsed(c) /\ GuessesAreCounted(c)

LEMMA CodesInvInit == Init => CodesInv
BY Requested DEF Init, CodesInv, TypeOK, Unborn, CodeRow, Idle, HolderConsumed,
                 GuessIsBehind, HappenedIsUsed, GuessesAreCounted

-----------------------------------------------------------------------------
(***************************************************************************)
(* What a step may do to the rows without disturbing the requests other    *)
(* than its own: attempts never fall, a deleted code stays deleted, and    *)
(* only the request that consumed a code changes its holder.               *)
(***************************************************************************)
Progress(others) ==
  /\ code' \in [Codes -> CodeRow]
  /\ \A c \in Codes :
       /\ code'[c].attempts >= code[c].attempts
       /\ Gone(c) => code'[c].state = "deleted"
       /\ Present(c) => code'[c].state \in {"present", "deleted"}
       /\ code[c].by \in others => code'[c].by = code[c].by

LEMMA OthersKeepTheirCode ==
  ASSUME CodesInv, NEW others, NEW q \in Requests, q \in others,
         Progress(others), req'[q] = req[q]
  PROVE  HolderConsumed(q)' /\ GuessIsBehind(q)'
<1>1. /\ req[q] \in Request /\ HolderConsumed(q) /\ GuessIsBehind(q)
      /\ code \in [Codes -> CodeRow]
  BY DEF CodesInv, TypeOK
<1>2. HolderConsumed(q)'
  BY <1>1, RequestFields DEF HolderConsumed, Progress
<1>3. ASSUME req[q].op = "fail" PROVE GuessIsBehind(q)'
  <2> DEFINE c == req[q].code
  <2>1. c \in Codes /\ req[q].seen \in Nat /\ req[q].retry \in Nat
    BY <1>1, <1>3, RequestFields
  <2>2. code[c].attempts \in Nat /\ code'[c].attempts \in Nat
    BY <1>1, <2>1 DEF Progress, CodeRow
  <2>3. CASE Gone(c)
    BY <1>3, <2>1, <2>3 DEF GuessIsBehind, Progress, Gone
  <2>4. CASE Present(c)
    <3>1. req[q].retry <= req[q].seen /\ req[q].seen <= code[c].attempts
      BY <1>1, <1>3, <2>4 DEF GuessIsBehind, Gone, Present
    <3>2. code'[c].attempts >= code[c].attempts /\ code'[c].state \in {"present", "deleted"}
      BY <2>1, <2>4 DEF Progress
    <3>3. req[q].seen <= code'[c].attempts
      BY <2>1, <2>2, <3>1, <3>2
    <3>4. QED
      BY <1>3, <3>1, <3>2, <3>3 DEF GuessIsBehind, Gone, Present
  <2>5. QED
    BY <1>1, <1>3, <2>3, <2>4 DEF GuessIsBehind
<1>4. ASSUME req[q].op = "reread" PROVE GuessIsBehind(q)'
  <2> DEFINE c == req[q].code
  <2>1. c \in Codes /\ req[q].retry \in Nat
    BY <1>1, <1>4, RequestFields
  <2>2. code[c].attempts \in Nat /\ code'[c].attempts \in Nat
    BY <1>1, <2>1 DEF Progress, CodeRow
  <2>3. CASE Gone(c)
    BY <1>4, <2>1, <2>3 DEF GuessIsBehind, Progress, Gone
  <2>4. CASE Present(c)
    <3>1. req[q].retry <= code[c].attempts
      BY <1>1, <1>4, <2>4 DEF GuessIsBehind, Gone, Present
    <3>2. code'[c].attempts >= code[c].attempts /\ code'[c].state \in {"present", "deleted"}
      BY <2>1, <2>4 DEF Progress
    <3>3. req[q].retry <= code'[c].attempts
      BY <2>1, <2>2, <3>1, <3>2
    <3>4. QED
      BY <1>4, <3>2, <3>3 DEF GuessIsBehind, Gone, Present
  <2>5. QED
    BY <1>1, <1>4, <2>3, <2>4 DEF GuessIsBehind
<1>5. ASSUME req[q].op \notin {"fail", "reread"} PROVE GuessIsBehind(q)'
  BY <1>5 DEF GuessIsBehind
<1>6. QED
  BY <1>2, <1>3, <1>4, <1>5

\* A step of request r.
LEMMA RequestStep ==
  ASSUME CodesInv, NEW r \in Requests, NEW x \in Request, Goto(r, x),
         Progress(Requests \ {r}),
         wrong' \in [Codes -> Nat], happened' \in [Codes -> Nat],
         HolderConsumed(r)', GuessIsBehind(r)',
         \A c \in Codes : HappenedIsUsed(c)' /\ GuessesAreCounted(c)'
  PROVE  CodesInv'
<1>1. TypeOK'
  BY GotoKeepsType DEF CodesInv, TypeOK, Progress
<1>2. ASSUME NEW q \in Requests PROVE HolderConsumed(q)' /\ GuessIsBehind(q)'
  <2>1. CASE q = r
    BY <2>1
  <2>2. CASE q # r
    BY <2>2, GotoKeepsType, OthersKeepTheirCode DEF CodesInv
  <2>3. QED
    BY <2>1, <2>2
<1>3. QED
  BY <1>1, <1>2 DEF CodesInv

\* A step that leaves the holders, the attempts and the histories alone.
LEMMA RowsUntouched ==
  ASSUME CodesInv, code' \in [Codes -> CodeRow], UNCHANGED <<wrong, happened>>,
         \A c \in Codes : /\ code'[c].by = code[c].by
                          /\ code'[c].attempts = code[c].attempts
                          /\ Gone(c) => code'[c].state = "deleted"
                          /\ Present(c) => code'[c].state \in {"present", "deleted"}
  PROVE  /\ Progress(Requests)
         /\ \A r \in Requests : Progress(Requests \ {r})
         /\ wrong' \in [Codes -> Nat] /\ happened' \in [Codes -> Nat]
         /\ \A c \in Codes : HappenedIsUsed(c)' /\ GuessesAreCounted(c)'
<1>1. \A c \in Codes : code[c].attempts \in Nat
  BY DEF CodesInv, TypeOK, CodeRow
<1>2. QED
  BY <1>1 DEF CodesInv, TypeOK, Progress, HappenedIsUsed, GuessesAreCounted, Gone

\* Time passing.
LEMMA TickStep ==
  ASSUME CodesInv, code' \in [Codes -> CodeRow], UNCHANGED <<req, wrong, happened>>,
         \A c \in Codes : /\ code'[c].by = code[c].by
                          /\ code'[c].attempts = code[c].attempts
                          /\ code'[c].state = code[c].state
  PROVE  CodesInv'
<1>1. /\ Progress(Requests)
      /\ \A c \in Codes : HappenedIsUsed(c)' /\ GuessesAreCounted(c)'
  BY RowsUntouched DEF Gone, Present
<1>2. ASSUME NEW q \in Requests PROVE HolderConsumed(q)' /\ GuessIsBehind(q)'
  BY <1>1, OthersKeepTheirCode
<1>3. QED
  BY <1>1, <1>2 DEF CodesInv, TypeOK

-----------------------------------------------------------------------------
(***************************************************************************)
(* One lemma per group of actions.                                         *)
(***************************************************************************)

\* A request that moves on without touching a row.
LEMMA GoOnStep ==
  ASSUME CodesInv, NEW r \in Requests, NEW x \in Request, Goto(r, x),
         UNCHANGED <<code, wrong, happened>>,
         HolderConsumed(r)', GuessIsBehind(r)'
  PROVE  CodesInv'
<1>1. /\ Progress(Requests \ {r})
      /\ wrong' \in [Codes -> Nat] /\ happened' \in [Codes -> Nat]
      /\ \A c \in Codes : HappenedIsUsed(c)' /\ GuessesAreCounted(c)'
  BY RowsUntouched DEF CodesInv, TypeOK, Gone, Present
<1>2. QED
  BY <1>1, RequestStep

\* A request whose next operation is bound to no row.
LEMMA UnboundRequest ==
  ASSUME CodesInv, NEW r \in Requests, NEW x \in Request, Goto(r, x),
         x.op \notin {"act", "release", "fail", "reread"}
  PROVE  HolderConsumed(r)' /\ GuessIsBehind(r)'
<1>1. req'[r] = x
  BY GotoKeepsType DEF CodesInv
<1>2. QED
  BY <1>1 DEF HolderConsumed, GuessIsBehind

LEMMA IssueStep ==
  ASSUME CodesInv, NEW r \in Requests,
         \/ \E k \in Kinds : IssueRead(r, k)
         \/ Invalidate(r)
         \/ \E c \in Codes : Create(r, c)
         \/ SendSucceeds(r)
         \/ SendFails(r)
  PROVE  CodesInv'
<1> USE DEF CodesInv
<1>1. ASSUME NEW k \in Kinds, IssueRead(r, k) PROVE CodesInv'
  <2>1. Goto(r, [op |-> "invalidate", kind |-> k]) /\ UNCHANGED <<code, wrong, happened>>
    BY <1>1 DEF IssueRead
  <2>2. QED
    BY <2>1, Requested, UnboundRequest, GoOnStep
<1>2. CASE Invalidate(r)
  <2>1. req[r].kind \in Kinds
    BY <1>2, RequestFields DEF Invalidate, TypeOK
  <2>2. code' \in [Codes -> CodeRow]
    BY <1>2 DEF Invalidate, TypeOK, CodeRow, Present
  <2>3. \A c \in Codes : /\ code'[c].by = code[c].by
                         /\ code'[c].attempts = code[c].attempts
                         /\ code'[c].state = code[c].state
    BY <1>2 DEF Invalidate, TypeOK, CodeRow
  <2>4. UNCHANGED <<wrong, happened>> /\ Goto(r, [op |-> "create", kind |-> req[r].kind])
    BY <1>2 DEF Invalidate
  <2>5. QED
    BY <2>1, <2>2, <2>3, <2>4, Requested, UnboundRequest, RowsUntouched, RequestStep
       DEF Gone, Present
<1>3. ASSUME NEW c \in Codes, Create(r, c) PROVE CodesInv'
  <2>1. req[r].kind \in Kinds
    BY <1>3, RequestFields DEF Create, TypeOK
  <2>2. code' \in [Codes -> CodeRow]
    BY <1>3, <2>1 DEF Create, TypeOK, CodeRow
  <2>3. \A d \in Codes : /\ code'[d].by = code[d].by
                         /\ code'[d].attempts = code[d].attempts
                         /\ Gone(d) => code'[d].state = "deleted"
                         /\ Present(d) => code'[d].state \in {"present", "deleted"}
    BY <1>3 DEF Create, TypeOK, CodeRow, Gone, Present
  <2>4. UNCHANGED <<wrong, happened>> /\ Goto(r, [op |-> "send", code |-> c])
    BY <1>3 DEF Create
  <2>5. QED
    BY <2>2, <2>3, <2>4, Requested, UnboundRequest, RowsUntouched, RequestStep
<1>4. CASE SendSucceeds(r)
  <2>1. Goto(r, Idle) /\ UNCHANGED <<code, wrong, happened>>
    BY <1>4 DEF SendSucceeds
  <2>2. QED
    BY <2>1, Requested, UnboundRequest, GoOnStep DEF Idle
<1>5. CASE SendFails(r)
  <2>1. req[r].code \in Codes
    BY <1>5, RequestFields DEF SendFails, TypeOK
  <2>2. code' \in [Codes -> CodeRow]
    BY <1>5, <2>1 DEF SendFails, TypeOK, CodeRow
  <2>3. \A d \in Codes : /\ code'[d].by = code[d].by
                         /\ code'[d].attempts = code[d].attempts
                         /\ Gone(d) => code'[d].state = "deleted"
                         /\ Present(d) => code'[d].state \in {"present", "deleted"}
    BY <1>5, <2>1 DEF SendFails, TypeOK, CodeRow, Gone, Present
  <2>4. UNCHANGED <<wrong, happened>> /\ Goto(r, Idle)
    BY <1>5 DEF SendFails
  <2>5. QED
    BY <2>2, <2>3, <2>4, Requested, UnboundRequest, RowsUntouched, RequestStep DEF Idle
<1>6. QED
  BY <1>1, <1>2, <1>3, <1>4, <1>5

LEMMA ConsumeStep ==
  ASSUME CodesInv, NEW r \in Requests,
         (\E c \in Codes, right \in BOOLEAN : ConsumeRead(r, c, right)) \/ Claim(r)
  PROVE  CodesInv'
<1>1. TypeOK
  BY DEF CodesInv
<1>2. ASSUME NEW c \in Codes, NEW right \in BOOLEAN, ConsumeRead(r, c, right)
      PROVE  CodesInv'
  <2>1. UNCHANGED <<code, wrong, happened>> /\ Present(c) /\ code[c].attempts \in Nat
    BY <1>1, <1>2 DEF ConsumeRead, Acceptable, TypeOK, CodeRow
  <2>2. CASE right
    <3>1. Goto(r, [op |-> "claim", code |-> c])
      BY <1>2, <2>2 DEF ConsumeRead
    <3>2. QED
      BY <2>1, <3>1, Requested, UnboundRequest, GoOnStep
  <2>3. CASE ~right
    <3> DEFINE x == [op |-> "fail", code |-> c, retry |-> 0, seen |-> code[c].attempts]
    <3>1. x \in Request
      BY <2>1, Requested, RetriesPositive
    <3>2. Goto(r, x)
      BY <1>2, <2>3 DEF ConsumeRead
    <3>3. req'[r] = x
      BY <1>1, <3>1, <3>2, GotoKeepsType
    <3>4. HolderConsumed(r)' /\ GuessIsBehind(r)'
      BY <2>1, <3>3 DEF HolderConsumed, GuessIsBehind, Present
    <3>5. QED
      BY <2>1, <3>1, <3>2, <3>4, GoOnStep
  <2>4. QED
    BY <2>2, <2>3
<1>3. CASE Claim(r)
  <2> DEFINE c == req[r].code
  <2>1. c \in Codes /\ UNCHANGED <<wrong, happened>>
    BY <1>1, <1>3, RequestFields DEF Claim, TypeOK
  <2>2. CASE /\ Claimable(c)
             /\ code' = [code EXCEPT ![c].by = r]
             /\ Goto(r, [op |-> "act", code |-> c])
    <3>1. code' \in [Codes -> CodeRow]
      BY <1>1, <2>1, <2>2 DEF TypeOK, CodeRow
    <3>2. /\ code[c].by = None /\ code'[c].by = r
          /\ \A d \in Codes : /\ code'[d].attempts = code[d].attempts
                              /\ code'[d].attempts \in Nat
                              /\ code'[d].state = code[d].state
                              /\ d # c => code'[d].by = code[d].by
      BY <1>1, <2>1, <2>2 DEF TypeOK, CodeRow, Claimable
    <3>3. Progress(Requests \ {r})
      BY <2>1, <3>1, <3>2, CodesAssumption DEF Progress, Gone, Present
    <3>4. req'[r] = [op |-> "act", code |-> c]
      BY <1>1, <2>1, <2>2, Requested, GotoKeepsType
    <3>5. HolderConsumed(r)' /\ GuessIsBehind(r)'
      BY <3>2, <3>4 DEF HolderConsumed, GuessIsBehind
    <3>6. ASSUME NEW d \in Codes PROVE HappenedIsUsed(d)' /\ GuessesAreCounted(d)'
      BY <2>1, <3>2, CodesAssumption
         DEF CodesInv, HappenedIsUsed, GuessesAreCounted, Gone
    <3>7. wrong' \in [Codes -> Nat] /\ happened' \in [Codes -> Nat]
      BY <1>1, <2>1 DEF TypeOK
    <3>8. QED
      BY <2>1, <2>2, <3>3, <3>5, <3>6, <3>7, Requested, RequestStep
  <2>3. CASE Goto(r, Idle) /\ UNCHANGED code
    BY <2>1, <2>3, Requested, UnboundRequest, GoOnStep DEF Idle
  <2>4. QED
    BY <1>3, <2>2, <2>3 DEF Claim
<1>4. QED
  BY <1>2, <1>3

LEMMA ActStep ==
  ASSUME CodesInv, NEW r \in Requests,
         ActHappens(r) \/ ActRejected(r) \/ Release(r)
  PROVE  CodesInv'
<1> DEFINE c == req[r].code
<1>1. TypeOK /\ HolderConsumed(r) /\ req[r] \in Request
  BY DEF CodesInv, TypeOK
<1>2. CASE ActHappens(r)
  <2>1. c \in Codes /\ code[c].by = r
    BY <1>1, <1>2, RequestFields DEF ActHappens, HolderConsumed
  <2>2. code' \in [Codes -> CodeRow]
    BY <1>1, <1>2, <2>1 DEF ActHappens, TypeOK, CodeRow
  <2>3. /\ code'[c].by = Used /\ happened'[c] = happened[c] + 1
        /\ \A d \in Codes : /\ code'[d].attempts = code[d].attempts
                            /\ code'[d].attempts \in Nat
                            /\ code'[d].state = code[d].state
                            /\ d # c => code'[d].by = code[d].by
                            /\ d # c => happened'[d] = happened[d]
    BY <1>1, <1>2, <2>1 DEF ActHappens, TypeOK, CodeRow
  <2>4. Progress(Requests \ {r})
    BY <2>1, <2>2, <2>3 DEF Progress, Gone, Present
  <2>5. /\ Goto(r, Idle) /\ UNCHANGED wrong
        /\ wrong' \in [Codes -> Nat] /\ happened' \in [Codes -> Nat]
    BY <1>1, <1>2, <2>1 DEF ActHappens, TypeOK
  <2>6. ASSUME NEW d \in Codes PROVE HappenedIsUsed(d)'
    <3>1. CASE d = c
      <4>1. happened[c] = 0
        BY <2>1, CodesAssumption DEF CodesInv, HappenedIsUsed
      <4>2. QED
        BY <2>3, <3>1, <4>1 DEF HappenedIsUsed
    <3>2. CASE d # c
      BY <2>3, <3>2 DEF CodesInv, HappenedIsUsed
    <3>3. QED
      BY <3>1, <3>2
  <2>7. ASSUME NEW d \in Codes PROVE GuessesAreCounted(d)'
    BY <2>3, <2>5 DEF CodesInv, GuessesAreCounted, Gone
  <2>8. QED
    BY <2>4, <2>5, <2>6, <2>7, Requested, UnboundRequest, RequestStep DEF Idle
<1>3. CASE ActRejected(r)
  <2>1. c \in Codes /\ code[c].by = r
    BY <1>1, <1>3, RequestFields DEF ActRejected, HolderConsumed
  <2>2. Goto(r, [op |-> "release", code |-> c]) /\ UNCHANGED <<code, wrong, happened>>
    BY <1>3 DEF ActRejected
  <2>3. req'[r] = [op |-> "release", code |-> c]
    BY <1>1, <2>1, <2>2, Requested, GotoKeepsType
  <2>4. HolderConsumed(r)' /\ GuessIsBehind(r)'
    BY <2>1, <2>2, <2>3 DEF HolderConsumed, GuessIsBehind
  <2>5. QED
    BY <2>1, <2>2, <2>4, Requested, GoOnStep
<1>4. CASE Release(r)
  <2>1. c \in Codes /\ code[c].by = r
    BY <1>1, <1>4, RequestFields DEF Release, HolderConsumed
  <2>2. PICK holder \in {None, Used} :
          code' = [code EXCEPT ![c].by = IF @ = r THEN holder ELSE @]
    BY <1>4 DEF Release
  <2>3. code' = [code EXCEPT ![c].by = holder]
    BY <2>1, <2>2
  <2>4. code' \in [Codes -> CodeRow]
    BY <1>1, <2>1, <2>3 DEF TypeOK, CodeRow
  <2>5. \A d \in Codes : /\ code'[d].attempts = code[d].attempts
                         /\ code'[d].attempts \in Nat
                         /\ code'[d].state = code[d].state
                         /\ d # c => code'[d].by = code[d].by
    BY <1>1, <2>1, <2>3 DEF TypeOK, CodeRow
  <2>6. Progress(Requests \ {r})
    BY <2>1, <2>4, <2>5 DEF Progress, Gone, Present
  <2>7. /\ Goto(r, Idle) /\ UNCHANGED <<wrong, happened>>
        /\ wrong' \in [Codes -> Nat] /\ happened' \in [Codes -> Nat]
    BY <1>1, <1>4 DEF Release, TypeOK
  <2>8. ASSUME NEW d \in Codes PROVE HappenedIsUsed(d)' /\ GuessesAreCounted(d)'
    <3>1. d = c => happened[d] = 0
      BY <2>1, CodesAssumption DEF CodesInv, HappenedIsUsed
    <3>2. HappenedIsUsed(d)'
      BY <2>5, <2>7, <3>1 DEF CodesInv, HappenedIsUsed
    <3>3. GuessesAreCounted(d)'
      BY <2>5, <2>7 DEF CodesInv, GuessesAreCounted, Gone
    <3>4. QED
      BY <3>2, <3>3
  <2>9. QED
    BY <2>6, <2>7, <2>8, Requested, UnboundRequest, RequestStep DEF Idle
<1>5. QED
  BY <1>2, <1>3, <1>4

LEMMA AnsweredType ==
  ASSUME TypeOK, NEW c \in Codes, Answered(c)
  PROVE  /\ wrong' \in [Codes -> Nat] /\ wrong'[c] = wrong[c] + 1
         /\ \A d \in Codes : d # c => wrong'[d] = wrong[d]
BY DEF TypeOK, Answered

\* The compare-and-swap loop: a round that fails leaves the guess behind one
\* more counted guess, so that giving up means the code is locked.
LEMMA GuessStep ==
  ASSUME CodesInv, NEW r \in Requests, FailWrite(r) \/ FailReread(r)
  PROVE  CodesInv'
<1> DEFINE c == req[r].code
<1>1. /\ TypeOK /\ GuessIsBehind(r) /\ req[r] \in Request
      /\ c \in Codes /\ code[c].attempts \in Nat /\ wrong[c] \in Nat
      /\ req[r].retry \in 0 .. Retries - 1
      /\ UNCHANGED happened /\ HappenedIsUsed(c) /\ GuessesAreCounted(c)
  <2>1. TypeOK /\ GuessIsBehind(r) /\ req[r] \in Request
    BY DEF CodesInv, TypeOK
  <2>2. c \in Codes /\ req[r].retry \in 0 .. Retries - 1
    BY <2>1, RequestFields DEF FailWrite, FailReread
  <2>3. QED
    BY <2>1, <2>2 DEF CodesInv, TypeOK, CodeRow, FailWrite, FailReread
<1>2. ASSUME UNCHANGED code, Goto(r, Idle), Answered(c),
             Gone(c) \/ code[c].attempts >= MaxAttempts
      PROVE  CodesInv'
  <2>1. ASSUME NEW d \in Codes PROVE HappenedIsUsed(d)' /\ GuessesAreCounted(d)'
    <3>1. HappenedIsUsed(d)'
      BY <1>1, <1>2 DEF CodesInv, HappenedIsUsed
    <3>2. CASE d = c
      BY <1>2, <3>1, <3>2 DEF GuessesAreCounted, Gone
    <3>3. CASE d # c
      BY <1>1, <1>2, <3>1, <3>3, AnsweredType DEF CodesInv, GuessesAreCounted, Gone
    <3>4. QED
      BY <3>2, <3>3
  <2>2. Progress(Requests \ {r})
    BY <1>1, <1>2 DEF Progress, TypeOK, CodeRow, Gone, Present
  <2>3. wrong' \in [Codes -> Nat] /\ happened' \in [Codes -> Nat]
    BY <1>1, <1>2, AnsweredType DEF TypeOK
  <2>4. QED
    BY <1>2, <2>1, <2>2, <2>3, Requested, UnboundRequest, RequestStep DEF Idle
<1>3. CASE FailReread(r)
  <2>1. req[r].op = "reread" /\ UNCHANGED code
    BY <1>3 DEF FailReread
  <2>2. CASE ~Present(c)
    BY <1>1, <1>2, <1>3, <2>1, <2>2 DEF FailReread, GuessIsBehind
  <2>3. CASE Present(c)
    <3> DEFINE x == [op |-> "fail", code |-> c, retry |-> req[r].retry,
                     seen |-> code[c].attempts]
    <3>1. Goto(r, x) /\ UNCHANGED <<code, wrong, happened>>
      BY <1>3, <2>3 DEF FailReread
    <3>2. x \in Request
      BY <1>1, Requested
    <3>3. req'[r] = x
      BY <1>1, <3>1, <3>2, GotoKeepsType
    <3>4. req[r].retry <= code[c].attempts
      BY <1>1, <2>1, <2>3 DEF GuessIsBehind, Gone, Present
    <3>5. HolderConsumed(r)' /\ GuessIsBehind(r)'
      BY <1>1, <2>3, <3>1, <3>3, <3>4 DEF HolderConsumed, GuessIsBehind, Present
    <3>6. QED
      BY <3>1, <3>2, <3>5, GoOnStep
  <2>4. QED
    BY <2>2, <2>3
<1>4. CASE FailWrite(r)
  <2> DEFINE swapped == Present(c) /\ code[c].attempts = req[r].seen
  <2>1. req[r].op = "fail" /\ req[r].seen \in Nat
    BY <1>1, <1>4, RequestFields DEF FailWrite
  <2>2. ~swapped => Gone(c) \/ req[r].retry + 1 <= code[c].attempts
    BY <1>1, <2>1 DEF GuessIsBehind, Present, Gone
  <2>3. CASE swapped
    <3>1. code' = [code EXCEPT ![c].attempts = @ + 1] /\ Answered(c) /\ Goto(r, Idle)
      BY <1>4, <2>3 DEF FailWrite
    <3>2. code' \in [Codes -> CodeRow]
      BY <1>1, <3>1 DEF TypeOK, CodeRow
    <3>3. /\ code'[c].attempts = code[c].attempts + 1
          /\ \A d \in Codes : /\ code[d].attempts \in Nat
                              /\ code'[d].by = code[d].by
                              /\ code'[d].state = code[d].state
                              /\ d # c => code'[d].attempts = code[d].attempts
      BY <1>1, <3>1 DEF TypeOK, CodeRow
    <3>4. Progress(Requests \ {r})
      BY <1>1, <3>2, <3>3 DEF Progress, Gone, Present
    <3>5. wrong' \in [Codes -> Nat] /\ happened' \in [Codes -> Nat]
      BY <1>1, <3>1, AnsweredType DEF TypeOK
    <3>6. ASSUME NEW d \in Codes PROVE HappenedIsUsed(d)' /\ GuessesAreCounted(d)'
      <4>1. HappenedIsUsed(d)'
        BY <1>1, <3>3 DEF CodesInv, HappenedIsUsed
      <4>2. CASE d = c
        <5>1. wrong'[c] = wrong[c] + 1
          BY <1>1, <3>1, AnsweredType
        <5>2. \/ wrong[d] <= code[d].attempts
              \/ code[d].attempts >= MaxAttempts
              \/ code[d].state = "deleted"
          BY <1>1, <4>2 DEF GuessesAreCounted, Gone
        <5>3. /\ wrong'[d] = wrong[d] + 1
              /\ code'[d].attempts = code[d].attempts + 1
              /\ code'[d].state = code[d].state
              /\ wrong[d] \in Nat /\ code[d].attempts \in Nat
          BY <1>1, <3>3, <4>2, <5>1
        <5>4. GuessesAreCounted(d)'
          BY <5>2, <5>3, CodesAssumption DEF GuessesAreCounted, Gone
        <5>5. QED
          BY <4>1, <5>4
      <4>3. CASE d # c
        BY <1>1, <3>1, <3>3, <4>1, <4>3, AnsweredType DEF CodesInv, GuessesAreCounted, Gone
      <4>4. QED
        BY <4>2, <4>3
    <3>7. QED
      BY <3>1, <3>4, <3>5, <3>6, Requested, UnboundRequest, RequestStep DEF Idle
  <2>4. CASE ~swapped /\ req[r].retry + 1 < Retries
    <3> DEFINE x == [op |-> "reread", code |-> c, retry |-> req[r].retry + 1]
    <3>0. req[r].retry + 1 # Retries
      BY <1>1, <2>4, CodesAssumption
    <3>1. Goto(r, x) /\ UNCHANGED <<code, wrong, happened>>
      BY <1>1, <1>4, <2>4, <3>0 DEF FailWrite
    <3>2. x \in Request
      BY <1>1, <2>4, Requested, CodesAssumption
    <3>3. req'[r] = x
      BY <1>1, <3>1, <3>2, GotoKeepsType
    <3>4. HolderConsumed(r)' /\ GuessIsBehind(r)'
      BY <1>1, <2>1, <2>2, <2>4, <3>1, <3>3
         DEF HolderConsumed, GuessIsBehind, Present, Gone
    <3>5. QED
      BY <3>1, <3>2, <3>4, GoOnStep
  <2>5. CASE ~swapped /\ req[r].retry + 1 = Retries
    <3>1. Gone(c) \/ code[c].attempts >= MaxAttempts
      BY <1>1, <2>2, <2>5, CodesAssumption
    <3>2. ~(req[r].retry + 1 < Retries)
      BY <1>1, <2>5, CodesAssumption
    <3>3. UNCHANGED code /\ Goto(r, Idle) /\ Answered(c)
      BY <1>4, <2>5, <3>2 DEF FailWrite
    <3>4. QED
      BY <1>2, <3>1, <3>3
  <2>6. req[r].retry + 1 < Retries \/ req[r].retry + 1 = Retries
    BY <1>1, CodesAssumption
  <2>7. QED
    BY <2>3, <2>4, <2>5, <2>6
<1>5. QED
  BY <1>3, <1>4

LEMMA CodesInvStep == CodesInv /\ [Next]_vars => CodesInv'
<1> SUFFICES ASSUME CodesInv, [Next]_vars PROVE CodesInv'
  OBVIOUS
<1>1. CASE UNCHANGED vars
  BY <1>1, TickStep DEF vars, CodesInv, TypeOK
<1>2. ASSUME NEW c \in Codes, Expire(c) \/ LeaveWindow(c) PROVE CodesInv'
  <2>1. code' \in [Codes -> CodeRow]
    <3>1. CASE Expire(c)
      BY <3>1 DEF Expire, CodesInv, TypeOK, CodeRow
    <3>2. CASE LeaveWindow(c)
      BY <3>2 DEF LeaveWindow, CodesInv, TypeOK, CodeRow
    <3>3. QED
      BY <1>2, <3>1, <3>2
  <2>2. \A d \in Codes : /\ code'[d].by = code[d].by
                         /\ code'[d].attempts = code[d].attempts
                         /\ code'[d].state = code[d].state
    BY <1>2 DEF Expire, LeaveWindow, CodesInv, TypeOK, CodeRow
  <2>3. UNCHANGED <<req, wrong, happened>>
    BY <1>2 DEF Expire, LeaveWindow
  <2>4. QED
    BY <2>1, <2>2, <2>3, TickStep
<1>3. ASSUME NEW r \in Requests, Crash(r) PROVE CodesInv'
  BY <1>3, Requested, UnboundRequest, GoOnStep DEF Crash, Idle
<1>4. ASSUME NEW r \in Requests,
             \/ \E k \in Kinds : IssueRead(r, k)
             \/ Invalidate(r)
             \/ \E c \in Codes : Create(r, c)
             \/ SendSucceeds(r)
             \/ SendFails(r)
      PROVE  CodesInv'
  BY <1>4, IssueStep
<1>5. ASSUME NEW r \in Requests,
             (\E c \in Codes, right \in BOOLEAN : ConsumeRead(r, c, right)) \/ Claim(r)
      PROVE  CodesInv'
  BY <1>5, ConsumeStep
<1>6. ASSUME NEW r \in Requests, ActHappens(r) \/ ActRejected(r) \/ Release(r)
      PROVE  CodesInv'
  BY <1>6, ActStep
<1>7. ASSUME NEW r \in Requests, FailWrite(r) \/ FailReread(r) PROVE CodesInv'
  BY <1>7, GuessStep
<1>8. QED
  BY <1>1, <1>2, <1>3, <1>4, <1>5, <1>6, <1>7 DEF Next

LEMMA CodesInvHolds == Spec => []CodesInv
BY CodesInvInit, CodesInvStep, PTL DEF Spec

-----------------------------------------------------------------------------
\* The tables and the requests in flight keep their types.
THEOREM TypeCorrect == Spec => []TypeOK
<1>1. CodesInv => TypeOK
  BY DEF CodesInv
<1>2. QED
  BY <1>1, CodesInvHolds, PTL

\* A code lets at most one action happen and never two run at once
\* (EmailCodesService.consume and release, EmailCodeInterceptor).
THEOREM CodeIsUsedOnce == Spec => []CodeUsedOnce
<1>1. CodesInv => CodeUsedOnce
  <2> SUFFICES ASSUME CodesInv PROVE CodeUsedOnce
    OBVIOUS
  <2>1. \A c \in Codes : happened[c] <= 1
    BY DEF CodesInv, HappenedIsUsed
  <2>2. ASSUME NEW r \in Requests, req[r].op = "act"
        PROVE  req[r].code \in Codes /\ code[req[r].code].by = r
    BY <2>2, RequestFields DEF CodesInv, TypeOK, HolderConsumed
  <2>3. ASSUME NEW r \in Requests, req[r].op = "act" PROVE happened[req[r].code] = 0
    BY <2>2, <2>3, CodesAssumption DEF CodesInv, HappenedIsUsed
  <2>4. ASSUME NEW r1 \in Requests, NEW r2 \in Requests,
               req[r1].op = "act", req[r2].op = "act", req[r1].code = req[r2].code
        PROVE  r1 = r2
    BY <2>2, <2>4
  <2>5. QED
    BY <2>1, <2>3, <2>4 DEF CodeUsedOnce
<1>2. QED
  BY <1>1, CodesInvHolds, PTL

\* A code with MaxAttempts answered wrong guesses is never claimed again
\* (EmailCodesService.recordFailedAttempt and the WHERE of consume).
THEOREM LockedCodeStaysLocked == Spec => LockedCodeIsNeverClaimed
<1> DEFINE Locked == \A c \in Codes, r \in Requests :
                       code[c].by # r /\ code'[c].by = r => wrong[c] < MaxAttempts
<1>1. CodesInv /\ [Next]_vars => [Locked]_vars
  <2> SUFFICES ASSUME CodesInv, Next,
                      NEW c \in Codes, NEW r \in Requests, code[c].by # r, code'[c].by = r
               PROVE  wrong[c] < MaxAttempts
    BY DEF vars
  <2>1. TypeOK
    BY DEF CodesInv
  <2>2. PICK q \in Requests : Claim(q)
    <3>1. ~\E d \in Codes : Expire(d) \/ LeaveWindow(d)
      BY <2>1 DEF Expire, LeaveWindow, TypeOK, CodeRow
    <3>2. ASSUME NEW q \in Requests
          PROVE  ~\/ Invalidate(q)
                  \/ \E d \in Codes : Create(q, d)
                  \/ SendFails(q) \/ ActHappens(q) \/ Release(q) \/ FailWrite(q)
      <4>1. ~Invalidate(q)
        BY <2>1 DEF Invalidate, TypeOK, CodeRow
      <4>2. ~\E d \in Codes : Create(q, d)
        <5>1. ASSUME NEW d \in Codes, Create(q, d) PROVE code'[c].by = code[c].by
          <6>1. code'[c] = IF c = d THEN [code[d] EXCEPT !.state = "present", !.kind = req[q].kind]
                                    ELSE code[c]
            BY <2>1, <5>1 DEF Create, TypeOK
          <6>2. QED
            BY <2>1, <6>1 DEF TypeOK, CodeRow
        <5>2. QED
          BY <5>1
      <4>3. ~SendFails(q)
        BY <2>1, RequestFields DEF SendFails, TypeOK, CodeRow
      <4>4. ~ActHappens(q)
        BY <2>1, RequestFields, CodesAssumption DEF ActHappens, TypeOK, CodeRow
      <4>5. ~Release(q)
        BY <2>1, RequestFields, CodesAssumption DEF Release, TypeOK, CodeRow
      <4>6. ~FailWrite(q)
        BY <2>1, RequestFields DEF FailWrite, TypeOK, CodeRow
      <4>7. QED
        BY <4>1, <4>2, <4>3, <4>4, <4>5, <4>6
    <3>3. UNCHANGED code => FALSE
      OBVIOUS
    <3>4. QED
      BY <3>1, <3>2, <3>3
         DEF Next, IssueRead, SendSucceeds, ConsumeRead, ActRejected, FailReread, Crash
  <2>3. Claimable(c)
    BY <2>1, <2>2, RequestFields DEF Claim, TypeOK, CodeRow
  <2>4. wrong[c] <= code[c].attempts
    BY <2>3, CodesAssumption DEF CodesInv, TypeOK, CodeRow, GuessesAreCounted,
                                 Claimable, Present, Gone
  <2>5. QED
    BY <2>1, <2>3, <2>4, CodesAssumption DEF Claimable, TypeOK, CodeRow
<1>2. QED
  BY <1>1, CodesInvHolds, PTL DEF Spec, LockedCodeIsNeverClaimed

-----------------------------------------------------------------------------
(***************************************************************************)
(* The ends.  A form (F) has at most one request for a code and one        *)
(* protected call on the way that will reach it: it asks while it is       *)
(* "requesting" and calls while it waits for the code, and what it holds   *)
(* then was issued for its last request and for what is on the screen.     *)
(***************************************************************************)
Draft == Drafts \cup {NoDraft}

AskType ==
  [n : Nat, for : Draft, challenge : Nat, at : {"sent", "issued", "refused"},
   mine : BOOLEAN]

CallType ==
  [challenge : Nat, code : Nat, value : Draft, at : {"sent", "done", "failed"},
   mine : BOOLEAN]

FormType ==
  /\ form \in F!Forms
  /\ step \in {"closed", "open", "new-code", "done"}
  /\ phase \in {"idle", "requesting", "awaiting-code"} /\ failed \in BOOLEAN
  /\ held \in Nat /\ asked \in Nat
  /\ draft \in Draft /\ next \in Draft
  /\ asks \subseteq AskType /\ calls \subseteq CallType
  /\ issued \in Seq([ask : Nat, for : Draft])
  /\ live \in 0 .. Len(issued)

\* The forms that cannot be given up while they ask.
Patient == F!Forms \ {"settings", "email"}

\* The forms whose draft is the thing that is done.
Shown == F!Uploads \cup {"createTransaction", "editTransaction"}

IssuedFor(challenge, n, d) ==
  /\ challenge \in 1 .. Len(issued)
  /\ issued[challenge].ask = n
  /\ form \in Shown => issued[challenge].for = d

AsksAreKept ==
  \A a \in asks : a.mine =>
    /\ phase = "requesting" /\ a.n = asked
    /\ form \in Shown => a.for = draft
    /\ a.at = "issued" => IssuedFor(a.challenge, a.n, a.for)
    /\ \A b \in asks : b.mine => b = a

CallsAreKept ==
  \A c \in calls :
    /\ form \in Shown /\ c.challenge # 0 =>
         c.challenge \in 1 .. Len(issued) /\ issued[c.challenge].for = c.value
    /\ c.mine => /\ step \in {"open", "new-code"}
                 /\ form \in Patient => phase = "awaiting-code"
                 /\ form = "email" /\ step = "open" => c.value = draft
                 /\ \A d \in calls : d.mine => d = c

FormInv ==
  /\ FormType
  /\ form \in Patient => AsksAreKept
  /\ CallsAreKept
  /\ form # "email" => step \in {"closed", "open"}
  /\ form \in Patient /\ step = "closed" => phase = "idle"
  /\ form \in F!Uploads /\ step = "open" => draft # NoDraft
  /\ form \in Patient /\ phase = "awaiting-code" => IssuedFor(held, asked, draft)
  /\ F!PerformedAsShown

\* A form that creates something (N) has at most one call of each filling, and
\* while it is open it knows of that of its own.  As long as no answer is lost
\* what has been created of a filling is still to be answered or done with.
PostType ==
  [filling : Nat, tick : [filling : Nat, version : Nat], version : Nat,
   at : {"sent", "done", "failed"}, to : {"form", "screen", "nobody"}]

ItsOwn(x) ==
  creator \in N!WithConsent =>
    x.tick.filling = x.filling /\ (reread \/ x.tick.version = x.version)

CreateInv ==
  /\ creator \in N!Forms /\ open \in BOOLEAN /\ filling \in Nat
  /\ tick \in [filling : Nat, version : Nat]
  /\ text \in Nat /\ version \in Nat /\ lost \in BOOLEAN /\ reread \in BOOLEAN
  /\ posts \subseteq PostType
  /\ \A c \in posts : c.filling <= filling /\ ItsOwn(c)
  /\ \A r \in records : r.filling \in 0 .. filling /\ ItsOwn(r)
  /\ \A c, d \in posts : c.filling = d.filling => c = d
  /\ open => \A c \in posts : c.filling = filling => c.to = "form"
  /\ tick # N!Unticked =>
       tick.filling = filling /\ (reread \/ tick.version = text)
  /\ ~lost =>
       /\ \A c \in posts, r \in records : r.filling = c.filling => c.at = "done"
       /\ open => \A r \in records : r.filling = filling =>
            \E c \in posts : c.filling = filling
       /\ \A r, s \in records : r.filling = s.filling => r = s

\* As long as no card (C) is closed over a running write, every write on the way
\* is its own, and there is one at most.
PutType ==
  [kind : {"correction", "confirm", "update", "attachment"}, value : Nat,
   at : {"sent", "done", "failed", "reading"}, mine : BOOLEAN]

CardInv ==
  /\ card \in {"payroll", "transaction"} /\ dirty \in BOOLEAN /\ left \in BOOLEAN
  /\ edits \in Nat
  /\ puts \subseteq PutType
  /\ \A c \in puts : c.kind \in {C!Correct, C!Confirm}
  /\ ~left => /\ \A c \in puts : c.mine
              /\ \A c, d \in puts : c = d
              /\ C!Pending("confirm") => ~dirty

\* A row of the queue (P) whose action is resolved waits for the queue to be read
\* again; the next reading will not have the action.  A call that no row waits
\* for is of an action that is over.
SentType ==
  [action : Actions, kind : {"right", "wrong", "reject"},
   at : {"sent", "done", "failed", "reading"}, mine : BOOLEAN]

QueueType ==
  /\ type \in [Actions -> {"create_user", "disable_user"}]
  /\ status \in [Actions -> {"unborn", "pending", "over"}]
  /\ queue \in [shows : {"nothing", "rows", "error"}, loaded : BOOLEAN,
                data : SUBSET Actions, request : {"none", "sent", "read"},
                answer : SUBSET Actions]
  /\ row \in [Actions -> [code : {"-", "right", "wrong"}, askReject : BOOLEAN]]
  /\ sent \subseteq SentType
  /\ resolved \subseteq Actions /\ forgot \in BOOLEAN

QueueIsRead ==
  /\ queue.shows = "rows" \/ sent # {} => queue.loaded
  /\ \A a \in queue.data : status[a] # "unborn"
  /\ queue.request = "read" =>
       /\ \A a \in queue.answer : status[a] # "unborn" /\ a \notin resolved
       /\ \A a \in P!Rows \ queue.answer : status[a] = "over"

RowsWait ==
  /\ \A a \in resolved : a \in P!Rows =>
       \E c \in sent : c.action = a /\ c.mine /\ c.at = "reading"
  /\ \A c, d \in sent : c.action = d.action => c = d
  /\ \A c \in sent : ~c.mine =>
       /\ status[c.action] = "over" /\ c.action \notin P!Rows
       /\ queue.request = "read" => c.action \notin queue.answer

QueueInv ==
  /\ QueueType
  /\ QueueIsRead
  /\ \A a \in resolved : status[a] = "over"
  /\ \A c \in sent : /\ c.at \in {"done", "reading"} => status[c.action] = "over"
                     /\ c.mine => c.action \in P!Rows
  /\ ~forgot => RowsWait

LEMMA PutFields ==
  ASSUME NEW c \in PutType, NEW at \in {"sent", "done", "failed", "reading"}
  PROVE  /\ [c EXCEPT !.at = at] \in PutType /\ [c EXCEPT !.mine = FALSE] \in PutType
         /\ [c EXCEPT !.at = at].mine = c.mine /\ [c EXCEPT !.at = at].kind = c.kind
         /\ [c EXCEPT !.mine = FALSE].kind = c.kind
         /\ [c EXCEPT !.mine = FALSE].mine = FALSE
BY DEF PutType

LEMMA CardInit == C!Init => CardInv
<1> SUFFICES ASSUME C!Init PROVE CardInv
  OBVIOUS
<1> QED
  BY DEF C!Init, CardInv, C!Pending

\* A call that goes on stands in the place of the one it was.
LEMMA PutGoesOn ==
  ASSUME CardInv, NEW c \in puts, NEW at \in {"sent", "done", "failed", "reading"},
         puts' \subseteq (puts \ {c}) \cup {[c EXCEPT !.at = at]},
         dirty' = dirty, UNCHANGED <<card, edits, left>>
  PROVE  CardInv'
<1> DEFINE d == [c EXCEPT !.at = at]
<1>1. c \in PutType
  BY DEF CardInv
<1>2. d \in PutType /\ d.mine = c.mine /\ d.kind = c.kind
  BY <1>1, PutFields
<1> HIDE DEF d
<1>3. puts' \subseteq (puts \ {c}) \cup {d}
  BY DEF d
<1>4. \A x \in puts' : \E y \in puts : x.mine = y.mine /\ x.kind = y.kind
  BY <1>2, <1>3
<1>5. C!Correct' = C!Correct /\ C!Confirm' = C!Confirm
  BY DEF C!Correct, C!Confirm
<1>6. ~left => \A x, y \in puts' : x = y
  BY <1>3 DEF CardInv
<1>7. C!Pending("confirm")' => C!Pending("confirm")
  BY <1>4 DEF C!Pending
<1> QED
  BY <1>2, <1>3, <1>4, <1>5, <1>6, <1>7 DEF CardInv

LEMMA CardStep == CardInv /\ [C!Next]_cardVars => CardInv'
<1> SUFFICES ASSUME CardInv, [C!Next]_cardVars PROVE CardInv'
  OBVIOUS
<1> USE DEF CardInv
<1>0. /\ card' = card => C!Correct' = C!Correct /\ C!Confirm' = C!Confirm
      /\ C!Correct = IF card = "payroll" THEN "correction" ELSE "update"
      /\ C!Confirm = IF card = "payroll" THEN "confirm" ELSE "attachment"
  BY DEF C!Correct, C!Confirm
<1>1. CASE UNCHANGED cardVars
  BY <1>0, <1>1 DEF cardVars, C!Pending
<1>2. CASE C!Dirty
  BY <1>0, <1>2 DEF C!Dirty, C!Pending, C!CorrectDisabled
<1>3. ASSUME NEW kind1 \in {C!Correct, C!Confirm}, NEW value \in Nat,
             C!Send(kind1, value), UNCHANGED <<card, dirty, left>>, edits' \in Nat,
             ~C!Pending(C!Correct), ~C!Pending(C!Confirm),
             kind1 = "confirm" => ~dirty
      PROVE  CardInv'
  <2> DEFINE d == [kind |-> kind1, value |-> value, at |-> "sent", mine |-> TRUE]
  <2>1. d \in PutType /\ d.kind = kind1 /\ d.mine
    BY <1>0 DEF PutType
  <2> HIDE DEF d
  <2>2. puts' = puts \cup {d}
    BY <1>3 DEF C!Send, d
  <2>3. ~left => puts = {}
    BY <1>3 DEF C!Pending
  <2>4. C!Pending("confirm")' => C!Pending("confirm") \/ kind1 = "confirm"
    BY <2>1, <2>2 DEF C!Pending
  <2> QED
    BY <1>0, <1>3, <2>1, <2>2, <2>3, <2>4
<1>4. CASE C!SendCorrection
  <2>1. ~C!Pending(C!Correct) /\ ~C!Pending(C!Confirm)
    BY <1>0, <1>4 DEF C!SendCorrection, C!CorrectDisabled, C!EntryBusy
  <2> QED
    BY <1>0, <1>3, <1>4, <2>1 DEF C!SendCorrection
<1>5. CASE C!SendConfirmation
  <2>1. /\ ~C!Pending(C!Correct) /\ ~C!Pending(C!Confirm)
        /\ C!Confirm = "confirm" => ~dirty
    BY <1>0, <1>5 DEF C!SendConfirmation, C!ConfirmBlocked, C!EntryBusy
  <2> QED
    BY <1>0, <1>3, <1>5, <2>1 DEF C!SendConfirmation
<1>6. CASE C!CloseCard
  <2>1. ASSUME NEW c \in puts
        PROVE  /\ [c EXCEPT !.mine = FALSE] \in PutType
               /\ [c EXCEPT !.mine = FALSE].kind = c.kind
    <3>1. c \in PutType
      OBVIOUS
    <3> QED
      BY <3>1, PutFields
  <2>2. puts' = {[c EXCEPT !.mine = FALSE] : c \in puts} /\ card' = card /\ dirty' = FALSE
        /\ left' = (left \/ puts # {}) /\ edits' = edits
    BY <1>6 DEF C!CloseCard
  <2>3. ~left' => puts' = {}
    BY <2>2
  <2>4. left' \in BOOLEAN
    BY <2>2
  <2>5. puts' \subseteq PutType /\ \A d \in puts' : d.kind \in {C!Correct, C!Confirm}
    BY <2>1, <2>2
  <2> QED
    BY <1>0, <2>2, <2>3, <2>4, <2>5 DEF C!Pending
<1>7. CASE C!OpenCard
  BY <1>0, <1>7 DEF C!OpenCard, C!Pending
<1>8. CASE C!Fetched
  BY <1>0, <1>8 DEF C!Fetched, C!Pending
<1>9. ASSUME NEW c \in puts, C!Carry(c) \/ C!Refuse(c) \/ C!Result(c) PROVE CardInv'
  <2>1. UNCHANGED <<card, dirty, edits, left>>
    BY <1>9 DEF C!Carry, C!Refuse, C!Result
  <2>2. PICK at \in {"done", "failed", "reading"} :
          puts' \subseteq (puts \ {c}) \cup {[c EXCEPT !.at = at]}
    BY <1>9 DEF C!Carry, C!Refuse, C!Result
  <2> QED
    BY <2>1, <2>2, PutGoesOn
<1> QED
  BY <1>1, <1>2, <1>4, <1>5, <1>6, <1>7, <1>8, <1>9 DEF C!Next

-----------------------------------------------------------------------------
LEMMA PostAnswered ==
  ASSUME NEW c \in PostType, NEW at \in {"sent", "done", "failed"}
  PROVE  /\ [c EXCEPT !.at = at] \in PostType
         /\ [c EXCEPT !.at = at].at = at /\ [c EXCEPT !.at = at].to = c.to
         /\ [c EXCEPT !.at = at].filling = c.filling
         /\ [c EXCEPT !.at = at].version = c.version /\ [c EXCEPT !.at = at].tick = c.tick
BY DEF PostType

LEMMA PostReaddressed ==
  ASSUME NEW c \in PostType, NEW to \in {"form", "screen", "nobody"}
  PROVE  /\ [c EXCEPT !.to = to] \in PostType
         /\ [c EXCEPT !.to = to].to = to /\ [c EXCEPT !.to = to].at = c.at
         /\ [c EXCEPT !.to = to].filling = c.filling
         /\ [c EXCEPT !.to = to].version = c.version /\ [c EXCEPT !.to = to].tick = c.tick
BY DEF PostType

LEMMA PostParts ==
  ASSUME NEW c \in PostType
  PROVE  /\ c.filling \in Nat /\ c.version \in Nat
         /\ c.tick \in [filling : Nat, version : Nat]
         /\ c.at \in {"sent", "done", "failed"} /\ c.to \in {"form", "screen", "nobody"}
BY DEF PostType

LEMMA CreateInit == N!Init => CreateInv
<1> SUFFICES ASSUME N!Init PROVE CreateInv
  OBVIOUS
<1>1. N!Unticked \in [filling : Nat, version : Nat]
  BY DEF N!Unticked
<1> QED
  BY <1>1 DEF N!Init, CreateInv

\* What the calls that stay are may be weaker than CreateInv says they are: their
\* addressee is changed when the form is closed.
LEMMA FormIsClosed ==
  ASSUME CreateInv, NEW to \in {"form", "screen", "nobody"},
         posts' = N!Readdressed(to), open' = FALSE,
         UNCHANGED <<creator, filling, filled, tick, text, version, records, lost, reread>>
  PROVE  CreateInv'
<1> DEFINE T(c) == IF c.to = "form" \/ to = "nobody" THEN to ELSE c.to
           N1(c) == [c EXCEPT !.to = T(c)]
<1>1. posts' = {N1(c) : c \in posts}
  BY DEF N!Readdressed
<1> HIDE DEF T, N1
<1>2. ASSUME NEW c \in posts
      PROVE  /\ N1(c) \in PostType /\ N1(c).filling = c.filling /\ N1(c).at = c.at
             /\ N1(c).tick = c.tick /\ N1(c).version = c.version
  <2>1. c \in PostType
    BY DEF CreateInv
  <2>2. PICK t \in {"form", "screen", "nobody"} : t = T(c)
    BY <2>1, PostParts DEF T
  <2>3. N1(c) = [c EXCEPT !.to = t]
    BY <2>2 DEF N1
  <2>4. /\ [c EXCEPT !.to = t] \in PostType /\ [c EXCEPT !.to = t].at = c.at
        /\ [c EXCEPT !.to = t].filling = c.filling
        /\ [c EXCEPT !.to = t].version = c.version /\ [c EXCEPT !.to = t].tick = c.tick
    BY <2>1, PostReaddressed
  <2> QED
    BY <2>3, <2>4
<1> USE DEF CreateInv
<1>3. \A c \in posts' : \E b \in posts : c = N1(b)
  BY <1>1
<1>4. posts' \subseteq PostType
  BY <1>2, <1>3
<1>5. \A c \in posts' : c.filling <= filling /\ ItsOwn(c)'
  BY <1>2, <1>3 DEF ItsOwn
<1>6. \A c, d \in posts' : c.filling = d.filling => c = d
  BY <1>2, <1>3
<1>7. ~lost => \A c \in posts', r \in records : r.filling = c.filling => c.at = "done"
  BY <1>2, <1>3
<1>8. \A r \in records : ItsOwn(r)'
  BY DEF ItsOwn
<1> QED
  BY <1>4, <1>5, <1>6, <1>7, <1>8

\* The form becomes empty: what was filled in last is of an earlier filling.
LEMMA FormIsEmptied ==
  ASSUME CreateInv, posts' \subseteq posts, N!Emptied, open' \in BOOLEAN,
         UNCHANGED <<creator, text, version, records, lost, reread>>
  PROVE  CreateInv'
<1> USE DEF CreateInv
<1>1. filling' = filling + 1 /\ tick' = N!Unticked
  BY DEF N!Emptied
<1>2. N!Unticked \in [filling : Nat, version : Nat] /\ N!Unticked' = N!Unticked
  BY DEF N!Unticked
<1>3. \A c \in posts : c.filling \in Nat
  BY PostParts
<1>4. \A c \in posts' : c.filling <= filling /\ c.filling # filling' /\ ItsOwn(c)'
  BY <1>1, <1>3 DEF ItsOwn
<1>5. \A r \in records : r.filling \in 0 .. filling' /\ r.filling # filling' /\ ItsOwn(r)'
  BY <1>1 DEF ItsOwn
<1>6. \A c \in posts' : c.filling <= filling'
  BY <1>1, <1>3
<1> QED
  BY <1>1, <1>2, <1>4, <1>5, <1>6

\* A call is answered, or its answer is of no use any more.
LEMMA PostIsRefused ==
  ASSUME CreateInv, NEW c \in posts, c.at = "sent",
         posts' = (posts \ {c}) \cup {[c EXCEPT !.at = "failed"]},
         UNCHANGED <<creator, open, filling, tick, text, version, records, lost, reread>>
  PROVE  CreateInv'
<1> USE DEF CreateInv
<1> DEFINE d == [c EXCEPT !.at = "failed"]
<1>1. d \in PostType /\ d.filling = c.filling /\ d.tick = c.tick
      /\ d.version = c.version /\ d.to = c.to
  BY PostAnswered
<1> HIDE DEF d
<1>2. posts' = (posts \ {c}) \cup {d}
  BY DEF d
<1>3. \A x \in posts' : x.filling <= filling /\ ItsOwn(x)'
  BY <1>1, <1>2 DEF ItsOwn
<1>4. \A r \in records : ItsOwn(r)'
  BY DEF ItsOwn
<1>5. ~lost => \A r \in records : r.filling # c.filling
  OBVIOUS
<1>6. ~lost => \A x \in posts', r \in records : r.filling = x.filling => x.at = "done"
  BY <1>1, <1>2, <1>5
<1>7. \A x, y \in posts' : x.filling = y.filling => x = y
  BY <1>1, <1>2
<1>8. open => \A x \in posts' : x.filling = filling => x.to = "form"
  BY <1>1, <1>2
<1>9. ~lost /\ open => \A r \in records : r.filling = filling =>
                         \E x \in posts' : x.filling = filling
  BY <1>1, <1>2
<1> QED
  BY <1>1, <1>2, <1>3, <1>4, <1>6, <1>7, <1>8, <1>9

\* Something is created, and the answer comes or is lost.
LEMMA PostCreates ==
  ASSUME CreateInv, NEW c \in posts, c.at = "sent", NEW at \in {"done", "failed"}, NEW n,
         N!Accepted(c), lost' = (lost \/ at = "failed"),
         posts' = (posts \ {c}) \cup {[c EXCEPT !.at = at]},
         records' = records \cup
           {[n |-> n, filling |-> c.filling, tick |-> c.tick, version |-> c.version]},
         UNCHANGED <<creator, open, filling, tick, text, version, reread>>
  PROVE  CreateInv'
<1> DEFINE d == [c EXCEPT !.at = at]
           q == [n |-> n, filling |-> c.filling, tick |-> c.tick, version |-> c.version]
<1>0. c \in PostType /\ at \in {"sent", "done", "failed"}
  BY DEF CreateInv
<1>1. /\ d \in PostType /\ d.filling = c.filling /\ d.tick = c.tick /\ d.at = at
      /\ d.version = c.version /\ d.to = c.to
  BY <1>0, PostAnswered
<1> USE DEF CreateInv
<1>2. q.filling = c.filling /\ q.tick = c.tick /\ q.version = c.version
  OBVIOUS
<1>3. c.filling \in 0 .. filling
  BY PostParts
<1> HIDE DEF d, q
<1>4. posts' = (posts \ {c}) \cup {d} /\ records' = records \cup {q}
  BY DEF d, q
<1>5. \A x \in posts' : x.filling <= filling /\ ItsOwn(x)'
  BY <1>1, <1>4 DEF ItsOwn
<1>6. \A r \in records' : r.filling \in 0 .. filling /\ ItsOwn(r)'
  BY <1>2, <1>3, <1>4 DEF ItsOwn
<1>7. ~lost => \A r \in records : r.filling # c.filling
  OBVIOUS
<1>8. ~lost' => at = "done" /\ ~lost
  OBVIOUS
<1>9. \A x, y \in posts' : x.filling = y.filling => x = y
  BY <1>1, <1>4
<1>10. ~lost' => \A x \in posts', r \in records' : r.filling = x.filling => x.at = "done"
  <2> SUFFICES ASSUME ~lost', NEW x \in posts', NEW r \in records', r.filling = x.filling
               PROVE  x.at = "done"
    OBVIOUS
  <2>1. CASE x = d
    BY <1>1, <1>8, <2>1
  <2>2. CASE x # d
    <3>1. x \in posts /\ x # c
      BY <1>4, <2>2
    <3>2. r \in records
      BY <1>2, <1>4, <3>1
    <3> QED
      BY <1>8, <3>1, <3>2
  <2> QED
    BY <2>1, <2>2
<1>11. open => \A x \in posts' : x.filling = filling => x.to = "form"
  BY <1>1, <1>4
<1>12. ~lost' /\ open => \A r \in records' : r.filling = filling =>
                           \E x \in posts' : x.filling = filling
  BY <1>1, <1>2, <1>4, <1>8
<1>13. ~lost' => \A r, s \in records' : r.filling = s.filling => r = s
  BY <1>2, <1>4, <1>7, <1>8
<1>14. lost' \in BOOLEAN
  OBVIOUS
<1> QED
  BY <1>1, <1>4, <1>5, <1>6, <1>9, <1>10, <1>11, <1>12, <1>13, <1>14

\* The answer comes to nobody, or is a failure.
LEMMA PostIsForgotten ==
  ASSUME CreateInv, NEW c \in posts, c.at # "sent",
         c.at = "failed" \/ c.to = "nobody" \/ ~open, posts' = posts \ {c},
         UNCHANGED <<creator, open, filling, tick, text, version, records, lost, reread>>
  PROVE  CreateInv'
<1> USE DEF CreateInv
<1>1. ~lost /\ open => \A r \in records : r.filling = filling =>
                         \E x \in posts' : x.filling = filling
  <2> SUFFICES ASSUME ~lost, open, NEW r \in records, r.filling = filling
               PROVE  \E x \in posts' : x.filling = filling
    OBVIOUS
  <2>1. PICK x \in posts : x.filling = filling
    OBVIOUS
  <2>2. x.at = "done" /\ x.to = "form"
    BY <2>1
  <2>3. x # c
    BY <2>2
  <2> QED
    BY <2>1, <2>3
<1>2. \A x \in posts : ItsOwn(x)'
  BY DEF ItsOwn
<1>3. \A r \in records : ItsOwn(r)'
  BY DEF ItsOwn
<1> QED
  BY <1>1, <1>2, <1>3

LEMMA PostStep ==
  ASSUME CreateInv, NEW c \in posts, N!Create(c) \/ N!Refuse(c) \/ N!Result(c)
  PROVE  CreateInv'
<1>1. CASE N!Create(c)
  <2>1. PICK at \in {"done", "failed"} :
          /\ posts' = (posts \ {c}) \cup {[c EXCEPT !.at = at]}
          /\ lost' = (lost \/ at = "failed")
    BY <1>1 DEF N!Create
  <2> QED
    BY <1>1, <2>1, PostCreates DEF N!Create
<1>2. CASE N!Refuse(c)
  BY <1>2, PostIsRefused DEF N!Refuse
<1>3. CASE N!Result(c)
  <2>1. CASE c.at = "failed" \/ c.to = "nobody" \/ ~open
    BY <1>3, <2>1, PostIsForgotten DEF N!Result
  <2>2. CASE ~(c.at = "failed" \/ c.to = "nobody" \/ ~open)
    <3>1. /\ N!Emptied /\ open' \in BOOLEAN /\ posts' \subseteq posts
          /\ UNCHANGED <<creator, text, version, records, lost, reread>>
      BY <1>3, <2>2 DEF N!Result
    <3> QED
      BY <3>1, FormIsEmptied
  <2> QED
    BY <2>1, <2>2
<1> QED
  BY <1>1, <1>2, <1>3

\* The steps that change neither the calls nor what has been created.
LEMMA UserStep ==
  ASSUME CreateInv,
         \/ N!FetchText \/ N!TextAnswer \/ N!NewVersion \/ N!Fill \/ N!Tick
         \/ UNCHANGED createVars
  PROVE  CreateInv'
<1> USE DEF CreateInv
<1>1. UNCHANGED <<creator, open, filling, posts, records, lost>>
  BY DEF N!FetchText, N!TextAnswer, N!NewVersion, N!Fill, N!Tick, createVars
<1>2. reread => reread'
  BY DEF N!FetchText, N!TextAnswer, N!NewVersion, N!Fill, N!Tick, createVars
<1>3. reread' \in BOOLEAN /\ text' \in Nat /\ version' \in Nat
  <2>1. CASE N!TextAnswer
    BY <2>1 DEF N!TextAnswer
  <2>2. CASE N!NewVersion
    BY <2>2 DEF N!NewVersion
  <2>3. CASE ~N!TextAnswer /\ ~N!NewVersion
    BY <2>3 DEF N!FetchText, N!Fill, N!Tick, createVars
  <2> QED
    BY <2>1, <2>2, <2>3
<1>4. \A x : ItsOwn(x) => ItsOwn(x)'
  BY <1>1, <1>2 DEF ItsOwn
<1>5. N!Unticked' = N!Unticked /\ N!Unticked \in [filling : Nat, version : Nat]
  BY DEF N!Unticked
<1>6. /\ tick' \in [filling : Nat, version : Nat]
      /\ tick' # N!Unticked =>
           tick'.filling = filling /\ (reread' \/ tick'.version = text')
  <2>1. CASE N!Tick
    <3> DEFINE new == [filling |-> filling, version |-> text]
    <3>1. new \in [filling : Nat, version : Nat]
          /\ new.filling = filling /\ new.version = text
      OBVIOUS
    <3>2. tick' \in {new, N!Unticked} /\ text' = text
      BY <2>1 DEF N!Tick
    <3> QED
      BY <1>5, <3>1, <3>2
  <2>2. CASE N!TextAnswer
    BY <2>2 DEF N!TextAnswer
  <2>3. CASE ~N!Tick /\ ~N!TextAnswer
    BY <1>2, <2>3 DEF N!FetchText, N!NewVersion, N!Fill, createVars
  <2> QED
    BY <2>1, <2>2, <2>3
<1> QED
  BY <1>1, <1>3, <1>4, <1>5, <1>6

LEMMA SubmitStep == CreateInv /\ N!Submit => CreateInv'
<1> SUFFICES ASSUME CreateInv, N!Submit PROVE CreateInv'
  OBVIOUS
<1> DEFINE d == [filling |-> filling, tick |-> tick, version |-> text, at |-> "sent",
                 to |-> "form"]
<1>1. d \in PostType
  BY DEF CreateInv, PostType
<1>2. d.filling = filling /\ d.tick = tick /\ d.version = text /\ d.at = "sent"
      /\ d.to = "form"
  OBVIOUS
<1>3. /\ posts' = posts \cup {d} /\ open /\ ~N!Busy
      /\ creator \in N!WithConsent => tick # N!Unticked
      /\ UNCHANGED <<creator, open, filling, tick, text, version, records, lost, reread>>
  BY DEF N!Submit, N!Usable
<1> HIDE DEF d
<1> USE DEF CreateInv
<1>4. \A c \in posts : c.filling # filling
  BY <1>3 DEF N!Busy
<1>5. \A x : ItsOwn(x) => ItsOwn(x)'
  BY <1>3 DEF ItsOwn
<1>6. ASSUME NEW x, x = d PROVE ItsOwn(x)'
  BY <1>2, <1>3, <1>6 DEF ItsOwn
<1>7. ~lost => \A r \in records : r.filling # filling
  BY <1>3, <1>4
<1>8. N!Unticked' = N!Unticked
  BY DEF N!Unticked
<1>9. \A c \in posts' : c.filling <= filling /\ ItsOwn(c)'
  BY <1>2, <1>3, <1>5, <1>6
<1>10. ~lost => \A c \in posts', r \in records : r.filling = c.filling => c.at = "done"
  BY <1>2, <1>3, <1>7
<1> QED
  BY <1>1, <1>2, <1>3, <1>4, <1>5, <1>7, <1>8, <1>9, <1>10

LEMMA CreateStep == CreateInv /\ [N!Next]_createVars => CreateInv'
<1> SUFFICES ASSUME CreateInv, [N!Next]_createVars PROVE CreateInv'
  OBVIOUS
<1>1. CASE N!Open
  BY <1>1, FormIsEmptied DEF N!Open
<1>2. CASE N!Cancel \/ N!Leave
  <2>1. PICK to \in {"screen", "nobody"} : posts' = N!Readdressed(to)
    BY <1>2 DEF N!Cancel, N!Leave
  <2> QED
    BY <1>2, <2>1, FormIsClosed DEF N!Cancel, N!Leave
<1> QED
  BY <1>1, <1>2, UserStep, SubmitStep, PostStep DEF N!Next

-----------------------------------------------------------------------------
LEMMA SentFields ==
  ASSUME NEW c \in SentType, NEW at \in {"sent", "done", "failed", "reading"}
  PROVE  /\ [c EXCEPT !.at = at] \in SentType /\ [c EXCEPT !.at = at].at = at
         /\ [c EXCEPT !.at = at].action = c.action
         /\ [c EXCEPT !.at = at].mine = c.mine
BY DEF SentType

LEMMA SentIsDropped ==
  ASSUME NEW c \in SentType, NEW m \in BOOLEAN
  PROVE  /\ [c EXCEPT !.mine = m] \in SentType /\ [c EXCEPT !.mine = m].mine = m
         /\ [c EXCEPT !.mine = m].action = c.action
         /\ [c EXCEPT !.mine = m].at = c.at
BY DEF SentType

LEMMA SentParts ==
  ASSUME NEW c \in SentType
  PROVE  c.action \in Actions /\ c.at \in {"sent", "done", "failed", "reading"}
         /\ c.mine \in BOOLEAN /\ c.kind \in {"right", "wrong", "reject"}
BY DEF SentType

QueueRecord ==
  [shows : {"nothing", "rows", "error"}, loaded : BOOLEAN, data : SUBSET Actions,
   request : {"none", "sent", "read"}, answer : SUBSET Actions]

\* A reading that begins anew changes what has been read, not what is shown.
LEMMA AgainIsSent ==
  ASSUME NEW q \in QueueRecord
  PROVE  /\ P!ReadAgain(q) \in QueueRecord
         /\ P!ReadAgain(q).shows = q.shows /\ P!ReadAgain(q).loaded = q.loaded
         /\ P!ReadAgain(q).data = q.data
         /\ P!ReadAgain(q) = q \/ P!ReadAgain(q).request = "sent"
         /\ q.loaded => P!ReadAgain(q).request = "sent"
BY DEF P!ReadAgain, QueueRecord

LEMMA QueueInit == P!Init => QueueInv
<1> SUFFICES ASSUME P!Init PROVE QueueInv
  OBVIOUS
<1> QED
  BY DEF P!Init, P!Fresh, P!Rows, QueueInv, QueueType, QueueIsRead, RowsWait

LEMMA QueueFacts ==
  ASSUME QueueInv
  PROVE  /\ type \in [Actions -> {"create_user", "disable_user"}]
         /\ status \in [Actions -> {"unborn", "pending", "over"}]
         /\ queue \in QueueRecord /\ sent \subseteq SentType /\ resolved \subseteq Actions
         /\ forgot \in BOOLEAN
         /\ P!Rows \subseteq queue.data /\ queue.data \subseteq Actions
BY DEF QueueInv, QueueType, QueueRecord, P!Rows

\* The rows of these actions stay and no others come; what waited for the queue
\* goes on.  The queue has been read, or its reading has failed.
LEMMA QueueIsShown ==
  ASSUME QueueInv, NEW actions \in SUBSET Actions, P!Shows(actions),
         queue' \in QueueRecord, P!Rows' = actions, queue'.request = "none",
         queue.loaded => queue'.loaded, queue'.shows = "rows" => queue'.loaded,
         \A a \in queue'.data : status[a] # "unborn",
         UNCHANGED <<type, status, resolved>>, forgot' \in BOOLEAN,
         ~forgot' =>
           /\ ~forgot /\ \A a \in actions : a \notin resolved
           /\ \A c \in sent : c.at # "reading" =>
                IF c.mine THEN c.action \in actions \/ status[c.action] = "over"
                          ELSE c.action \notin actions
  PROVE  QueueInv'
<1> DEFINE M(c) == c.mine /\ c.action \in actions
           N1(c) == [c EXCEPT !.mine = M(c)]
           S == {d \in sent : d.at # "reading"}
<1>1. sent' = {N1(c) : c \in S}
  BY DEF P!Shows
<1>2. row' = [a \in Actions |-> IF a \in actions THEN row[a] ELSE P!Fresh]
  BY DEF P!Shows
<1>3. row' \in [Actions -> [code : {"-", "right", "wrong"}, askReject : BOOLEAN]]
  <2>1. row \in [Actions -> [code : {"-", "right", "wrong"}, askReject : BOOLEAN]]
    BY DEF QueueInv, QueueType
  <2>2. P!Fresh \in [code : {"-", "right", "wrong"}, askReject : BOOLEAN]
    BY DEF P!Fresh
  <2> QED
    BY <1>2, <2>1, <2>2
<1> HIDE DEF M, N1, S
<1>4. ASSUME NEW c \in S
      PROVE  /\ c \in sent /\ c.at # "reading" /\ N1(c) \in SentType
             /\ N1(c).action = c.action /\ N1(c).at = c.at
             /\ N1(c).mine = (c.mine /\ c.action \in actions)
  <2>1. c \in sent /\ c \in SentType /\ c.at # "reading"
    BY QueueFacts DEF S
  <2>2. PICK m \in BOOLEAN : m = M(c)
    BY <2>1, SentParts DEF M
  <2>3. N1(c) = [c EXCEPT !.mine = m]
    BY <2>2 DEF N1
  <2>4. /\ [c EXCEPT !.mine = m] \in SentType /\ [c EXCEPT !.mine = m].mine = m
        /\ [c EXCEPT !.mine = m].action = c.action /\ [c EXCEPT !.mine = m].at = c.at
    BY <2>1, SentIsDropped
  <2>5. m = (c.mine /\ c.action \in actions)
    BY <2>2 DEF M
  <2> QED
    BY <2>1, <2>3, <2>4, <2>5
<1>5. \A x \in sent' : \E c \in S : x = N1(c)
  BY <1>1
<1>6. QueueType'
  BY <1>3, <1>4, <1>5, QueueFacts DEF QueueType, QueueRecord
<1>7. sent # {} => queue.loaded
  BY DEF QueueInv, QueueIsRead
<1>8. QueueIsRead'
  <2>1. sent' # {} => sent # {}
    BY <1>4, <1>5
  <2> QED
    BY <1>7, <2>1 DEF QueueIsRead
<1>9. \A x \in sent' : /\ x.at \in {"done", "reading"} => status'[x.action] = "over"
                       /\ x.mine => x.action \in actions
  <2> SUFFICES ASSUME NEW x \in sent'
               PROVE  /\ x.at \in {"done", "reading"} => status'[x.action] = "over"
                      /\ x.mine => x.action \in actions
    OBVIOUS
  <2>1. PICK c \in S : x = N1(c)
    BY <1>5
  <2> QED
    BY <1>4, <2>1 DEF QueueInv
<1>10. ASSUME ~forgot' PROVE RowsWait'
  <2>1. RowsWait
    BY <1>10 DEF QueueInv
  <2>2. \A a \in resolved' : a \notin P!Rows'
    BY <1>10
  <2>3. \A x, y \in sent' : x.action = y.action => x = y
    <3> SUFFICES ASSUME NEW x \in sent', NEW y \in sent', x.action = y.action
                 PROVE  x = y
      OBVIOUS
    <3>1. PICK c \in S : x = N1(c)
      BY <1>5
    <3>2. PICK d \in S : y = N1(d)
      BY <1>5
    <3>3. c.action = d.action /\ c \in sent /\ d \in sent
      BY <1>4, <3>1, <3>2
    <3>4. c = d
      BY <2>1, <3>3 DEF RowsWait
    <3> QED
      BY <3>1, <3>2, <3>4
  <2>4. ASSUME NEW x \in sent', ~x.mine
        PROVE  status'[x.action] = "over" /\ x.action \notin P!Rows'
    <3>1. PICK c \in S : x = N1(c)
      BY <1>5
    <3>2. c \in sent /\ x.action = c.action /\ c.at # "reading"
          /\ ~(c.mine /\ c.action \in actions)
      BY <1>4, <2>4, <3>1
    <3>3. CASE c.mine
      BY <1>10, <3>2, <3>3
    <3>4. CASE ~c.mine
      BY <1>10, <2>1, <3>2, <3>4 DEF RowsWait
    <3> QED
      BY <3>3, <3>4
  <2> QED
    BY <2>2, <2>3, <2>4 DEF RowsWait
<1>11. \A a \in resolved' : status'[a] = "over"
  BY DEF QueueInv
<1> QED
  BY <1>6, <1>8, <1>9, <1>10, <1>11 DEF QueueInv

LEMMA ListStep ==
  ASSUME QueueInv, P!ListArrives \/ P!ListFails
  PROVE  QueueInv'
<1> USE DEF QueueInv
<1>1. CASE P!ListArrives
  <2> DEFINE q == [shows |-> "rows", loaded |-> TRUE, data |-> queue.answer,
                   request |-> "none", answer |-> {}]
             got == queue.answer
  <2>1. /\ queue' = q /\ P!Shows(got) /\ queue.request = "read"
        /\ UNCHANGED <<type, status, resolved, forgot>>
    BY <1>1 DEF P!ListArrives
  <2>2. got \in SUBSET Actions
    BY QueueFacts DEF QueueRecord
  <2>3. q \in QueueRecord /\ q.shows = "rows" /\ q.loaded /\ q.data = got
        /\ q.request = "none"
    BY <2>2 DEF QueueRecord
  <2> HIDE DEF q
  <2>4. queue' \in QueueRecord /\ queue'.shows = "rows" /\ queue'.loaded
        /\ queue'.data = got /\ queue'.request = "none"
    BY <2>1, <2>3
  <2>5. P!Rows' = got
    BY <2>4 DEF P!Rows
  <2>6. /\ \A a \in got : status[a] # "unborn" /\ a \notin resolved
        /\ \A a \in P!Rows \ got : status[a] = "over"
    BY <2>1 DEF QueueIsRead
  <2>7. ASSUME ~forgot, NEW c \in sent, c.at # "reading"
        PROVE  IF c.mine THEN c.action \in got \/ status[c.action] = "over"
                         ELSE c.action \notin got
    BY <2>1, <2>6, <2>7 DEF RowsWait
  <2> HIDE DEF got
  <2>8. forgot' \in BOOLEAN /\ forgot' = forgot /\ UNCHANGED <<type, status, resolved>>
    BY <2>1, QueueFacts
  <2>9. \A a \in queue'.data : status[a] # "unborn"
    BY <2>4, <2>6
  <2>10. ~forgot' =>
           /\ ~forgot /\ \A a \in got : a \notin resolved
           /\ \A c \in sent : c.at # "reading" =>
                IF c.mine THEN c.action \in got \/ status[c.action] = "over"
                          ELSE c.action \notin got
    BY <2>6, <2>7, <2>8
  <2>11. P!Shows(got)
    BY <2>1
  <2> QED
    BY <2>2, <2>4, <2>5, <2>8, <2>9, <2>10, <2>11, QueueIsShown
<1>2. CASE P!ListFails
  <2> DEFINE none == {}
  <2>1. /\ queue' = [queue EXCEPT !.shows = "error", !.request = "none", !.answer = {}]
        /\ P!Shows(none)
        /\ forgot' = (forgot \/ \E c \in sent : c.mine /\ c.at # "reading")
        /\ UNCHANGED <<type, status, resolved>>
    BY <1>2 DEF P!ListFails
  <2>2. queue' \in QueueRecord /\ queue'.shows = "error" /\ queue'.request = "none"
        /\ queue'.data = queue.data /\ queue'.loaded = queue.loaded
    BY <2>1, QueueFacts DEF QueueRecord
  <2>3. P!Rows' = none
    BY <2>2 DEF P!Rows
  <2>4. \A a \in queue'.data : status[a] # "unborn"
    BY <2>2 DEF QueueIsRead
  <2>5. forgot' \in BOOLEAN
    BY <2>1, QueueFacts
  <2>6. ~forgot' =>
           /\ ~forgot /\ \A a \in none : a \notin resolved
           /\ \A c \in sent : c.at # "reading" =>
                IF c.mine THEN c.action \in none \/ status[c.action] = "over"
                          ELSE c.action \notin none
    BY <2>1
  <2>7. none \in SUBSET Actions
    OBVIOUS
  <2> HIDE DEF none
  <2>8. P!Shows(none) /\ UNCHANGED <<type, status, resolved>>
    BY <2>1
  <2>9. (queue.loaded => queue'.loaded) /\ (queue'.shows = "rows" => queue'.loaded)
    BY <2>2
  <2> QED
    BY <2>2, <2>3, <2>4, <2>5, <2>6, <2>7, <2>8, <2>9, QueueIsShown
<1> QED
  BY <1>1, <1>2

\* The queue is read, or read again, and rows and calls stay; an action begins or
\* ends elsewhere.
LEMMA OthersStep ==
  ASSUME QueueInv,
         \/ P!ListPending \/ P!Refetch
         \/ \E a \in Actions : \/ P!RequestUserCreation(a) \/ P!RequestedElsewhere(a)
                               \/ P!ResolvedElsewhere(a)
  PROVE  QueueInv'
<1> DEFINE Kept(q) == /\ q \in QueueRecord /\ q.shows = queue.shows
                      /\ q.loaded = queue.loaded /\ q.data = queue.data
<1>1. Kept(P!ReadAgain(queue))
  BY QueueFacts, AgainIsSent
<1>2. Kept([queue EXCEPT !.request = "read", !.answer = P!PendingIds])
  <2>1. P!PendingIds \subseteq Actions
    BY DEF P!PendingIds
  <2> QED
    BY <2>1, QueueFacts DEF QueueRecord
<1>3. UNCHANGED <<type, sent, resolved, forgot, row>>
  BY DEF P!ListPending, P!Refetch, P!RequestUserCreation, P!RequestedElsewhere,
         P!ResolvedElsewhere
<1>4. Kept(queue')
  BY <1>1, <1>2, QueueFacts DEF P!ListPending, P!Refetch, P!RequestUserCreation,
     P!RequestedElsewhere, P!ResolvedElsewhere
<1>5. P!Rows' = P!Rows
  BY <1>4 DEF P!Rows
<1>6. /\ status' \in [Actions -> {"unborn", "pending", "over"}]
      /\ \A a \in Actions : /\ status[a] # "unborn" => status'[a] # "unborn"
                            /\ status[a] = "over" => status'[a] = "over"
  <2>1. CASE status' = status
    BY <2>1, QueueFacts
  <2>2. ASSUME NEW a \in Actions, P!RequestUserCreation(a) \/ P!RequestedElsewhere(a)
        PROVE  status' = [status EXCEPT ![a] = "pending"] /\ status[a] = "unborn"
    BY <2>2 DEF P!RequestUserCreation, P!RequestedElsewhere
  <2>3. ASSUME NEW a \in Actions, P!ResolvedElsewhere(a)
        PROVE  status' = [status EXCEPT ![a] = "over"]
    BY <2>3 DEF P!ResolvedElsewhere
  <2>4. P!ListPending \/ P!Refetch => status' = status
    BY DEF P!ListPending, P!Refetch
  <2> QED
    BY <2>1, <2>2, <2>3, <2>4, QueueFacts
<1>7. queue'.request = "read" =>
        \/ queue'.answer = queue.answer /\ queue.request = "read"
        \/ queue'.answer = P!PendingIds /\ status' = status
  <2>1. CASE P!ListPending
    BY <2>1, QueueFacts DEF P!ListPending, QueueRecord
  <2>2. CASE ~P!ListPending
    <3>1. queue' = P!ReadAgain(queue) \/ queue' = queue
      BY <2>2 DEF P!Refetch, P!RequestUserCreation, P!RequestedElsewhere,
                  P!ResolvedElsewhere
    <3> QED
      BY <3>1, QueueFacts, AgainIsSent
  <2> QED
    BY <2>1, <2>2
<1> HIDE DEF Kept
<1>8. QueueType'
  <2>1. queue' \in QueueRecord
    BY <1>4 DEF Kept
  <2> QED
    BY <1>3, <1>6, <2>1 DEF QueueInv, QueueType, QueueRecord
<1>9. \A a \in resolved : status[a] = "over" /\ a \in Actions
  BY QueueFacts DEF QueueInv
<1>10. QueueIsRead'
  <2>1. queue'.shows = queue.shows /\ queue'.loaded = queue.loaded
        /\ queue'.data = queue.data
    BY <1>4 DEF Kept
  <2>2. \A a \in queue'.data : status'[a] # "unborn"
    BY <1>6, <2>1, QueueFacts DEF QueueInv, QueueIsRead
  <2>3. ASSUME queue'.request = "read"
        PROVE  /\ \A a \in queue'.answer : status'[a] # "unborn" /\ a \notin resolved'
               /\ \A a \in P!Rows' \ queue'.answer : status'[a] = "over"
    <3>1. CASE queue'.answer = queue.answer /\ queue.request = "read"
      <4>1. queue.answer \subseteq Actions
        BY QueueFacts DEF QueueRecord
      <4> QED
        BY <1>3, <1>5, <1>6, <3>1, <4>1, QueueFacts DEF QueueInv, QueueIsRead
    <3>2. CASE queue'.answer = P!PendingIds /\ status' = status
      <4>1. \A a \in P!Rows : a \in Actions /\ status[a] # "unborn"
        BY QueueFacts DEF QueueInv, QueueIsRead
      <4> QED
        BY <1>3, <1>5, <1>9, <3>2, <4>1, QueueFacts DEF P!PendingIds
    <3> QED
      BY <1>7, <2>3, <3>1, <3>2
  <2> QED
    BY <1>3, <2>1, <2>2, <2>3 DEF QueueInv, QueueIsRead
<1>11. \A c \in sent : c.action \in Actions
  BY QueueFacts, SentParts
<1>12. ASSUME ~forgot' PROVE RowsWait'
  <2>1. RowsWait
    BY <1>3, <1>12 DEF QueueInv
  <2>2. ASSUME NEW c \in sent', ~c.mine, queue'.request = "read"
        PROVE  c.action \notin queue'.answer
    <3>1. c \in sent /\ status[c.action] = "over"
          /\ (queue.request = "read" => c.action \notin queue.answer)
      BY <1>3, <2>1, <2>2 DEF RowsWait
    <3> QED
      BY <1>7, <2>2, <3>1 DEF P!PendingIds
  <2> QED
    BY <1>3, <1>5, <1>6, <1>11, <2>1, <2>2 DEF RowsWait
<1> QED
  BY <1>3, <1>5, <1>6, <1>8, <1>9, <1>10, <1>11, <1>12 DEF QueueInv

RowType == [code : {"-", "right", "wrong"}, askReject : BOOLEAN]

\* What is typed into a row concerns nothing else.
LEMMA RowStep ==
  ASSUME QueueInv, row' \in [Actions -> RowType],
         UNCHANGED <<type, status, queue, sent, resolved, forgot>>
  PROVE  QueueInv'
<1>1. P!Rows' = P!Rows
  BY DEF P!Rows
<1> QED
  BY <1>1 DEF QueueInv, QueueType, QueueIsRead, RowsWait, RowType

LEMMA RowFields ==
  ASSUME QueueInv
  PROVE  /\ row \in [Actions -> RowType] /\ P!Fresh \in RowType
         /\ \A a \in Actions : [row EXCEPT ![a] = P!Fresh] \in [Actions -> RowType]
         /\ \A a \in Actions : \A code1 \in {"-", "right", "wrong"} :
              [row EXCEPT ![a].code = code1] \in [Actions -> RowType]
         /\ \A a \in Actions : \A ask \in BOOLEAN :
              [row EXCEPT ![a].askReject = ask] \in [Actions -> RowType]
<1>1. row \in [Actions -> RowType]
  BY DEF QueueInv, QueueType, RowType
<1>2. P!Fresh \in RowType
  BY DEF P!Fresh, RowType
<1>3. ASSUME NEW a \in Actions, NEW code1 \in {"-", "right", "wrong"}
      PROVE  [row EXCEPT ![a].code = code1] \in [Actions -> RowType]
  BY <1>1 DEF RowType
<1>4. ASSUME NEW a \in Actions, NEW ask \in BOOLEAN
      PROVE  [row EXCEPT ![a].askReject = ask] \in [Actions -> RowType]
  BY <1>1 DEF RowType
<1> QED
  BY <1>1, <1>2, <1>3, <1>4

LEMMA TypedStep ==
  ASSUME QueueInv, NEW a \in Actions, P!EnterCode(a) \/ P!AskReject(a)
  PROVE  QueueInv'
<1>1. CASE P!EnterCode(a)
  <2>1. PICK code1 \in {"right", "wrong"} :
          /\ row' = [row EXCEPT ![a]["code"] = code1]
          /\ UNCHANGED <<type, status, queue, sent, resolved, forgot>>
    BY <1>1 DEF P!EnterCode, P!Set
  <2>2. row' \in [Actions -> RowType]
    BY <2>1, RowFields
  <2> QED
    BY <2>1, <2>2, RowStep
<1>2. CASE P!AskReject(a)
  <2>1. /\ row' = [row EXCEPT ![a]["askReject"] = ~row[a].askReject]
        /\ UNCHANGED <<type, status, queue, sent, resolved, forgot>>
    BY <1>2 DEF P!AskReject, P!Set
  <2>2. (~row[a].askReject) \in BOOLEAN
    OBVIOUS
  <2>3. row' \in [Actions -> RowType]
    BY <2>1, <2>2, RowFields
  <2> QED
    BY <2>1, <2>3, RowStep
<1> QED
  BY <1>1, <1>2

\* A row sends only what it has no call for, and no call without a row is of an
\* action that is still shown.
LEMMA SendStep ==
  ASSUME QueueInv, NEW a \in Actions, P!HandleConfirm(a) \/ P!HandleReject(a)
  PROVE  QueueInv'
<1>1. PICK kind1 \in {"right", "wrong", "reject"} :
        sent' = sent \cup {[action |-> a, kind |-> kind1, at |-> "sent", mine |-> TRUE]}
  <2>1. row[a].code \in {"-", "right", "wrong"}
    BY RowFields DEF RowType
  <2> QED
    BY <2>1 DEF P!HandleConfirm, P!HandleReject, P!Send
<1> DEFINE d == [action |-> a, kind |-> kind1, at |-> "sent", mine |-> TRUE]
<1>2. d \in SentType /\ d.action = a /\ d.at = "sent" /\ d.mine
  BY DEF SentType
<1> HIDE DEF d
<1>3. sent' = sent \cup {d}
  BY <1>1 DEF d
<1>4. /\ a \in P!Rows /\ ~P!Busy(a)
      /\ UNCHANGED <<type, status, queue, row, resolved, forgot>>
  BY DEF P!HandleConfirm, P!HandleReject, P!Send, P!Offered
<1>5. P!Rows' = P!Rows
  BY <1>4 DEF P!Rows
<1>6. QueueType'
  BY <1>2, <1>3, <1>4 DEF QueueInv, QueueType
<1>7. queue.loaded
  BY <1>4 DEF QueueInv, QueueIsRead, P!Rows
<1>8. QueueIsRead'
  BY <1>4, <1>5, <1>7 DEF QueueInv, QueueIsRead
<1>9. ASSUME ~forgot PROVE RowsWait'
  <2>1. RowsWait
    BY <1>9 DEF QueueInv
  <2>2. \A c \in sent : c.action # a
    BY <1>4, <2>1 DEF RowsWait, P!Busy
  <2>3. \A b \in resolved' : b \in P!Rows' =>
          \E c \in sent' : c.action = b /\ c.mine /\ c.at = "reading"
    BY <1>3, <1>4, <1>5, <2>1 DEF RowsWait
  <2>4. \A x, y \in sent' : x.action = y.action => x = y
    BY <1>2, <1>3, <2>1, <2>2 DEF RowsWait
  <2>5. \A c \in sent' : ~c.mine =>
          /\ status'[c.action] = "over" /\ c.action \notin P!Rows'
          /\ queue'.request = "read" => c.action \notin queue'.answer
    BY <1>2, <1>3, <1>4, <1>5, <2>1 DEF RowsWait
  <2> QED
    BY <2>3, <2>4, <2>5 DEF RowsWait
<1>10. \A c \in sent' : /\ c.at \in {"done", "reading"} => status'[c.action] = "over"
                        /\ c.mine => c.action \in P!Rows'
  BY <1>2, <1>3, <1>4, <1>5 DEF QueueInv
<1>11. \A b \in resolved' : status'[b] = "over"
  BY <1>4 DEF QueueInv
<1> QED
  BY <1>4, <1>6, <1>8, <1>9, <1>10, <1>11 DEF QueueInv

\* A call goes on, or ends: what it was stands where it is, as its row does.
LEMMA SentGoesOn ==
  ASSUME QueueInv, NEW c \in sent, NEW at \in {"sent", "done", "failed", "reading"},
         c.at # "reading", at = "failed" \/ status'[c.action] = "over",
         sent' \subseteq (sent \ {c}) \cup {[c EXCEPT !.at = at]}, sent \ {c} \subseteq sent',
         status' \in [Actions -> {"unborn", "pending", "over"}],
         \A a \in Actions : /\ status[a] # "unborn" => status'[a] # "unborn"
                            /\ status[a] = "over" => status'[a] = "over",
         queue' \in QueueRecord,
         queue'.shows = queue.shows, queue'.loaded = queue.loaded,
         queue'.data = queue.data, queue' = queue \/ queue'.request = "sent",
         row' \in [Actions -> RowType], UNCHANGED <<type, forgot>>,
         \/ resolved' = resolved
         \/ /\ resolved' = resolved \cup {c.action} /\ at = "reading"
            /\ status'[c.action] = "over" /\ queue'.request = "sent"
            /\ [c EXCEPT !.at = at] \in sent'
  PROVE  QueueInv'
<1> DEFINE d == [c EXCEPT !.at = at]
<1>1. c \in SentType
  BY QueueFacts
<1>2. d \in SentType /\ d.at = at /\ d.action = c.action /\ d.mine = c.mine
  BY <1>1, SentFields
<1> HIDE DEF d
<1>3. sent' \subseteq (sent \ {c}) \cup {d} /\ sent \ {c} \subseteq sent'
      /\ (resolved' = resolved \/ d \in sent')
  BY DEF d
<1>4. P!Rows' = P!Rows
  BY DEF P!Rows
<1>5. c.action \in Actions
  BY <1>1, SentParts
<1>6. \A x \in sent : x.action \in Actions
  BY QueueFacts, SentParts
<1>7. \A a \in resolved : a \in Actions /\ status[a] = "over"
  BY QueueFacts DEF QueueInv
<1>8. QueueType'
  BY <1>2, <1>3, <1>5, QueueFacts DEF QueueType, QueueRecord, RowType
<1>9. QueueIsRead'
  <2>1. queue'.shows = "rows" \/ sent' # {} => queue'.loaded
    BY DEF QueueInv, QueueIsRead
  <2>2. \A a \in queue'.data : status'[a] # "unborn"
    BY QueueFacts DEF QueueInv, QueueIsRead
  <2>3. ASSUME queue'.request = "read"
        PROVE  /\ \A a \in queue'.answer : status'[a] # "unborn" /\ a \notin resolved'
               /\ \A a \in P!Rows' \ queue'.answer : status'[a] = "over"
    <3>1. queue' = queue /\ resolved' = resolved
      BY <2>3
    <3>2. queue.answer \subseteq Actions
      BY QueueFacts DEF QueueRecord
    <3> QED
      BY <1>4, <2>3, <3>1, <3>2, QueueFacts DEF QueueInv, QueueIsRead
  <2> QED
    BY <2>1, <2>2, <2>3 DEF QueueIsRead
<1>10. ASSUME ~forgot' PROVE RowsWait'
  <2>1. RowsWait
    BY <1>10 DEF QueueInv
  <2>2. \A x, y \in sent' : x.action = y.action => x = y
    BY <1>2, <1>3, <2>1 DEF RowsWait
  <2>3. ASSUME NEW x \in sent', ~x.mine
        PROVE  /\ status'[x.action] = "over" /\ x.action \notin P!Rows'
               /\ queue'.request = "read" => x.action \notin queue'.answer
    <3>1. PICK y \in sent : x.action = y.action /\ x.mine = y.mine
      BY <1>2, <1>3
    <3>2. /\ status[y.action] = "over" /\ y.action \notin P!Rows
          /\ queue.request = "read" => y.action \notin queue.answer
      BY <2>1, <2>3, <3>1 DEF RowsWait
    <3> QED
      BY <1>4, <1>6, <3>1, <3>2
  <2>4. ASSUME NEW a \in resolved', a \in P!Rows'
        PROVE  \E x \in sent' : x.action = a /\ x.mine /\ x.at = "reading"
    <3>1. CASE a \in resolved
      <4>1. PICK x \in sent : x.action = a /\ x.mine /\ x.at = "reading"
        BY <1>4, <2>1, <2>4, <3>1 DEF RowsWait
      <4>2. x \in sent'
        BY <1>3, <4>1
      <4> QED
        BY <4>1, <4>2
    <3>2. CASE a \notin resolved
      <4>1. a = c.action /\ at = "reading" /\ d \in sent'
        BY <1>3, <2>4, <3>2
      <4>2. c.mine
        BY <1>4, <2>1, <2>4, <4>1 DEF RowsWait
      <4> QED
        BY <1>2, <4>1, <4>2
    <3> QED
      BY <3>1, <3>2
  <2> QED
    BY <2>2, <2>3, <2>4 DEF RowsWait
<1>11. \A x \in sent' : /\ x.at \in {"done", "reading"} => status'[x.action] = "over"
                        /\ x.mine => x.action \in P!Rows'
  <2>1. at \in {"done", "reading"} => status'[c.action] = "over"
    OBVIOUS
  <2> QED
    BY <1>2, <1>3, <1>4, <1>6, <2>1 DEF QueueInv
<1>12. \A a \in resolved' : status'[a] = "over"
  BY <1>7
<1> QED
  BY <1>8, <1>9, <1>10, <1>11, <1>12 DEF QueueInv

LEMMA CallStep ==
  ASSUME QueueInv, NEW c \in sent, P!Carry(c) \/ P!Done(c) \/ P!Failed(c)
  PROVE  QueueInv'
<1>1. c \in SentType /\ c.action \in Actions
  BY QueueFacts, SentParts
<1>2. queue \in QueueRecord /\ queue.loaded
      /\ status \in [Actions -> {"unborn", "pending", "over"}]
      /\ row \in [Actions -> RowType]
  BY QueueFacts, RowFields DEF QueueInv, QueueIsRead
<1>3. CASE P!Carry(c)
  <2> DEFINE taken == status[c.action] = "pending" /\ c.kind # "wrong"
  <2>1. PICK at \in {"done", "failed"} :
          /\ sent' = (sent \ {c}) \cup {[c EXCEPT !.at = at]}
          /\ at = "failed" \/ taken
    BY <1>3 DEF P!Carry
  <2>2. /\ c.at = "sent"
        /\ status' = IF taken THEN [status EXCEPT ![c.action] = "over"] ELSE status
        /\ UNCHANGED <<type, queue, row, resolved, forgot>>
    BY <1>3 DEF P!Carry
  <2>3. /\ status' \in [Actions -> {"unborn", "pending", "over"}]
        /\ taken => status'[c.action] = "over"
        /\ \A a \in Actions : /\ status[a] # "unborn" => status'[a] # "unborn"
                              /\ status[a] = "over" => status'[a] = "over"
    BY <1>1, <1>2, <2>2
  <2> HIDE DEF taken
  <2>4. at = "failed" \/ status'[c.action] = "over"
    BY <2>1, <2>3
  <2>5. sent' \subseteq (sent \ {c}) \cup {[c EXCEPT !.at = at]} /\ sent \ {c} \subseteq sent'
    BY <2>1
  <2> QED
    BY <1>2, <2>2, <2>3, <2>4, <2>5, SentGoesOn
<1>4. CASE P!Done(c)
  <2> DEFINE at == "reading"
  <2>1. /\ c.at = "done" /\ queue' = P!ReadAgain(queue)
        /\ sent' = (sent \ {c}) \cup {[c EXCEPT !.at = at]}
        /\ resolved' = resolved \cup {c.action}
        /\ row' = IF c.mine THEN [row EXCEPT ![c.action] = P!Fresh] ELSE row
        /\ UNCHANGED <<type, status, forgot>>
    BY <1>4 DEF P!Done
  <2>2. status[c.action] = "over"
    BY <2>1 DEF QueueInv
  <2>3. /\ queue' \in QueueRecord /\ queue'.shows = queue.shows
        /\ queue'.loaded = queue.loaded /\ queue'.data = queue.data
        /\ queue'.request = "sent"
    BY <1>2, <2>1, AgainIsSent
  <2>4. row' \in [Actions -> RowType]
    BY <1>1, <2>1, RowFields
  <2>5. at \in {"sent", "done", "failed", "reading"} /\ at = "reading"
    OBVIOUS
  <2> HIDE DEF at
  <2>6. /\ sent' \subseteq (sent \ {c}) \cup {[c EXCEPT !.at = at]} /\ sent \ {c} \subseteq sent'
        /\ [c EXCEPT !.at = at] \in sent'
    BY <2>1
  <2>7. status' = status /\ status'[c.action] = "over"
    BY <2>1, <2>2
  <2> QED
    BY <1>2, <2>1, <2>3, <2>4, <2>5, <2>6, <2>7, SentGoesOn
<1>5. CASE P!Failed(c)
  <2>1. /\ c.at = "failed" /\ sent' = sent \ {c}
        /\ UNCHANGED <<type, status, queue, resolved, forgot>>
        /\ row' = IF c.mine /\ c.kind # "reject"
                    THEN [row EXCEPT ![c.action].code = "-"] ELSE row
    BY <1>5 DEF P!Failed
  <2>2. row' \in [Actions -> RowType]
    BY <1>1, <2>1, RowFields
  <2>3. sent' \subseteq (sent \ {c}) \cup {[c EXCEPT !.at = "failed"]}
        /\ sent \ {c} \subseteq sent'
    BY <2>1
  <2> QED
    BY <1>2, <2>1, <2>2, <2>3, SentGoesOn
<1> QED
  BY <1>3, <1>4, <1>5

LEMMA QueueStep == QueueInv /\ [P!Next]_queueVars => QueueInv'
<1> SUFFICES ASSUME QueueInv, [P!Next]_queueVars PROVE QueueInv'
  OBVIOUS
<1>1. CASE UNCHANGED queueVars
  <2>1. row' \in [Actions -> RowType]
    BY <1>1, RowFields DEF queueVars
  <2> QED
    BY <1>1, <2>1, RowStep DEF queueVars
<1>2. CASE P!Next
  <2>1. \/ P!ListArrives \/ P!ListFails
        \/ P!ListPending \/ P!Refetch
           \/ \E a \in Actions : \/ P!RequestUserCreation(a) \/ P!RequestedElsewhere(a)
                                 \/ P!ResolvedElsewhere(a)
        \/ \E a \in Actions : P!EnterCode(a) \/ P!AskReject(a)
        \/ \E a \in Actions : P!HandleConfirm(a) \/ P!HandleReject(a)
        \/ \E c \in sent : P!Carry(c) \/ P!Done(c) \/ P!Failed(c)
    BY <1>2 DEF P!Next
  <2> QED
    BY <2>1, ListStep, OthersStep, TypedStep, SendStep, CallStep
<1> QED
  BY <1>1, <1>2

-----------------------------------------------------------------------------
LEMMA FormsAre ==
  /\ F!Forms = {"contractFile", "attachment", "settings", "createTransaction",
                "editTransaction", "email", "login", "deposit", "payrollConfirm"}
  /\ F!Uploads = {"contractFile", "attachment"}
  /\ Patient = F!Forms \ {"settings", "email"}
  /\ Shown = {"contractFile", "attachment", "createTransaction", "editTransaction"}
BY DEF F!Forms, F!Uploads, F!WithFields, F!NoData, Patient, Shown

\* What can be clicked tells how far the form is.
LEMMA ControlFacts ==
  ASSUME form \in F!Forms
  PROVE  /\ F!Controls.submit => F!Waiting /\ ~F!Pending
         /\ F!Controls.ask /\ form \in Patient => phase = "idle"
         /\ F!Controls.ask => form # "settings"
         /\ F!Controls.cancel => ~F!Pending \/ (form \in Patient /\ phase = "idle")
         /\ F!Controls.cancel /\ form \in Patient => phase # "requesting" \/ ~F!Asking
         /\ F!Controls.fields /\ form \in F!Uploads => draft = NoDraft
         /\ F!Controls.fields /\ form \in {"createTransaction", "editTransaction"} =>
              ~F!Waiting /\ ~F!Asking /\ ~F!Pending
         /\ F!Controls.fields /\ form = "email" => ~F!Pending
<1> USE FormsAre DEF F!GaveUp, F!Waiting, F!Submitting
<1>1. CASE form = "deposit"
  <2>1. F!Controls = F!DepositConfirm
    BY <1>1 DEF F!Controls
  <2> QED
    BY <1>1, <2>1 DEF F!DepositConfirm
<1>2. CASE form = "payrollConfirm"
  <2>1. F!Controls = F!PayrollEntryConfirm
    BY <1>2 DEF F!Controls
  <2> QED
    BY <1>2, <2>1 DEF F!PayrollEntryConfirm
<1>3. CASE form = "contractFile"
  <2>1. F!Controls = F!ContractFile
    BY <1>3 DEF F!Controls
  <2> QED
    BY <1>3, <2>1 DEF F!ContractFile
<1>4. CASE form = "attachment"
  <2>1. F!Controls = F!TransactionAttachment
    BY <1>4 DEF F!Controls
  <2> QED
    BY <1>4, <2>1 DEF F!TransactionAttachment
<1>5. CASE form = "settings"
  <2>1. F!Controls = F!PayrollSettingsForm
    BY <1>5 DEF F!Controls
  <2> QED
    BY <1>5, <2>1 DEF F!PayrollSettingsForm
<1>6. CASE form = "createTransaction"
  <2>1. F!Controls = F!CreateTransactionForm
    BY <1>6 DEF F!Controls
  <2> QED
    BY <1>6, <2>1 DEF F!CreateTransactionForm
<1>7. CASE form = "editTransaction"
  <2>1. F!Controls = F!EditTransactionForm
    BY <1>7 DEF F!Controls
  <2> QED
    BY <1>7, <2>1 DEF F!EditTransactionForm
<1>8. CASE form = "email"
  <2>1. F!Controls = F!ChangeEmailFlow
    BY <1>8 DEF F!Controls
  <2> QED
    BY <1>8, <2>1 DEF F!ChangeEmailFlow
<1>9. CASE form = "login"
  <2>1. F!Controls = F!LoginForm
    BY <1>9 DEF F!Controls
  <2> QED
    BY <1>9, <2>1 DEF F!LoginForm
<1> QED
  BY <1>1, <1>2, <1>3, <1>4, <1>5, <1>6, <1>7, <1>8, <1>9

LEMMA AskFields ==
  ASSUME NEW a \in AskType
  PROVE  /\ a.n \in Nat /\ a.for \in Draft /\ a.challenge \in Nat /\ a.mine \in BOOLEAN
         /\ [a EXCEPT !.mine = FALSE] \in AskType /\ ~[a EXCEPT !.mine = FALSE].mine
         /\ \A at \in {"sent", "issued", "refused"} :
              [a EXCEPT !.at = at] \in AskType
BY DEF AskType

LEMMA CallFields ==
  ASSUME NEW c \in CallType, NEW at \in {"sent", "done", "failed"}
  PROVE  /\ c.value \in Draft /\ c.mine \in BOOLEAN /\ c.challenge \in Nat
         /\ [c EXCEPT !.at = at] \in CallType /\ [c EXCEPT !.at = at].value = c.value
         /\ [c EXCEPT !.at = at].challenge = c.challenge
         /\ [c EXCEPT !.at = at].mine = c.mine
         /\ [c EXCEPT !.mine = FALSE] \in CallType /\ ~[c EXCEPT !.mine = FALSE].mine
         /\ [c EXCEPT !.mine = FALSE].value = c.value
         /\ [c EXCEPT !.mine = FALSE].challenge = c.challenge
BY DEF CallType

LEMMA FormInit == F!Init => FormInv
<1> SUFFICES ASSUME F!Init PROVE FormInv
  OBVIOUS
<1>1. NoDraft \in Draft
  BY DEF Draft
<1> USE DEF F!Init
<1>2. step \in {"closed", "open"}
  OBVIOUS
<1>3. FormType
  <2>1. issued = << >>
    OBVIOUS
  <2>2. issued \in Seq([ask : Nat, for : Draft]) /\ Len(issued) = 0
    BY <2>1
  <2>3. live \in 0 .. Len(issued)
    BY <2>2
  <2>4. /\ phase = "idle" /\ failed = FALSE /\ held = 0 /\ asked = 0 /\ draft = NoDraft
        /\ next = NoDraft /\ asks = {} /\ calls = {} /\ form \in F!Forms
    OBVIOUS
  <2> QED
    BY ONLY <1>1, <1>2, <2>2, <2>3, <2>4 DEF FormType
<1>4. form \in F!Uploads => step = "closed"
  BY FormsAre DEF F!StartsOpen
<1>5. AsksAreKept /\ CallsAreKept
  BY DEF AsksAreKept, CallsAreKept
<1>6. F!PerformedAsShown
  BY DEF F!PerformedAsShown
<1> QED
  BY <1>2, <1>3, <1>4, <1>5, <1>6 DEF FormInv

\* The form is closed: nothing that is on the way will reach it.
LEMMA FormCloses ==
  ASSUME FormInv, F!Close, asks' \subseteq AskType, calls' \subseteq CallType,
         form \in Patient => \A a \in asks' : ~a.mine,
         \A c \in calls' : ~c.mine /\ \E y \in calls :
                             y.challenge = c.challenge /\ y.value = c.value,
         UNCHANGED <<form, asked, issued, live, performed>>
  PROVE  FormInv'
<1>1. /\ step' = (IF F!StartsOpen THEN "open" ELSE "closed")
      /\ draft' = NoDraft /\ next' = NoDraft
      /\ phase' = "idle" /\ failed' = FALSE /\ held' = 0
  BY DEF F!Close, F!ResetHook
<1>2. step' \in {"closed", "open"} /\ (form \in F!Uploads => step' = "closed")
  BY <1>1, FormsAre DEF F!StartsOpen
<1>3. FormType'
  BY <1>1, <1>2 DEF FormInv, FormType, Draft
<1>4. form' \in Patient => AsksAreKept'
  BY DEF AsksAreKept
<1>5. CallsAreKept'
  BY DEF CallsAreKept, FormInv
<1>6. F!PerformedAsShown'
  BY <1>2 DEF F!PerformedAsShown, FormInv
<1> QED
  BY <1>1, <1>2, <1>3, <1>4, <1>5, <1>6 DEF FormInv

\* A code is asked for; the form has been idle.
LEMMA FormAsks ==
  ASSUME FormInv, F!RequestCode, draft' \in Draft, step' = "open",
         form \in Patient => phase = "idle", step # "new-code",
         form = "email" /\ draft' # draft => ~F!Pending,
         form \in F!Uploads => draft' # NoDraft,
         UNCHANGED <<form, next, calls, issued, live, performed>>
  PROVE  FormInv'
<1> DEFINE a == [n |-> asked + 1, for |-> draft', challenge |-> 0, at |-> "sent",
                 mine |-> TRUE]
<1>1. a \in AskType /\ a.n = asked + 1 /\ a.for = draft' /\ a.at = "sent"
  BY DEF AskType, FormInv, FormType
<1>2. /\ asks' = asks \cup {a} /\ asked' = asked + 1
      /\ phase' = "requesting" /\ failed' = FALSE /\ held' = held
  BY DEF F!RequestCode
<1> HIDE DEF a
<1>3. FormType'
  <2>1. FormType
    BY DEF FormInv
  <2>2. asks' \subseteq AskType /\ asked' \in Nat /\ held' \in Nat
    BY <1>1, <1>2, <2>1 DEF FormType
  <2> QED
    BY <1>2, <2>1, <2>2 DEF FormType
<1>4. ASSUME form \in Patient PROVE AsksAreKept'
  <2>1. \A b \in asks : ~b.mine
    BY <1>4 DEF FormInv, AsksAreKept
  <2> QED
    BY <1>1, <1>2, <2>1 DEF AsksAreKept
<1>5. CallsAreKept'
  <2>1. form \in Patient => \A c \in calls : ~c.mine
    BY DEF FormInv, CallsAreKept
  <2>2. CallsAreKept
    BY DEF FormInv
  <2>3. ASSUME NEW c \in calls, c.mine
        PROVE  form \notin Patient /\ (form = "email" => draft' = draft)
    BY <2>1, <2>3 DEF F!Pending
  <2>4. ASSUME NEW c \in calls, c.mine, form = "email" PROVE c.value = draft'
    BY <2>2, <2>3, <2>4 DEF CallsAreKept
  <2> QED
    BY <2>2, <2>3, <2>4 DEF CallsAreKept
<1>6. F!PerformedAsShown'
  BY DEF F!PerformedAsShown, FormInv
<1> QED
  BY <1>2, <1>3, <1>4, <1>5, <1>6 DEF FormInv

\* Only the draft or the screen changes, and where it is the thing that is done
\* nothing is on the way for it.
LEMMA DraftChanges ==
  ASSUME FormInv, draft' \in Draft,
         step' = step \/ (step = "closed" /\ step' = "open"),
         form \in F!Uploads => step' = step /\ draft' = draft,
         draft' # draft => /\ step \in {"closed", "open"}
                           /\ form = "email" => ~F!Pending
                           /\ form \in Shown => ~F!Waiting /\ ~F!Asking,
         UNCHANGED <<form, phase, failed, held, next, asks, calls, asked, issued, live,
                     performed>>
  PROVE  FormInv'
<1>1. FormType'
  BY DEF FormInv, FormType
<1>2. ASSUME form \in Patient PROVE AsksAreKept'
  <2>1. AsksAreKept
    BY <1>2 DEF FormInv
  <2>2. ASSUME NEW a \in asks, a.mine, form \in Shown PROVE draft' = draft
    BY <2>2 DEF F!Asking
  <2>3. \A n \in Nat, d \in Draft, k \in Nat : IssuedFor(k, n, d) => IssuedFor(k, n, d)'
    BY DEF IssuedFor
  <2>4. \A a \in asks : a.challenge \in Nat /\ a.n \in Nat /\ a.for \in Draft
    BY AskFields DEF FormInv, FormType
  <2> QED
    BY <2>1, <2>2, <2>3, <2>4 DEF AsksAreKept
<1>3. CallsAreKept'
  <2>1. CallsAreKept
    BY DEF FormInv
  <2>2. ASSUME NEW c \in calls, c.mine
        PROVE  /\ step' = step /\ (form = "email" => draft' = draft)
    BY <2>1, <2>2 DEF F!Pending, CallsAreKept
  <2> QED
    BY <2>1, <2>2 DEF CallsAreKept
<1>4. F!PerformedAsShown'
  BY DEF F!PerformedAsShown, FormInv
<1>5. ASSUME form \in Patient, phase = "awaiting-code" PROVE IssuedFor(held, asked, draft)'
  BY <1>5 DEF FormInv, IssuedFor, F!Waiting
<1>6. form # "email" => step' \in {"closed", "open"}
  BY DEF FormInv
<1> QED
  BY <1>1, <1>2, <1>3, <1>4, <1>5, <1>6 DEF FormInv

\* A protected call is sent with what is on the screen.
LEMMA CallIsSent ==
  ASSUME FormInv, NEW k \in Nat, NEW code1 \in Nat, NEW value \in Draft, ~F!Pending,
         step \in {"open", "new-code"}, form \in Patient => phase = "awaiting-code",
         form = "email" /\ step = "open" => value = draft,
         form \in Shown => value = draft /\ k = held,
         calls' = calls \cup
           {[challenge |-> k, code |-> code1, value |-> value, at |-> "sent", mine |-> TRUE]},
         UNCHANGED <<form, step, phase, failed, held, draft, next, asks, asked, issued,
                     live, performed>>
  PROVE  FormInv'
<1> DEFINE c == [challenge |-> k, code |-> code1, value |-> value, at |-> "sent",
                 mine |-> TRUE]
<1>1. c \in CallType /\ c.challenge = k /\ c.value = value /\ c.mine
  BY DEF CallType
<1> HIDE DEF c
<1>2. calls' = calls \cup {c}
  BY DEF c
<1>3. FormType'
  BY <1>1, <1>2 DEF FormInv, FormType
<1>4. form \in Patient => AsksAreKept'
  BY DEF FormInv, AsksAreKept, IssuedFor
<1>5. form \in Shown => k \in 1 .. Len(issued) /\ issued[k].for = value
  BY FormsAre DEF FormInv, IssuedFor
<1>6. CallsAreKept'
  BY <1>1, <1>2, <1>5 DEF FormInv, CallsAreKept, F!Pending
<1>7. F!PerformedAsShown'
  BY DEF F!PerformedAsShown, FormInv
<1> QED
  BY <1>3, <1>4, <1>6, <1>7 DEF FormInv, IssuedFor

\* The answer to a request for a code reaches the form.
LEMMA AnswerStep ==
  ASSUME FormInv, NEW a \in asks, F!Answer(a)
  PROVE  FormInv'
<1>1. /\ a.mine /\ a.at # "sent" /\ asks' = asks \ {a}
      /\ UNCHANGED <<form, step, draft, next, calls, asked, issued, live, performed>>
      /\ \/ a.at = "issued" /\ phase' = "awaiting-code" /\ held' = a.challenge
            /\ failed' = failed
         \/ phase' = "idle" /\ failed' = TRUE /\ held' = held
  BY DEF F!Answer
<1>2. a \in AskType
  BY DEF FormInv, FormType
<1>3. held' \in Nat /\ failed' \in BOOLEAN /\ phase' \in {"idle", "requesting", "awaiting-code"}
  BY <1>1, <1>2, AskFields DEF FormInv, FormType
<1>4. FormType'
  BY <1>1, <1>3 DEF FormInv, FormType
<1>5. ASSUME form \in Patient
      PROVE  /\ phase = "requesting" /\ a.n = asked
             /\ form \in Shown => a.for = draft
             /\ a.at = "issued" => IssuedFor(a.challenge, a.n, a.for)
             /\ \A b \in asks : b.mine => b = a
  BY <1>1, <1>5 DEF FormInv, AsksAreKept
<1>6. form \in Patient => AsksAreKept'
  BY <1>1, <1>5 DEF AsksAreKept
<1>7. form \in Patient => step # "closed" /\ \A c \in calls : ~c.mine
  BY <1>5 DEF FormInv, CallsAreKept
<1>8. CallsAreKept'
  BY <1>1, <1>7 DEF FormInv, CallsAreKept
<1>9. F!PerformedAsShown'
  BY <1>1 DEF F!PerformedAsShown, FormInv
<1>10. form \in Patient /\ phase' = "awaiting-code" => IssuedFor(held, asked, draft)'
  BY <1>1, <1>5 DEF IssuedFor
<1> QED
  BY <1>1, <1>4, <1>6, <1>7, <1>8, <1>9, <1>10 DEF FormInv

\* The server's answer to a request for a code is on its way, with the challenge
\* that has been issued for it if there is one.
LEMMA IssueAsks ==
  ASSUME FormInv, NEW a \in asks, NEW r, a.at = "sent",
         asks' = F!Answered(a, r), r \in AskType, r.n = a.n, r.for = a.for, r.mine = a.mine,
         r.at = "issued" => r.challenge \in 1 .. Len(issued') /\ issued'[r.challenge].ask = a.n
                            /\ issued'[r.challenge].for = a.for,
         issued' \in Seq([ask : Nat, for : Draft]), Len(issued) <= Len(issued'),
         \A k \in 1 .. Len(issued) : issued'[k] = issued[k],
         live' \in 0 .. Len(issued'),
         UNCHANGED <<form, step, phase, failed, held, draft, next, calls, asked, performed>>
  PROVE  FormInv'
<1>1. asks' \subseteq (asks \ {a}) \cup {r} /\ (r \in asks' => a.mine \/ r \in asks)
  BY DEF F!Answered
<1>2. FormType'
  BY <1>1 DEF FormInv, FormType
<1>3. Len(issued) \in Nat /\ Len(issued') \in Nat
  BY DEF FormInv, FormType
<1>4. \A k \in Nat, n \in Nat, d \in Draft : IssuedFor(k, n, d) => IssuedFor(k, n, d)'
  BY <1>3 DEF IssuedFor
<1>5. \A b \in asks : b.n \in Nat /\ b.for \in Draft /\ b.challenge \in Nat
  BY AskFields DEF FormInv, FormType
<1>6. ASSUME form \in Patient PROVE AsksAreKept'
  <2>1. AsksAreKept
    BY <1>6 DEF FormInv
  <2>2. ASSUME NEW b \in asks', b.mine, b # r
        PROVE  b \in asks /\ b # a
    BY <1>1, <2>2
  <2>3. ASSUME NEW b \in asks', b.mine
        PROVE  /\ phase' = "requesting" /\ b.n = asked'
               /\ form' \in Shown => b.for = draft'
               /\ b.at = "issued" => IssuedFor(b.challenge, b.n, b.for)'
    <3>1. CASE b = r
      <4>1. a.mine
        BY <2>3, <3>1
      <4>2. phase = "requesting" /\ a.n = asked /\ (form \in Shown => a.for = draft)
        BY <2>1, <4>1 DEF AsksAreKept
      <4>3. b.at = "issued" => IssuedFor(b.challenge, b.n, b.for)'
        BY <3>1 DEF IssuedFor
      <4> QED
        BY <3>1, <4>2, <4>3
    <3>2. CASE b # r
      BY <1>4, <1>5, <2>1, <2>2, <2>3, <3>2 DEF AsksAreKept
    <3> QED
      BY <3>1, <3>2
  <2>4. ASSUME NEW b \in asks', NEW d \in asks', b.mine, d.mine PROVE d = b
    <3>1. \A x \in asks' : x.mine => (x = r /\ a.mine) \/ (x \in asks /\ x # a)
      BY <1>1
    <3>2. \A x, y \in asks : x.mine /\ y.mine => x = y
      BY <2>1 DEF AsksAreKept
    <3> QED
      BY <2>4, <3>1, <3>2
  <2> QED
    BY <2>3, <2>4 DEF AsksAreKept
<1>7. CallsAreKept'
  <2>1. CallsAreKept
    BY DEF FormInv
  <2>2. \A c \in calls : c.challenge \in Nat
    BY CallFields DEF FormInv, FormType
  <2> QED
    BY <1>3, <2>1, <2>2 DEF CallsAreKept
<1>8. F!PerformedAsShown'
  BY DEF F!PerformedAsShown, FormInv
<1>9. form \in Patient /\ phase = "awaiting-code" => IssuedFor(held, asked, draft)'
  BY <1>4 DEF FormInv, FormType
<1> QED
  BY <1>2, <1>6, <1>7, <1>8, <1>9 DEF FormInv

LEMMA ChallengeStep ==
  ASSUME FormInv, NEW a \in asks, F!Issue(a) \/ F!Refuse(a)
  PROVE  FormInv'
<1>1. a \in AskType /\ issued \in Seq([ask : Nat, for : Draft]) /\ Len(issued) \in Nat
      /\ live \in 0 .. Len(issued)
  BY DEF FormInv, FormType
<1>2. CASE F!Issue(a)
  <2> DEFINE i == [ask |-> a.n, for |-> a.for]
  <2>1. i \in [ask : Nat, for : Draft] /\ i.ask = a.n /\ i.for = a.for
    BY <1>1, AskFields
  <2> HIDE DEF i
  <2>2. issued' = Append(issued, i) /\ live' = Len(issued') /\ a.at = "sent"
    BY <1>2 DEF F!Issue, i
  <2>3. /\ issued' \in Seq([ask : Nat, for : Draft]) /\ Len(issued') = Len(issued) + 1
        /\ \A k \in 1 .. Len(issued) : issued'[k] = issued[k]
        /\ issued'[Len(issued')] = i
    BY <1>1, <2>1, <2>2
  <2>4. PICK at \in {"issued", "refused"} :
          asks' = F!Answered(a, [a EXCEPT !.at = at, !.challenge = Len(issued')])
    BY <1>2 DEF F!Issue
  <2>5. PICK k \in Nat : k = Len(issued')
    BY <1>1, <2>3
  <2> DEFINE r == [a EXCEPT !.at = at, !.challenge = k]
  <2>6. /\ r \in AskType /\ r.n = a.n /\ r.for = a.for /\ r.mine = a.mine
        /\ r.challenge = k
    BY <1>1 DEF AskType
  <2> HIDE DEF r
  <2>7. asks' = F!Answered(a, r)
    BY <2>4, <2>5 DEF r
  <2>8. k \in 1 .. Len(issued') /\ issued'[k].ask = a.n /\ issued'[k].for = a.for
    BY <1>1, <2>1, <2>3, <2>5
  <2>9. Len(issued) <= Len(issued') /\ live' \in 0 .. Len(issued')
    BY <1>1, <2>2, <2>3
  <2>10. UNCHANGED <<form, step, phase, failed, held, draft, next, calls, asked, performed>>
    BY <1>2 DEF F!Issue, F!hook
  <2> QED
    BY <2>2, <2>3, <2>6, <2>7, <2>8, <2>9, <2>10, IssueAsks
<1>3. CASE F!Refuse(a)
  <2> DEFINE r == [a EXCEPT !.at = "refused"]
  <2>1. /\ r \in AskType /\ r.n = a.n /\ r.for = a.for /\ r.mine = a.mine
        /\ r.at = "refused"
    BY <1>1 DEF AskType
  <2> HIDE DEF r
  <2>2. asks' = F!Answered(a, r) /\ a.at = "sent"
    BY <1>3 DEF F!Refuse, r
  <2>3. /\ UNCHANGED <<form, step, phase, failed, held, draft, next, calls, asked, performed>>
        /\ issued' = issued /\ live' = live
    BY <1>3 DEF F!Refuse, F!hook
  <2>4. /\ issued' \in Seq([ask : Nat, for : Draft]) /\ Len(issued) <= Len(issued')
        /\ live' \in 0 .. Len(issued')
        /\ \A k \in 1 .. Len(issued) : issued'[k] = issued[k]
    BY <1>1, <2>3
  <2> QED
    BY <2>1, <2>2, <2>3, <2>4, IssueAsks
<1> QED
  BY <1>2, <1>3

\* A call is answered; what has been done under its code is what was shown.
LEMMA CallIsAnswered ==
  ASSUME FormInv, NEW c \in calls, NEW at \in {"sent", "done", "failed"},
         calls' = (calls \ {c}) \cup (IF c.mine THEN {[c EXCEPT !.at = at]} ELSE {}),
         live' \in 0 .. Len(issued),
         \/ performed' = performed
         \/ \E p : /\ performed' = performed \cup {p}
                   /\ form \in Shown => p.value = p.for,
         UNCHANGED <<form, step, phase, failed, held, draft, next, asks, asked, issued>>
  PROVE  FormInv'
<1> DEFINE d == [c EXCEPT !.at = at]
<1>1. c \in CallType
  BY DEF FormInv, FormType
<1>2. d \in CallType /\ d.value = c.value /\ d.challenge = c.challenge /\ d.mine = c.mine
  BY <1>1, CallFields
<1> HIDE DEF d
<1>3. calls' \subseteq (calls \ {c}) \cup {d}
  BY DEF d
<1>4. FormType'
  BY <1>2, <1>3 DEF FormInv, FormType
<1>5. form \in Patient => AsksAreKept'
  BY DEF FormInv, AsksAreKept, IssuedFor
<1>6. CallsAreKept'
  <2>1. CallsAreKept
    BY DEF FormInv
  <2>2. \A x \in calls' : \E y \in calls :
          /\ x.challenge = y.challenge /\ x.value = y.value /\ x.mine = y.mine
          /\ (x = y /\ x # c) \/ (x = d /\ y = c)
    BY <1>2, <1>3
  <2>3. \A x, y \in calls' : x.mine /\ y.mine => x = y
    BY <2>1, <2>2 DEF CallsAreKept
  <2> QED
    BY <2>1, <2>2, <2>3 DEF CallsAreKept
<1>7. F!PerformedAsShown'
  BY FormsAre DEF F!PerformedAsShown, FormInv
<1> QED
  BY <1>4, <1>5, <1>6, <1>7 DEF FormInv, IssuedFor

LEMMA PerformStep ==
  ASSUME FormInv, NEW c \in calls,
         F!Perform(c) \/ F!PerformNewCode(c) \/ F!Decline(c)
  PROVE  FormInv'
<1>1. PICK at \in {"done", "failed"} :
        calls' = (calls \ {c}) \cup (IF c.mine THEN {[c EXCEPT !.at = at]} ELSE {})
  BY DEF F!Perform, F!PerformNewCode, F!Decline, F!CallEnded
<1>2. UNCHANGED <<form, step, phase, failed, held, draft, next, asks, asked, issued>>
  BY DEF F!Perform, F!PerformNewCode, F!Decline, F!hook
<1>3. live \in 0 .. Len(issued) /\ Len(issued) \in Nat
  BY DEF FormInv, FormType
<1>4. live' \in 0 .. Len(issued)
  BY <1>3 DEF F!Perform, F!PerformNewCode, F!Decline
<1>5. CASE performed' = performed
  BY <1>1, <1>2, <1>4, <1>5, CallIsAnswered
<1>6. CASE F!Perform(c)
  <2> DEFINE p == [for |-> issued[live].for, value |-> c.value]
  <2>1. p.for = issued[live].for /\ p.value = c.value
    OBVIOUS
  <2> HIDE DEF p
  <2>2. performed' = performed \cup {p} /\ c.challenge # 0 /\ c.challenge = live
    BY <1>6 DEF F!Perform, p
  <2>3. form \in Shown => p.value = p.for
    BY <2>1, <2>2 DEF FormInv, CallsAreKept
  <2> QED
    BY <1>1, <1>2, <1>4, <2>2, <2>3, CallIsAnswered
<1>7. F!PerformNewCode(c) \/ F!Decline(c) => performed' = performed
  BY DEF F!PerformNewCode, F!Decline
<1> QED
  BY <1>5, <1>6, <1>7

\* The answer of a protected call.
LEMMA ResultStep ==
  ASSUME FormInv, NEW c \in calls, F!Result(c)
  PROVE  FormInv'
<1>1. /\ c.mine /\ c.at # "sent" /\ calls' = calls \ {c}
      /\ UNCHANGED <<form, asks, asked, issued, live, performed>>
  BY DEF F!Result
<1>2. c \in CallType /\ c.at \in {"done", "failed"} /\ c.value \in Draft
  BY <1>1, CallFields DEF FormInv, FormType, CallType
<1>3. /\ step \in {"open", "new-code"}
      /\ form \in Patient => phase = "awaiting-code"
      /\ form = "email" /\ step = "open" => c.value = draft
      /\ \A d \in calls : d.mine => d = c
  BY <1>1 DEF FormInv, CallsAreKept
<1>4. CASE c.at = "done" /\ form # "email"
  <2>1. F!Close
    BY <1>4 DEF F!Result
  <2>2. asks' \subseteq AskType /\ calls' \subseteq CallType
    BY <1>1 DEF FormInv, FormType
  <2>3. form \in Patient => \A a \in asks' : ~a.mine
    BY <1>1, <1>3 DEF FormInv, AsksAreKept
  <2>4. \A x \in calls' : ~x.mine /\ \E y \in calls :
                             y.challenge = x.challenge /\ y.value = x.value
    BY <1>1, <1>3
  <2> QED
    BY <1>1, <2>1, <2>2, <2>3, <2>4, FormCloses
<1>5. CASE c.at = "failed" \/ form = "email"
  <2>1. \/ step' = step /\ next' = next
        \/ form = "email" /\ step = "open" /\ step' = "new-code" /\ next' = c.value
        \/ form = "email" /\ step' = "done" /\ next' = next
    BY <1>2, <1>3, <1>5 DEF F!Result
  <2>2. UNCHANGED <<draft, phase, failed, held>>
    BY <1>2, <1>3, <1>5 DEF F!Result, F!hook
  <2>3. FormType'
    BY <1>1, <1>2, <2>1, <2>2 DEF FormInv, FormType
  <2>4. form \in Patient => AsksAreKept'
    BY <1>1, <2>2 DEF FormInv, AsksAreKept, IssuedFor
  <2>5. CallsAreKept'
    BY <1>1, <1>3, <2>1, <2>2 DEF FormInv, CallsAreKept
  <2>6. F!PerformedAsShown'
    BY <1>1, <1>3, <2>1, <2>2 DEF FormInv, F!PerformedAsShown
  <2>7. /\ form # "email" => step' = step
        /\ form \in F!Uploads => form # "email"
    BY <2>1, FormsAre
  <2> QED
    BY <1>1, <2>1, <2>2, <2>3, <2>4, <2>5, <2>6, <2>7, FormsAre DEF FormInv, IssuedFor
<1> QED
  BY <1>2, <1>4, <1>5

LEMMA ClosingStep ==
  ASSUME FormInv, F!Cancel \/ F!LeaveNewCode \/ F!Leave
  PROVE  FormInv'
<1>1. form \in F!Forms /\ asks \subseteq AskType /\ calls \subseteq CallType
      /\ step \in {"closed", "open", "new-code", "done"}
  BY DEF FormInv, FormType
<1>2. F!Close /\ UNCHANGED <<form, asked, issued, live, performed>>
  BY DEF F!Cancel, F!LeaveNewCode, F!Leave
<1>3. form \in Patient => \A a \in asks : a.mine => phase = "requesting" /\ F!Asking
  BY DEF FormInv, AsksAreKept, F!Asking
<1>4. \A c \in calls : c.mine => /\ F!Pending /\ step \in {"open", "new-code"}
                                 /\ form \in Patient => phase = "awaiting-code"
  BY DEF FormInv, CallsAreKept, F!Pending
<1>5. CASE F!Cancel
  <2>1. asks' = asks /\ calls' = calls /\ F!Controls.cancel
    BY <1>5 DEF F!Cancel
  <2>2. /\ form \in Patient => \A a \in asks : ~a.mine
        /\ \A c \in calls : ~c.mine
    BY <1>1, <1>3, <1>4, <2>1, ControlFacts
  <2> QED
    BY <1>1, <1>2, <2>1, <2>2, FormCloses
<1>6. CASE F!LeaveNewCode
  <2>1. asks' = asks /\ calls' = calls /\ (step = "done" \/ (step = "new-code" /\ ~F!Pending))
    BY <1>6 DEF F!LeaveNewCode
  <2>2. form \notin Patient /\ \A c \in calls : ~c.mine
    BY <1>4, <2>1, FormsAre DEF FormInv
  <2> QED
    BY <1>1, <1>2, <2>1, <2>2, FormCloses
<1>7. CASE F!Leave
  <2>1. asks' = F!Orphans(asks) /\ calls' = F!Orphans(calls)
    BY <1>7 DEF F!Leave
  <2>2. \A a \in asks' : \E b \in asks : a = [b EXCEPT !.mine = FALSE]
    BY <2>1 DEF F!Orphans
  <2>3. asks' \subseteq AskType /\ \A a \in asks' : ~a.mine
    BY <1>1, <2>2, AskFields
  <2>4. \A c \in calls' : \E y \in calls : c = [y EXCEPT !.mine = FALSE]
    BY <2>1 DEF F!Orphans
  <2>5. ASSUME NEW c \in calls'
        PROVE  c \in CallType /\ ~c.mine /\ \E y \in calls :
                 y.challenge = c.challenge /\ y.value = c.value
    <3>1. PICK y \in calls : c = [y EXCEPT !.mine = FALSE]
      BY <2>4
    <3>2. y \in CallType
      BY <1>1
    <3>3. /\ [y EXCEPT !.mine = FALSE] \in CallType /\ ~[y EXCEPT !.mine = FALSE].mine
          /\ [y EXCEPT !.mine = FALSE].value = y.value
          /\ [y EXCEPT !.mine = FALSE].challenge = y.challenge
      BY <3>2 DEF CallType
    <3> QED
      BY <3>1, <3>3
  <2> QED
    BY <1>2, <2>3, <2>5, FormCloses
<1> QED
  BY <1>5, <1>6, <1>7

LEMMA OpeningStep ==
  ASSUME FormInv,
         F!Open \/ F!Ask \/ \E d \in Drafts : F!Choose(d) \/ F!Type(d)
  PROVE  FormInv'
<1>1. form \in F!Forms /\ draft \in Draft /\ step \in {"closed", "open", "new-code", "done"}
      /\ NoDraft \in Draft /\ Drafts \subseteq Draft
  BY DEF FormInv, FormType, Draft
<1>2. form # "email" => step \in {"closed", "open"}
  BY DEF FormInv
<1>3. form \in Patient /\ step = "closed" => phase = "idle"
  BY DEF FormInv
<1>4. step = "closed" => ~F!Pending
  BY DEF FormInv, CallsAreKept, F!Pending
<1>5. CASE F!Open
  <2>1. /\ step = "closed" /\ form \notin F!Uploads /\ step' = "open"
        /\ draft' \in Draft
        /\ UNCHANGED <<form, next, calls, issued, live, performed>>
    BY <1>1, <1>5 DEF F!Open
  <2>2. CASE form = "createTransaction"
    <3>1. UNCHANGED <<phase, failed, held, asks, asked>>
      BY <1>5, <2>2 DEF F!Open, F!hook
    <3>2. form \in Patient /\ form \notin F!Uploads
      BY <2>1, <2>2, FormsAre
    <3>3. phase = "idle" /\ ~F!Waiting /\ ~F!Asking
      BY <1>3, <2>1, <3>2 DEF FormInv, AsksAreKept, F!Waiting, F!Asking
    <3> QED
      BY <2>1, <2>2, <3>1, <3>2, <3>3, DraftChanges
  <2>3. CASE form # "createTransaction"
    <3>1. F!RequestCode
      BY <1>5, <2>3 DEF F!Open
    <3> QED
      BY <1>3, <1>4, <2>1, <3>1, FormAsks
  <2> QED
    BY <2>2, <2>3
<1>6. CASE F!Ask
  <2>1. /\ step = "open" /\ F!Controls.ask /\ draft' = draft /\ F!RequestCode
        /\ UNCHANGED <<form, step, next, calls, issued, live, performed>>
    BY <1>6 DEF F!Ask
  <2>2. form \in Patient => phase = "idle"
    BY <1>1, <2>1, ControlFacts
  <2>3. form \in F!Uploads => draft' # NoDraft
    BY <2>1 DEF FormInv
  <2> QED
    BY <1>1, <2>1, <2>2, <2>3, FormAsks
<1>7. ASSUME NEW d \in Drafts, F!Choose(d) PROVE FormInv'
  <2>1. /\ form \in F!Uploads /\ F!Controls.fields /\ draft' = d /\ step' = "open"
        /\ F!RequestCode
        /\ UNCHANGED <<form, next, calls, issued, live, performed>>
    BY <1>7 DEF F!Choose
  <2>2. draft = NoDraft
    BY <1>1, <2>1, ControlFacts
  <2>3. form \in Patient /\ form # "email" /\ step = "closed"
    BY <1>2, <2>1, <2>2, FormsAre DEF FormInv
  <2>4. draft' \in Draft /\ draft' # NoDraft
    BY <1>1, <2>1, EndsAssumption
  <2> QED
    BY <1>3, <2>1, <2>3, <2>4, FormAsks
<1>8. ASSUME NEW d \in Drafts, F!Type(d) PROVE FormInv'
  <2>1. /\ form \in F!WithFields /\ step = "open" /\ F!Controls.fields /\ draft' = d
        /\ UNCHANGED <<form, step, phase, failed, held, next, asks, calls, asked, issued,
                       live, performed>>
    BY <1>8 DEF F!Type, F!hook
  <2>2. form \notin F!Uploads
    BY <2>1 DEF F!WithFields, F!Uploads
  <2>3. form = "email" => ~F!Pending
    BY <1>1, <2>1, ControlFacts
  <2>4. form \in Shown => ~F!Waiting /\ ~F!Asking
    BY <1>1, <2>1, <2>2, ControlFacts, FormsAre
  <2>5. draft' \in Draft /\ step' = step
    BY <1>1, <2>1
  <2> QED
    BY <2>1, <2>2, <2>3, <2>4, <2>5, DraftChanges
<1> QED
  BY <1>5, <1>6, <1>7, <1>8

LEMMA FormStep == FormInv /\ [F!Next]_codeVars => FormInv'
<1> SUFFICES ASSUME FormInv, [F!Next]_codeVars PROVE FormInv'
  OBVIOUS
<1>1. form \in F!Forms /\ held \in Nat /\ draft \in Draft /\ next \in Draft
      /\ Len(issued) \in Nat
  BY DEF FormInv, FormType
<1>2. CASE UNCHANGED codeVars \/ F!Block
  <2>1. UNCHANGED <<form, step, draft, phase, failed, held, next, asks, calls, asked,
                    issued, live, performed>>
    BY <1>2 DEF codeVars, F!Block, F!hook
  <2> QED
    BY <1>1, <2>1, DraftChanges
<1>3. ASSUME NEW code1 \in 1 .. Len(issued), F!Submit(code1) PROVE FormInv'
  <2>1. /\ step = "open" /\ F!Controls.submit
        /\ calls' = calls \cup {[challenge |-> held, code |-> code1, value |-> draft,
                                 at |-> "sent", mine |-> TRUE]}
        /\ UNCHANGED <<form, step, phase, failed, held, draft, next, asks, asked, issued,
                       live, performed>>
    BY <1>3 DEF F!Submit, F!hook
  <2>2. ~F!Pending /\ phase = "awaiting-code"
    BY <1>1, <2>1, ControlFacts DEF F!Waiting
  <2>3. code1 \in Nat
    BY <1>1
  <2> QED
    BY <1>1, <2>1, <2>2, <2>3, CallIsSent
<1>4. CASE F!SubmitNewCode
  <2>1. /\ step = "new-code" /\ ~F!Pending
        /\ calls' = calls \cup {[challenge |-> 0, code |-> 0, value |-> next,
                                 at |-> "sent", mine |-> TRUE]}
        /\ UNCHANGED <<form, step, phase, failed, held, draft, next, asks, asked, issued,
                       live, performed>>
    BY <1>4 DEF F!SubmitNewCode, F!hook
  <2>2. form = "email" /\ form \notin Patient /\ form \notin Shown
    BY <2>1, FormsAre DEF FormInv
  <2>3. PICK k \in Nat : k = 0
    OBVIOUS
  <2> QED
    BY <1>1, <2>1, <2>2, <2>3, CallIsSent
<1> QED
  BY <1>2, <1>3, <1>4, OpeningStep, ClosingStep, AnswerStep, ChallengeStep, PerformStep,
     ResultStep DEF F!Next

-----------------------------------------------------------------------------
(***************************************************************************)
(* The lists.  Until a row leaves a filter, what a filter finds only       *)
(* grows, so that a page that was promised when it was turned has rows     *)
(* when it is read, however much later.                                    *)
(***************************************************************************)

\* L!Matching, of any count of the rows.
Matches(counts, filter) ==
  {r \in L!RowKinds \X (1 .. MaxRows) :
     /\ r[2] <= counts[r[1]]
     /\ filter.status \in {r[1][1], All}
     /\ filter.search \in {r[1][2], All}}

Many(counts, filter) == Cardinality(Matches(counts, filter))

\* What has been answered to a page at some time.
TrueAnswer(counts, filter, from, answer) ==
  /\ answer.total \in Nat /\ answer.items \in Nat
  /\ answer.total <= Many(counts, filter)
  /\ answer.items < PageSize => from + answer.items >= answer.total
  /\ from > 0 => answer.items > 0

PagesAreTrue ==
  /\ offset > 0 => Many(rows, applied) > offset
  /\ \A k \in DOMAIN known : TrueAnswer(rows, k[1], k[2], known[k])
  /\ request.at = "read" => TrueAnswer(rows, applied, offset, request)

ListInv ==
  /\ rows \in [L!RowKinds -> Nat]
  /\ offset \in Nat
  /\ \A k \in DOMAIN known : k[2] \in Nat
  /\ gone \in BOOLEAN
  /\ ~gone => PagesAreTrue

LEMMA RowsAreFinite ==
  ASSUME NEW counts, NEW filter
  PROVE  IsFiniteSet(Matches(counts, filter)) /\ Many(counts, filter) \in Nat
<1>1. IsFiniteSet(Statuses \cup {All}) /\ IsFiniteSet(Searches \cup {All})
  BY EndsAssumption, FS_Union, FS_Singleton
<1>2. IsFiniteSet(L!RowKinds)
  BY <1>1, FS_Product DEF L!RowKinds
<1>3. IsFiniteSet(1 .. MaxRows)
  BY EndsAssumption, FS_Interval
<1>4. IsFiniteSet(L!RowKinds \X (1 .. MaxRows))
  BY <1>2, <1>3, FS_Product
<1>5. IsFiniteSet(Matches(counts, filter))
  BY <1>4, FS_Subset DEF Matches
<1> QED
  BY <1>5, FS_CardinalityType DEF Many

LEMMA MatchingIsMany ==
  ASSUME NEW filter
  PROVE  L!Matching(filter) = Many(rows, filter)
<1>1. L!RowsOf(filter) = Matches(rows, filter)
  BY DEF L!RowsOf, Matches
<1> QED
  BY <1>1 DEF L!Matching, Many, L!Cardinality, Cardinality

LEMMA MoreRowsMatchMore ==
  ASSUME NEW old \in [L!RowKinds -> Nat], NEW new \in [L!RowKinds -> Nat],
         \A k \in L!RowKinds : old[k] <= new[k],
         NEW filter
  PROVE  Many(old, filter) <= Many(new, filter)
<1>1. Matches(old, filter) \subseteq Matches(new, filter)
  <2> SUFFICES ASSUME NEW r \in Matches(old, filter)
               PROVE  r \in Matches(new, filter)
    OBVIOUS
  <2>1. r \in L!RowKinds \X (1 .. MaxRows) /\ r[2] <= old[r[1]]
    BY DEF Matches
  <2>2. r[1] \in L!RowKinds /\ r[2] \in Int /\ old[r[1]] \in Nat /\ new[r[1]] \in Nat
    BY <2>1
  <2>3. r[2] <= new[r[1]]
    BY <2>1, <2>2
  <2> QED
    BY <2>1, <2>3 DEF Matches
<1> QED
  BY <1>1, RowsAreFinite, FS_Subset DEF Many

LEMMA AnswerStaysTrue ==
  ASSUME NEW old \in [L!RowKinds -> Nat], NEW new \in [L!RowKinds -> Nat],
         \A k \in L!RowKinds : old[k] <= new[k],
         NEW filter, NEW from, NEW answer, TrueAnswer(old, filter, from, answer)
  PROVE  TrueAnswer(new, filter, from, answer)
<1>1. Many(old, filter) <= Many(new, filter)
  BY MoreRowsMatchMore
<1>2. Many(old, filter) \in Nat /\ Many(new, filter) \in Nat
  BY RowsAreFinite
<1> QED
  BY <1>1, <1>2 DEF TrueAnswer

LEMMA OfTwo ==
  ASSUME NEW a \in Int, NEW b \in Int
  PROVE  /\ L!Max({a, b}) = IF a >= b THEN a ELSE b
         /\ L!Min({a, b}) = IF a <= b THEN a ELSE b
<1>1. L!Max({a, b}) = IF a >= b THEN a ELSE b
  BY DEF L!Max
<1>2. L!Min({a, b}) = IF a <= b THEN a ELSE b
  BY DEF L!Min
<1> QED
  BY <1>1, <1>2

LEMMA ListInit == L!Init => ListInv
<1> SUFFICES ASSUME L!Init PROVE ListInv
  OBVIOUS
<1>1. rows \in [L!RowKinds -> Nat]
  BY DEF L!Init
<1>2. offset = 0 /\ DOMAIN known = {} /\ gone = FALSE /\ request.at # "read"
  BY DEF L!Init, L!Sent
<1>3. ~(offset > 0)
  BY <1>2
<1>4. PagesAreTrue
  BY <1>2, <1>3, Zenon DEF PagesAreTrue
<1>5. offset \in Nat /\ gone \in BOOLEAN
  BY <1>2
<1>6. \A k \in DOMAIN known : k[2] \in Nat
  BY <1>2, Zenon
<1> QED
  BY <1>1, <1>4, <1>5, <1>6, Zenon DEF ListInv

\* Another page is looked at, of the same rows.
LEMMA LookAtStep ==
  ASSUME ListInv, NEW filter, NEW from \in Nat, L!LookAt(filter, from),
         UNCHANGED <<rows, known, gone>>,
         ~gone /\ from > 0 => Many(rows, filter) > from
  PROVE  ListInv'
<1>1. applied' = filter /\ offset' = from
  BY DEF L!LookAt
<1>2. CASE <<filter, from>> = L!Key
  <2>1. UNCHANGED <<applied, offset, request>>
    BY <1>1, <1>2 DEF L!LookAt, L!Key
  <2> QED
    BY <2>1 DEF ListInv, PagesAreTrue, TrueAnswer, Many, Matches
<1>3. CASE <<filter, from>> # L!Key
  <2>1. request'.at # "read"
    BY <1>3 DEF L!LookAt, L!Sent, L!Nothing
  <2>2. ~gone => PagesAreTrue'
    <3> SUFFICES ASSUME ~gone PROVE PagesAreTrue'
      OBVIOUS
    <3>1. offset' > 0 => Many(rows', applied') > offset'
      BY <1>1
    <3>2. \A k \in DOMAIN known' : TrueAnswer(rows', k[1], k[2], known'[k])
      BY DEF ListInv, PagesAreTrue
    <3> QED
      BY <2>1, <3>1, <3>2 DEF PagesAreTrue
  <2> QED
    BY <1>1, <2>2 DEF ListInv
<1> QED
  BY <1>2, <1>3

LEMMA ReadStep == ListInv /\ L!Read => ListInv'
<1> SUFFICES ASSUME ListInv, L!Read PROVE ListInv'
  OBVIOUS
<1> DEFINE m == Many(rows, applied)
           items == L!Max({0, L!Min({PageSize, m - offset})})
<1>1. UNCHANGED <<rows, applied, offset, known, gone>>
  BY DEF L!Read
<1>2. request' = [at |-> "read", total |-> m, items |-> items]
  BY MatchingIsMany DEF L!Read
<1>3. m \in Nat /\ offset \in Nat /\ PageSize \in Nat \ {0}
  BY RowsAreFinite, EndsAssumption DEF ListInv
<1>4. items = IF PageSize <= m - offset THEN PageSize
              ELSE IF 0 >= m - offset THEN 0 ELSE m - offset
  <2>0. m - offset \in Int /\ PageSize \in Int
    <3> HIDE DEF m, items
    <3> QED
      BY <1>3
  <2>1. L!Min({PageSize, m - offset}) = IF PageSize <= m - offset THEN PageSize ELSE m - offset
    BY <2>0, OfTwo, Zenon
  <2>2. L!Min({PageSize, m - offset}) \in Int
    BY <1>3, <2>1
  <2>3. items = IF 0 >= L!Min({PageSize, m - offset}) THEN 0 ELSE L!Min({PageSize, m - offset})
    BY <2>2, OfTwo
  <2> HIDE DEF m, items
  <2> QED
    BY <1>3, <2>1, <2>3
<1>5. ~gone => TrueAnswer(rows, applied, offset, request')
  <2>1. ~gone /\ offset > 0 => m > offset
    BY DEF ListInv, PagesAreTrue
  <2>2. request'.total = m /\ request'.items = items
    BY <1>2
  <2>3. Many(rows, applied) = m
    OBVIOUS
  <2> HIDE DEF m, items
  <2> QED
    BY <1>3, <1>4, <2>1, <2>2, <2>3 DEF TrueAnswer
<1> QED
  BY <1>1, <1>5 DEF ListInv, PagesAreTrue, TrueAnswer, Many, Matches

LEMMA PageIsAnswered == ListInv /\ L!Answer => ListInv'
<1> SUFFICES ASSUME ListInv, L!Answer PROVE ListInv'
  OBVIOUS
<1>1. UNCHANGED <<rows, applied, offset, gone>> /\ request.at = "read" /\ request'.at # "read"
  BY DEF L!Answer, L!Nothing
<1>2. PICK kept \in SUBSET (DOMAIN known \ {L!Key}) :
        known' = [k \in kept \cup {L!Key} |-> IF k = L!Key THEN request ELSE known[k]]
  BY DEF L!Answer
<1>3. \A k \in DOMAIN known' :
        \/ k = <<applied, offset>> /\ known'[k] = request
        \/ k \in DOMAIN known /\ known'[k] = known[k]
  BY <1>2 DEF L!Key
<1>4. \A k \in DOMAIN known' : k[2] \in Nat
  BY <1>3 DEF ListInv
<1>5. ~gone => \A k \in DOMAIN known' : TrueAnswer(rows, k[1], k[2], known'[k])
  <2> SUFFICES ASSUME ~gone, NEW k \in DOMAIN known'
               PROVE  TrueAnswer(rows, k[1], k[2], known'[k])
    OBVIOUS
  <2>1. CASE k = <<applied, offset>> /\ known'[k] = request
    <3>1. k[1] = applied /\ k[2] = offset
      BY <2>1
    <3> QED
      BY <1>1, <2>1, <3>1 DEF ListInv, PagesAreTrue
  <2>2. CASE k \in DOMAIN known /\ known'[k] = known[k]
    BY <2>2 DEF ListInv, PagesAreTrue
  <2> QED
    BY <1>3, <2>1, <2>2
<1>6. ~gone => PagesAreTrue'
  <2> SUFFICES ASSUME ~gone PROVE PagesAreTrue'
    OBVIOUS
  <2>1. offset' > 0 => Many(rows', applied') > offset'
    BY <1>1 DEF ListInv, PagesAreTrue
  <2>2. \A k \in DOMAIN known' : TrueAnswer(rows', k[1], k[2], known'[k])
    BY <1>1, <1>5
  <2> QED
    BY <1>1, <2>1, <2>2 DEF PagesAreTrue
<1> QED
  BY <1>1, <1>4, <1>6 DEF ListInv

LEMMA PageIsTurned == ListInv /\ (L!Back \/ L!Forward) => ListInv'
<1> SUFFICES ASSUME ListInv, L!Back \/ L!Forward PROVE ListInv'
  OBVIOUS
<1>1. PageSize \in Nat \ {0} /\ offset \in Nat /\ Many(rows, applied) \in Nat
  BY RowsAreFinite, EndsAssumption DEF ListInv
<1>2. UNCHANGED <<rows, known, gone>>
  BY DEF L!Back, L!Forward
<1>3. CASE L!Back
  <2> DEFINE from == L!Max({0, offset - PageSize})
  <2>1. from = IF 0 >= offset - PageSize THEN 0 ELSE offset - PageSize
    BY <1>1, OfTwo
  <2>2. L!LookAt(applied, from)
    BY <1>3 DEF L!Back
  <2>3. ~gone /\ offset > 0 => Many(rows, applied) > offset
    BY DEF ListInv, PagesAreTrue
  <2> HIDE DEF from
  <2>4. from \in Nat /\ (~gone /\ from > 0 => Many(rows, applied) > from)
    BY <1>1, <2>1, <2>3
  <2> QED
    BY <1>2, <2>2, <2>4, LookAtStep
<1>4. CASE L!Forward
  <2>1. L!LookAt(applied, offset + PageSize)
    BY <1>4 DEF L!Forward
  <2>2. ~gone => Many(rows, applied) > offset + PageSize
    <3> SUFFICES ASSUME ~gone PROVE Many(rows, applied) > offset + PageSize
      OBVIOUS
    <3>1. L!Key \in DOMAIN known /\ ~L!LastPage
      BY <1>4 DEF L!Forward, L!Paging, L!Page, L!Loaded
    <3>2. TrueAnswer(rows, applied, offset, known[L!Key])
      <4>1. L!Key[1] = applied /\ L!Key[2] = offset
        BY DEF L!Key
      <4> QED
        BY <3>1, <4>1 DEF ListInv, PagesAreTrue
    <3>3. \/ offset + PageSize < L!Total
          \/ offset + L!Items < L!Total
      <4>1. L!Total \in Nat /\ L!Items \in Nat
        BY <3>2 DEF TrueAnswer, L!Total, L!Items
      <4> QED
        BY <1>1, <3>1, <4>1 DEF L!LastPage, L!ShownTo
    <3> QED
      BY <1>1, <3>2, <3>3 DEF TrueAnswer, L!Total, L!Items
  <2> QED
    BY <1>1, <1>2, <2>1, <2>2, LookAtStep
<1> QED
  BY <1>3, <1>4

\* A filter that is applied begins at its first page.
LEMMA FilterStep ==
  /\ ListInv /\ (L!ChooseStatus \/ L!ChooseSearch \/ L!Submit \/ L!ResetFilters) => ListInv'
  /\ \A name \in {"status", "search"} : ListInv /\ L!RemoveFilter(name) => ListInv'
<1>1. ASSUME ListInv, NEW filter, L!LookAt(filter, 0), UNCHANGED <<rows, known, gone>>
      PROVE  ListInv'
  BY <1>1, LookAtStep
<1>2. ASSUME ListInv, UNCHANGED <<rows, known, gone, applied, offset, request>>
      PROVE  ListInv'
  BY <1>2 DEF ListInv, PagesAreTrue, TrueAnswer, Many, Matches
<1>3. ASSUME ListInv, NEW p, NEW v, NEW atOnce, L!Choose(p, v, atOnce) PROVE ListInv'
  BY <1>1, <1>2, <1>3 DEF L!Choose, L!ApplyFilters
<1> QED
  BY <1>1, <1>3 DEF L!ChooseStatus, L!ChooseSearch, L!Submit, L!ApplyFilters, L!ResetFilters,
                    L!RemoveFilter

LEMMA RowsChange ==
  ASSUME ListInv, NEW k \in L!RowKinds, L!RowComes(k) \/ L!RowLeaves(k)
  PROVE  ListInv'
<1>1. UNCHANGED <<applied, offset, known, request>>
  BY DEF L!RowComes, L!RowLeaves
<1>2. rows \in [L!RowKinds -> Nat]
  BY DEF ListInv
<1>3. CASE L!RowComes(k)
  <2>1. rows' = [rows EXCEPT ![k] = @ + 1] /\ gone' = gone
    BY <1>3 DEF L!RowComes
  <2>2. rows' \in [L!RowKinds -> Nat] /\ \A l \in L!RowKinds : rows[l] <= rows'[l]
    BY <1>2, <2>1
  <2>3. ~gone => PagesAreTrue'
    <3> SUFFICES ASSUME ~gone PROVE PagesAreTrue'
      OBVIOUS
    <3>1. offset' > 0 => Many(rows', applied') > offset'
      <4>1. Many(rows, applied) <= Many(rows', applied)
        BY <1>2, <2>2, MoreRowsMatchMore
      <4>2. Many(rows, applied) \in Nat /\ Many(rows', applied) \in Nat
        BY RowsAreFinite
      <4> QED
        BY <1>1, <4>1, <4>2 DEF ListInv, PagesAreTrue
    <3>2. \A l \in DOMAIN known' : TrueAnswer(rows', l[1], l[2], known'[l])
      BY <1>1, <1>2, <2>2, AnswerStaysTrue DEF ListInv, PagesAreTrue
    <3>3. request'.at = "read" => TrueAnswer(rows', applied', offset', request')
      BY <1>1, <1>2, <2>2, AnswerStaysTrue DEF ListInv, PagesAreTrue
    <3> QED
      BY <3>1, <3>2, <3>3 DEF PagesAreTrue
  <2> QED
    BY <1>1, <2>1, <2>2, <2>3 DEF ListInv
<1>4. CASE L!RowLeaves(k)
  <2>1. rows' \in [L!RowKinds -> Nat]
    <3>1. rows[k] \in Nat /\ rows[k] > 0
      BY <1>2, <1>4 DEF L!RowLeaves
    <3>2. CASE rows' = [rows EXCEPT ![k] = @ - 1]
      BY <1>2, <3>1, <3>2
    <3>3. ASSUME NEW l \in L!RowKinds \ {k}, rows' = [rows EXCEPT ![k] = @ - 1, ![l] = @ + 1]
          PROVE  rows' \in [L!RowKinds -> Nat]
      BY <1>2, <3>1, <3>3
    <3> QED
      BY <1>4, <3>2, <3>3 DEF L!RowLeaves
  <2>2. gone' = TRUE
    BY <1>4 DEF L!RowLeaves
  <2> QED
    BY <1>1, <2>1, <2>2 DEF ListInv
<1> QED
  BY <1>3, <1>4

LEMMA PagesStep == ListInv /\ [L!Next]_listVars => ListInv'
<1> SUFFICES ASSUME ListInv, [L!Next]_listVars PROVE ListInv'
  OBVIOUS
<1>1. CASE UNCHANGED listVars \/ L!Fail \/ L!Refetch
  <2>1. UNCHANGED <<rows, applied, offset, known, gone>>
        /\ (request' = request \/ request'.at # "read")
    BY <1>1 DEF listVars, L!Fail, L!Refetch, L!Nothing, L!Sent
  <2> QED
    BY <2>1 DEF ListInv, PagesAreTrue, TrueAnswer, Many, Matches
<1>2. CASE L!Next
  BY <1>1, <1>2, ReadStep, PageIsAnswered, PageIsTurned, FilterStep, RowsChange DEF L!Next
<1> QED
  BY <1>1, <1>2

-----------------------------------------------------------------------------
(***************************************************************************)
(* The rights.  What follows holds in every organisation of the assumed    *)
(* shape: any number of teams, and of people in each of the six roles.     *)
(***************************************************************************)

People == A!People

\* Who may have a record of the sales.
Editors == {p \in People : RoleOf[p] \in A!SellerEditors}

Stages ==
  {"active", "cancelled", "converted", "draft", "deposit_paid", "signed", "new", "assigned",
   "rejected", "approved", "open", "closed", "confirmed"}

RecordIsTyped ==
  record \in [owner : People \cup {None}, creator : People, status : Stages,
              paid : BOOLEAN, file : BOOLEAN]

RecordIsSound ==
  record # A!New =>
    /\ RecordIsTyped
    /\ kind \in {"booking", "contract"} => record.owner \in Editors
    /\ kind = "booking" => record.status \in {"active", "cancelled", "converted"}
    /\ kind = "contract" => record.status = A!DeriveContractStatus(record.paid, record.file)
    /\ kind = "lead" =>
         /\ record.owner \in Editors \cup {None}
         /\ record.status \in {"new", "assigned", "converted", "rejected"}
         /\ record.status = "new" => record.owner = None
         /\ record.status = "assigned" => record.owner # None
    /\ kind = "dayOff" => record.owner \in People

AccessInv ==
  /\ kind \in {"booking", "contract", "lead", "dayOff", "transaction", "entry"}
  /\ disabled \subseteq Leavers
  /\ RecordIsSound
  /\ ~trespass

LEMMA RoleIsOne ==
  ASSUME NEW p \in People
  PROVE  /\ RoleOf[p] \in {"director", "head_of_sales", "sales_manager", "accountant",
                           "investor", "reception"}
         /\ p # None
         /\ TeamLead[p] # None =>
              /\ RoleOf[p] = "sales_manager" /\ TeamLead[p] \in People
              /\ RoleOf[TeamLead[p]] = "head_of_sales"
BY StaffAssumption DEF People, A!AllRoles, A!Sellers

\* What each kind of page offers.
LEMMA BookingOffers ==
  ASSUME kind = "booking", NEW p, NEW r, NEW a, a \in A!Offers(p, r)
  PROVE  /\ RoleOf[p] \in A!Sellers
         /\ \/ /\ r = A!New
               /\ \E q \in A!ManagersOnCreate(p) : a = A!Give("create", q)
            \/ /\ r # A!New /\ r.status = "active"
               /\ \/ a \in {A!Do("edit"), A!Do("cancel"), A!Do("convert")}
                  \/ \E q \in A!ManagersOnReassign(p) \ {r.owner} : a = A!Give("assign", q)
<1>1. RoleOf[p] \in A!Sellers /\ r # A!Closed
  BY DEF A!Offers, A!Viewers
<1>2. CASE r = A!New
  BY <1>1, <1>2 DEF A!Offers, A!OffersNew, A!Viewers
<1>3. CASE r # A!New
  <2>1. a \in A!BookingDetailScreen(p, r)
    BY <1>1, <1>3 DEF A!Offers, A!OffersOld
  <2> QED
    BY <1>1, <1>3, <2>1 DEF A!BookingDetailScreen, A!DoEach, A!Reassignments
<1> QED
  BY <1>2, <1>3

LEMMA ContractOffers ==
  ASSUME kind = "contract", NEW p, NEW r, NEW a, a \in A!Offers(p, r)
  PROVE  /\ RoleOf[p] \in A!Sellers \cup {"accountant"}
         /\ \/ /\ r = A!New /\ RoleOf[p] \in A!Sellers
               /\ \E q \in A!ManagersOnCreate(p) : a = A!Give("create", q)
            \/ /\ r # A!New
               /\ \/ a = A!Do("edit") /\ A!CanEditContract(p, r)
                  \/ /\ A!CanEditContract(p, r)
                     /\ \E q \in A!ManagersOnReassign(p) \ {r.owner} : a = A!Give("assign", q)
                  \/ a = A!Do("deposit") /\ RoleOf[p] \in A!CanConfirmDeposit /\ ~r.paid
                  \/ a = A!Do("upload") /\ RoleOf[p] \in A!Sellers
                  \/ a = A!Do("download") /\ RoleOf[p] \in A!Sellers /\ r.file
<1>1. RoleOf[p] \in A!Sellers \cup {"accountant"} /\ r # A!Closed
  BY DEF A!Offers, A!Viewers
<1>2. CASE r = A!New
  BY <1>1, <1>2 DEF A!Offers, A!OffersNew, A!Viewers
<1>3. CASE r # A!New
  <2>1. a \in A!ContractDetailScreen(p, r)
    BY <1>1, <1>3 DEF A!Offers, A!OffersOld
  <2> QED
    BY <1>1, <1>3, <2>1 DEF A!ContractDetailScreen, A!Reassignments, A!CanManageContractFile
<1> QED
  BY <1>2, <1>3

LEMMA LeadOffers ==
  ASSUME kind = "lead", NEW p, NEW r, NEW a, a \in A!Offers(p, r)
  PROVE  \/ r = A!New /\ RoleOf[p] = "reception" /\ a = A!Do("create")
         \/ /\ r # A!New /\ r.status \notin {"converted", "rejected"}
            /\ \/ /\ RoleOf[p] = "head_of_sales"
                  /\ \E q \in A!Options(p, {"sales_manager"}) \ {r.owner} : a = A!Give("assign", q)
               \/ RoleOf[p] \in A!SellerEditors /\ r.status = "assigned" /\ a = A!Do("convert")
               \/ RoleOf[p] \in A!SellerEditors /\ a = A!Do("reject")
<1>1. RoleOf[p] \in A!Viewers.lead /\ r # A!Closed
  BY DEF A!Offers, A!Viewers
<1>2. CASE r = A!New
  BY <1>1, <1>2 DEF A!Offers, A!OffersNew, A!Viewers
<1>3. CASE r # A!New
  <2>1. a \in A!LeadsScreen(p, r)
    BY <1>1, <1>3 DEF A!Offers, A!OffersOld
  <2> QED
    BY <1>1, <1>3, <2>1 DEF A!LeadsScreen
<1> QED
  BY <1>2, <1>3

LEMMA OtherOffers ==
  ASSUME NEW p, NEW r, NEW a, a \in A!Offers(p, r)
  PROVE  /\ kind = "dayOff" =>
              /\ r = A!New
              /\ \E q \in A!Options(p, A!AssignableDayOffRoles(RoleOf[p])) :
                   a = A!Give("create", q)
         /\ kind = "transaction" =>
              /\ RoleOf[p] = "accountant"
              /\ \/ r = A!New /\ a = A!Do("create")
                 \/ /\ r # A!New /\ r.creator = p /\ r.status = "open"
                    /\ a \in {A!Do("edit"), A!Do("upload")}
         /\ kind = "entry" =>
              /\ RoleOf[p] = "accountant"
              /\ \/ r = A!New /\ \E q \in People : a = A!Give("create", q)
                 \/ r # A!New /\ r.status = "draft" /\ a \in {A!Do("edit"), A!Do("confirm")}
<1>1. ~(RoleOf[p] \notin A!Viewers[kind] \/ r = A!Closed)
  BY DEF A!Offers
<1>2. CASE r = A!New
  <2>1. a \in A!OffersNew(p)
    BY <1>1, <1>2 DEF A!Offers
  <2> QED
    BY <1>2, <2>1 DEF A!OffersNew, A!CanManagePayroll, People
<1>3. CASE r # A!New
  <2> a \in A!OffersOld(p, r)
    BY <1>1, <1>3 DEF A!Offers
  <2>1. kind # "dayOff"
    BY DEF A!OffersOld
  <2>2. CASE kind = "transaction"
    <3>1. a \in IF A!CanEditTransaction(p, r) THEN A!DoEach({"edit", "upload"}) ELSE {}
      BY <2>2 DEF A!OffersOld
    <3> QED
      BY <1>3, <2>2, <3>1 DEF A!CanEditTransaction, A!DoEach
  <2>3. CASE kind = "entry"
    <3>1. a \in IF A!CanManagePayroll(p) /\ r.status = "draft"
                THEN A!DoEach({"edit", "confirm"}) ELSE {}
      BY <2>3 DEF A!OffersOld
    <3> QED
      BY <1>3, <2>3, <3>1 DEF A!CanManagePayroll, A!DoEach
  <2> QED
    BY <2>1, <2>2, <2>3
<1> QED
  BY <1>2, <1>3

-----------------------------------------------------------------------------

\* Whom a form lets its user choose.
LEMMA ChosenOnCreate ==
  ASSUME NEW p \in People, NEW q \in A!ManagersOnCreate(p)
  PROVE  \/ q = None /\ RoleOf[p] # "director"
         \/ /\ q \in People /\ q \in A!Active /\ q # None
            /\ \/ RoleOf[p] = "director" /\ RoleOf[q] \in A!SellerEditors
               \/ /\ RoleOf[p] = "head_of_sales" /\ RoleOf[q] = "sales_manager"
                  /\ TeamLead[q] = p
BY RoleIsOne DEF A!ManagersOnCreate, A!Managers, A!Options, A!VisibleUsers, A!Active,
   A!AssignableManagerRoles, A!SellerEditors, People

LEMMA ChosenOnReassign ==
  ASSUME NEW p \in People, NEW q \in A!ManagersOnReassign(p)
  PROVE  /\ q \in People /\ q # None
         /\ \/ /\ RoleOf[p] = "director" /\ RoleOf[q] \in A!SellerEditors /\ q \in A!Active
            \/ /\ RoleOf[p] = "head_of_sales" /\ RoleOf[q] = "sales_manager"
               /\ TeamLead[q] = p /\ q \in A!Active
            \/ RoleOf[p] = "head_of_sales" /\ q = p
BY RoleIsOne DEF A!ManagersOnReassign, A!Managers, A!Options, A!VisibleUsers, A!Active,
   A!AssignableManagerRoles, A!SellerEditors, People

\* Whose records somebody works on.
LEMMA ScopeOfEditor ==
  ASSUME NEW p \in People, RoleOf[p] \in A!SellerEditors, NEW q \in A!ManagerScope(p)
  PROVE  q \in People /\ q # None /\ p \in {q, TeamLead[q]}
BY RoleIsOne DEF A!SellerEditors, A!ManagerScope, A!TeamIds, People

\* An editor who may hand a record on hands it to an editor.
LEMMA ResolvedIsEditor ==
  ASSUME NEW p \in People, RoleOf[p] \in A!SellerEditors, NEW q, A!ResolveManagerId(p, q)
  PROVE  /\ (IF q = None THEN p ELSE q) \in Editors
         /\ p \in {IF q = None THEN p ELSE q, TeamLead[IF q = None THEN p ELSE q]}
<1>1. RoleOf[p] \in {"head_of_sales", "sales_manager"}
  BY DEF A!SellerEditors
<1>2. CASE RoleOf[p] = "sales_manager"
  <2>1. q \in {None, p}
    BY <1>2 DEF A!ResolveManagerId
  <2> QED
    BY <2>1 DEF Editors
<1>3. CASE RoleOf[p] = "head_of_sales"
  <2>1. (IF q = None THEN p ELSE q) \in {p} \cup A!TeamIds(p)
    BY <1>3 DEF A!ResolveManagerId
  <2> QED
    BY <2>1 DEF Editors, A!TeamIds, A!SellerEditors, People
<1> QED
  BY <1>1, <1>2, <1>3

LEMMA CreatedIs ==
  ASSUME NEW p \in People, NEW a, a.target \in People \cup {None},
         record' = A!Created(p, a), kind' = kind,
         kind \in {"booking", "contract", "lead", "dayOff", "transaction", "entry"},
         kind \in {"booking", "contract"} =>
           (IF a.target = None THEN p ELSE a.target) \in Editors,
         kind = "lead" => a.target = None,
         kind = "dayOff" => a.target \in People
  PROVE  RecordIsSound'
<1>1. record' = [owner |-> IF kind \in {"booking", "contract"} /\ a.target = None
                           THEN p ELSE a.target,
                 creator |-> p, status |-> A!FirstStatus[kind], paid |-> FALSE, file |-> FALSE]
  BY DEF A!Created
<1>2. record'.status = A!FirstStatus[kind]
  BY <1>1
<1>3. A!FirstStatus[kind] \in {"active", "draft", "new", "approved", "open"}
      /\ (kind = "booking" => A!FirstStatus[kind] = "active")
      /\ (kind = "contract" => A!FirstStatus[kind] = "draft")
      /\ (kind = "lead" => A!FirstStatus[kind] = "new")
  BY DEF A!FirstStatus
<1>4. RecordIsTyped'
  BY <1>1, <1>2, <1>3 DEF RecordIsTyped, Stages
<1> QED
  BY <1>1, <1>2, <1>3, <1>4 DEF RecordIsSound, A!DeriveContractStatus

-----------------------------------------------------------------------------
(* Nobody writes what is not theirs                                        *)

LEMMA BookingIsWritten ==
  ASSUME AccessInv, kind = "booking", kind' = kind, NEW p \in People, NEW r,
         NEW a, a \in A!Offers(p, r), A!Permits(p, a, record), record' = A!After(p, a, record)
  PROVE  /\ RecordIsSound'
         /\ A!Responsible(p, a, IF a.what = "create" THEN record' ELSE record)
<1>1. RoleOf[p] \in A!Routes["booking"][a.what] /\ A!PermitsBooking(p, a, record)
  BY DEF A!Permits
<1>2. CASE \E q \in A!ManagersOnCreate(p) : a = A!Give("create", q)
  <2>1. a.what = "create" /\ a.target \in People \cup {None}
    BY <1>2, ChosenOnCreate DEF A!Give
  <2>2. RoleOf[p] \in A!SellerEditors
    BY <1>1, <2>1 DEF A!Routes, A!BookingRoutes
  <2>3. A!ResolveManagerId(p, a.target)
    BY <1>1, <2>1 DEF A!PermitsBooking
  <2>4. record' = A!Created(p, a)
    BY <2>1 DEF A!After
  <2>5. RecordIsSound'
    BY <2>1, <2>2, <2>3, <2>4, CreatedIs, ResolvedIsEditor
  <2>6. record'.owner = IF a.target = None THEN p ELSE a.target
    BY <2>4 DEF A!Created
  <2> QED
    BY <2>1, <2>2, <2>3, <2>5, <2>6, ResolvedIsEditor, RoleIsOne DEF A!Responsible, Editors
<1>3. CASE a \in {A!Do("edit"), A!Do("cancel"), A!Do("convert")}
           \/ \E q \in A!ManagersOnReassign(p) : a = A!Give("assign", q)
  <2>1. /\ a.what \in {"edit", "cancel", "convert", "assign"}
        /\ a.what = "assign" => a.target \in People
    BY <1>3, ChosenOnReassign DEF A!Give, A!Do
  <2>2. RoleOf[p] \in A!SellerEditors
    BY <1>1, <2>1 DEF A!Routes, A!BookingRoutes
  <2>3. record # A!New /\ record.owner \in A!ManagerScope(p)
    BY <1>1, <2>1 DEF A!PermitsBooking
  <2>4. /\ RecordIsTyped /\ record.owner \in Editors
        /\ record.status \in {"active", "cancelled", "converted"}
    BY <2>3 DEF AccessInv, RecordIsSound
  <2>5. \/ record' = record
        \/ record' = [record EXCEPT !.status = "cancelled"]
        \/ record' = [record EXCEPT !.status = "converted"]
        \/ a.what = "assign" /\ record' = [record EXCEPT !.owner = a.target]
    BY <2>1 DEF A!After
  <2>6. a.what = "assign" => a.target \in Editors
    <3> SUFFICES ASSUME a.what = "assign" PROVE a.target \in Editors
      OBVIOUS
    <3>1. A!Reassigns(p, a, record)
      BY <1>1 DEF A!PermitsBooking
    <3>2. a.target # None
      BY <2>1, RoleIsOne
    <3> QED
      BY <2>2, <2>4, <3>1, <3>2, ResolvedIsEditor DEF A!Reassigns
  <2>7. /\ RecordIsTyped' /\ record'.owner \in Editors
        /\ record'.status \in {"active", "cancelled", "converted"}
    BY <2>4, <2>5, <2>6 DEF RecordIsTyped, Editors, Stages
  <2>8. RecordIsSound'
    BY <2>7 DEF RecordIsSound, RecordIsTyped, Stages
  <2>9. A!Responsible(p, a, record)
    BY <2>2, <2>3, ScopeOfEditor DEF A!Responsible
  <2> QED
    BY <2>1, <2>8, <2>9
<1> QED
  BY <1>2, <1>3, BookingOffers

LEMMA ContractIsWritten ==
  ASSUME AccessInv, kind = "contract", kind' = kind, NEW p \in People, NEW r,
         NEW a, a \in A!Offers(p, r), A!Permits(p, a, record), record' = A!After(p, a, record)
  PROVE  /\ RecordIsSound'
         /\ a.what # "download" =>
              A!Responsible(p, a, IF a.what = "create" THEN record' ELSE record)
<1>1. RoleOf[p] \in A!Routes["contract"][a.what] /\ A!PermitsContract(p, a, record)
  BY DEF A!Permits
<1>2. CASE \E q \in A!ManagersOnCreate(p) : a = A!Give("create", q)
  <2>1. a.what = "create" /\ a.target \in People \cup {None}
    BY <1>2, ChosenOnCreate DEF A!Give
  <2>2. RoleOf[p] \in A!SellerEditors
    BY <1>1, <2>1 DEF A!Routes, A!ContractRoutes
  <2>3. A!ResolveManagerId(p, a.target)
    BY <1>1, <2>1 DEF A!PermitsContract
  <2>4. record' = A!Created(p, a)
    BY <2>1 DEF A!After
  <2>5. RecordIsSound'
    BY <2>1, <2>2, <2>3, <2>4, CreatedIs, ResolvedIsEditor
  <2>6. record'.owner = IF a.target = None THEN p ELSE a.target
    BY <2>4 DEF A!Created
  <2> QED
    BY <2>1, <2>2, <2>3, <2>5, <2>6, ResolvedIsEditor, RoleIsOne DEF A!Responsible, Editors
<1>3. CASE a \in {A!Do("edit"), A!Do("deposit"), A!Do("upload"), A!Do("download")}
           \/ \E q \in A!ManagersOnReassign(p) : a = A!Give("assign", q)
  <2>1. /\ a.what \in {"edit", "deposit", "upload", "download", "assign"}
        /\ a.what = "assign" => a.target \in People
    BY <1>3, ChosenOnReassign DEF A!Give, A!Do
  <2>2. record # A!New
    BY <1>1, <2>1 DEF A!PermitsContract
  <2>3. /\ RecordIsTyped /\ record.owner \in Editors
        /\ record.status = A!DeriveContractStatus(record.paid, record.file)
    BY <2>2 DEF AccessInv, RecordIsSound
  <2>4. \/ record' = record
        \/ record' = [record EXCEPT !.paid = TRUE,
                                    !.status = A!DeriveContractStatus(TRUE, record.file)]
        \/ record' = [record EXCEPT !.file = TRUE,
                                    !.status = A!DeriveContractStatus(record.paid, TRUE)]
        \/ a.what = "assign" /\ record' = [record EXCEPT !.owner = a.target]
    BY <2>1 DEF A!After
  <2>5. a.what = "assign" => a.target \in Editors
    <3> SUFFICES ASSUME a.what = "assign" PROVE a.target \in Editors
      OBVIOUS
    <3>1. A!Reassigns(p, a, record)
      BY <1>1 DEF A!PermitsContract
    <3>2. a.target # None /\ RoleOf[p] \in A!SellerEditors
      BY <1>1, <2>1, RoleIsOne DEF A!Routes, A!ContractRoutes
    <3> QED
      BY <2>3, <3>1, <3>2, ResolvedIsEditor DEF A!Reassigns
  <2>11. RecordIsTyped'
    <3>1. CASE record' = record
      BY <2>3, <3>1 DEF RecordIsTyped
    <3>2. CASE record' = [record EXCEPT !.paid = TRUE,
                                        !.status = A!DeriveContractStatus(TRUE, record.file)]
      <4>1. PICK stage \in Stages : record' = [record EXCEPT !.paid = TRUE, !.status = stage]
        BY <3>2 DEF A!DeriveContractStatus, Stages
      <4> QED
        BY <2>3, <4>1 DEF RecordIsTyped
    <3>3. CASE record' = [record EXCEPT !.file = TRUE,
                                        !.status = A!DeriveContractStatus(record.paid, TRUE)]
      <4>1. PICK stage \in Stages : record' = [record EXCEPT !.file = TRUE, !.status = stage]
        BY <3>3 DEF A!DeriveContractStatus, Stages
      <4> QED
        BY <2>3, <4>1 DEF RecordIsTyped
    <3>4. CASE a.what = "assign" /\ record' = [record EXCEPT !.owner = a.target]
      BY <2>3, <2>5, <3>4 DEF RecordIsTyped, Editors
    <3> QED
      BY <2>4, <3>1, <3>2, <3>3, <3>4
  <2>7. RecordIsTyped' /\ record'.owner \in Editors
    BY <2>3, <2>4, <2>5, <2>11 DEF RecordIsTyped
  <2>10. record'.status = A!DeriveContractStatus(record'.paid, record'.file)
    BY <2>3, <2>4 DEF RecordIsTyped
  <2>8. RecordIsSound'
    BY <2>7, <2>10 DEF RecordIsSound, RecordIsTyped, Stages
  <2>9. a.what # "download" => A!Responsible(p, a, record)
    <3>1. CASE a.what = "deposit" /\ RoleOf[p] = "accountant"
      BY <3>1 DEF A!Responsible
    <3>2. CASE a.what \in {"edit", "assign", "upload", "deposit"}
               /\ ~(a.what = "deposit" /\ RoleOf[p] = "accountant")
      <4>1. RoleOf[p] \in A!SellerEditors
        BY <1>1, <3>2 DEF A!Routes, A!ContractRoutes
      <4>2. record.owner \in A!ManagerScope(p)
        BY <1>1, <3>2 DEF A!PermitsContract, A!FindEditable
      <4> QED
        BY <4>1, <4>2, ScopeOfEditor DEF A!Responsible
    <3> QED
      BY <2>1, <3>1, <3>2
  <2> QED
    BY <2>1, <2>8, <2>9
<1> QED
  BY <1>2, <1>3, ContractOffers

LEMMA LeadIsWritten ==
  ASSUME AccessInv, kind = "lead", kind' = kind, NEW p \in People, NEW r,
         NEW a, a \in A!Offers(p, r), A!Permits(p, a, record), record' = A!After(p, a, record)
  PROVE  /\ RecordIsSound'
         /\ A!Responsible(p, a, IF a.what = "create" THEN record' ELSE record)
<1>1. RoleOf[p] \in A!Routes["lead"][a.what] /\ A!PermitsLead(p, a, record)
  BY DEF A!Permits
<1>2. CASE a = A!Do("create")
  <2>1. a.what = "create" /\ a.target = None
    BY <1>2 DEF A!Do
  <2>2. RoleOf[p] = "reception"
    BY <1>1, <2>1 DEF A!Routes, A!LeadRoutes
  <2>3. record' = A!Created(p, a)
    BY <2>1 DEF A!After
  <2>4. RecordIsSound'
    BY <2>1, <2>3, CreatedIs
  <2> QED
    BY <2>1, <2>2, <2>4 DEF A!Responsible
<1>3. CASE a \in {A!Do("convert"), A!Do("reject")}
           \/ \E q \in A!Options(p, {"sales_manager"}) : a = A!Give("assign", q)
  <2>1. a.what \in {"convert", "reject", "assign"}
    BY <1>3 DEF A!Do, A!Give
  <2>2. RoleOf[p] \in A!SellerEditors
    BY <1>1, <2>1 DEF A!Routes, A!LeadRoutes, A!SellerEditors
  <2>3. record # A!New /\ A!LeadScope(p, record)
    BY <1>1, <2>1 DEF A!PermitsLead
  <2>4. RecordIsTyped /\ record.owner \in Editors \cup {None}
    BY <2>3 DEF AccessInv, RecordIsSound
  <2>5. \/ record' = [record EXCEPT !.status = "converted"]
        \/ record' = [record EXCEPT !.status = "rejected"]
        \/ a.what = "assign"
           /\ record' = [record EXCEPT !.owner = a.target, !.status = "assigned"]
    BY <2>1 DEF A!After
  <2>6. a.what = "assign" => a.target \in Editors /\ a.target # None
    <3> SUFFICES ASSUME a.what = "assign" PROVE a.target \in Editors /\ a.target # None
      OBVIOUS
    <3>1. a.target \in {p} \cup A!TeamIds(p)
      BY <1>1 DEF A!PermitsLead
    <3> QED
      BY <2>2, <3>1, RoleIsOne DEF Editors, A!TeamIds, A!SellerEditors, People
  <2>7. /\ RecordIsTyped' /\ record'.owner \in Editors \cup {None}
        /\ record'.status \in {"assigned", "converted", "rejected"}
        /\ record'.status = "assigned" => record'.owner # None
    BY <2>4, <2>5, <2>6 DEF RecordIsTyped, Editors, Stages
  <2>8. RecordIsSound'
    BY <2>7 DEF RecordIsSound, RecordIsTyped, Stages
  <2>9. A!Responsible(p, a, record)
    <3>1. \/ record.owner \in People /\ record.owner # None
             /\ p \in {record.owner, TeamLead[record.owner]}
          \/ record.owner = None /\ RoleOf[p] = "head_of_sales"
      <4>1. RoleOf[p] \in {"head_of_sales", "sales_manager"}
        BY <2>2 DEF A!SellerEditors
      <4>2. CASE RoleOf[p] = "sales_manager"
        BY <2>3, <4>2, RoleIsOne DEF A!LeadScope
      <4>3. CASE RoleOf[p] = "head_of_sales"
        <5>1. record.owner \in {None, p} \cup A!TeamIds(p)
          BY <2>3, <4>3 DEF A!LeadScope
        <5> QED
          BY <4>3, <5>1, RoleIsOne DEF A!TeamIds, People
      <4> QED
        BY <4>1, <4>2, <4>3
    <3> QED
      BY <2>1, <3>1 DEF A!Responsible
  <2> QED
    BY <2>1, <2>8, <2>9
<1> QED
  BY <1>2, <1>3, LeadOffers

LEMMA OtherIsWritten ==
  ASSUME AccessInv, kind \in {"dayOff", "transaction", "entry"}, kind' = kind,
         NEW p \in People, NEW r,
         NEW a, a \in A!Offers(p, r), A!Permits(p, a, record), record' = A!After(p, a, record)
  PROVE  /\ RecordIsSound'
         /\ A!Responsible(p, a, IF a.what = "create" THEN record' ELSE record)
<1>1. RoleOf[p] \in A!Routes[kind][a.what]
  BY DEF A!Permits
<1>2. CASE kind = "dayOff"
  <2>1. a.what = "create" /\ A!DayOffEmployee(p, a.target)
    BY <1>2 DEF A!Permits
  <2>2. a.target \in People /\ TeamLead[a.target] = p
    BY <2>1 DEF A!DayOffEmployee, A!TeamIds, People
  <2>3. record' = A!Created(p, a)
    BY <2>1 DEF A!After
  <2>4. RecordIsSound'
    BY <1>2, <2>2, <2>3, CreatedIs
  <2>5. record'.owner = a.target
    BY <1>2, <2>3 DEF A!Created
  <2> QED
    BY <1>2, <2>1, <2>2, <2>4, <2>5 DEF A!Responsible
<1>3. CASE kind = "transaction"
  <2>1. a.target = None /\ a.what \in {"create", "edit", "upload"} /\ RoleOf[p] = "accountant"
    BY <1>3, OtherOffers DEF A!Do
  <2>2. CASE a.what = "create"
    <3>1. record' = A!Created(p, a)
      BY <2>2 DEF A!After
    <3>2. RecordIsSound'
      BY <1>3, <2>1, <3>1, CreatedIs
    <3>3. record'.creator = p
      BY <3>1 DEF A!Created
    <3> QED
      BY <1>3, <2>1, <2>2, <3>2, <3>3 DEF A!Responsible
  <2>3. CASE a.what # "create"
    <3>1. record' = record
      BY <1>3, <2>1, <2>3 DEF A!After
    <3>2. record.creator = p
      BY <1>3, <2>3 DEF A!Permits, A!PermitsTransaction
    <3>3. RecordIsSound'
      BY <3>1 DEF AccessInv, RecordIsSound, RecordIsTyped
    <3> QED
      BY <1>3, <2>1, <2>3, <3>2, <3>3 DEF A!Responsible
  <2> QED
    BY <2>2, <2>3
<1>4. CASE kind = "entry"
  <2>1. /\ RoleOf[p] = "accountant" /\ a.what \in {"create", "edit", "confirm"}
        /\ a.what = "create" => a.target \in People
    BY <1>4, OtherOffers DEF A!Do, A!Give
  <2>2. CASE a.what = "create"
    <3>1. record' = A!Created(p, a)
      BY <2>2 DEF A!After
    <3>2. RecordIsSound'
      BY <1>4, <2>1, <2>2, <3>1, CreatedIs
    <3> QED
      BY <1>4, <2>1, <3>2 DEF A!Responsible
  <2>3. CASE a.what # "create"
    <3>1. record # A!New
      BY <1>4, <2>3 DEF A!Permits, A!PermitsEntry
    <3>2. record' = record \/ record' = [record EXCEPT !.status = "confirmed"]
      BY <1>4, <2>1, <2>3 DEF A!After
    <3>3. RecordIsTyped
      BY <3>1 DEF AccessInv, RecordIsSound
    <3>4. RecordIsTyped'
      BY <3>2, <3>3 DEF RecordIsTyped, Stages
    <3>5. RecordIsSound'
      BY <1>4, <3>4 DEF RecordIsSound, RecordIsTyped, Stages
    <3> QED
      BY <1>4, <2>1, <3>5 DEF A!Responsible
  <2> QED
    BY <2>2, <2>3
<1> QED
  BY <1>2, <1>3, <1>4

LEMMA AccessInit == A!Init => AccessInv
BY DEF A!Init, AccessInv, RecordIsSound, A!Routes

LEMMA AccessStep == AccessInv /\ [A!Next]_accessVars => AccessInv'
<1> SUFFICES ASSUME AccessInv, [A!Next]_accessVars PROVE AccessInv'
  OBVIOUS
<1>1. ASSUME UNCHANGED <<kind, record, trespass>>, disabled' \subseteq Leavers
      PROVE  AccessInv'
  BY <1>1 DEF AccessInv, RecordIsSound, RecordIsTyped
<1>2. CASE UNCHANGED accessVars
  BY <1>1, <1>2 DEF accessVars, AccessInv
<1>3. ASSUME NEW p \in People, A!Open(p) \/ A!Close(p) PROVE AccessInv'
  BY <1>1, <1>3 DEF A!Open, A!Close, AccessInv
<1>4. ASSUME NEW p \in Leavers, A!ExecuteDisableUser(p) PROVE AccessInv'
  BY <1>1, <1>4 DEF A!ExecuteDisableUser, AccessInv
<1>5. CASE A!CloseMonth
  <2>1. /\ kind = "transaction" /\ record # A!New
        /\ record' = [record EXCEPT !.status = "closed"]
        /\ UNCHANGED <<kind, disabled, trespass>>
    BY <1>5 DEF A!CloseMonth
  <2>2. RecordIsTyped
    BY <2>1 DEF AccessInv, RecordIsSound
  <2>3. RecordIsTyped'
    BY <2>1, <2>2 DEF RecordIsTyped, Stages
  <2>4. RecordIsSound'
    BY <2>1, <2>3 DEF RecordIsSound, RecordIsTyped, Stages
  <2> QED
    BY <2>1, <2>4 DEF AccessInv
<1>6. ASSUME NEW p \in People, A!Click(p) PROVE AccessInv'
  <2>1. PICK a \in A!Offers(p, page[p]) :
          /\ A!Permits(p, a, record)
          /\ record' = A!After(p, a, record)
          /\ trespass' =
               (trespass \/ (a.what # "download"
                  /\ ~A!Responsible(p, a, IF a.what = "create" THEN record' ELSE record)))
    BY <1>6 DEF A!Click
  <2>2. UNCHANGED <<kind, disabled>>
    BY <1>6 DEF A!Click
  <2>3. /\ RecordIsSound'
        /\ a.what # "download" =>
             A!Responsible(p, a, IF a.what = "create" THEN record' ELSE record)
    BY <2>1, <2>2, BookingIsWritten, ContractIsWritten, LeadIsWritten, OtherIsWritten
       DEF AccessInv
  <2> QED
    BY <2>1, <2>2, <2>3 DEF AccessInv
<1> QED
  BY <1>2, <1>3, <1>4, <1>5, <1>6 DEF A!Next, People

-----------------------------------------------------------------------------
(* What a page offers that is up to date is allowed, but for the known refusals *)

LEMMA UpcomingIs ==
  ASSUME NEW p \in A!Active, NEW a, a \in A!Upcoming(p)
  PROVE  p \in People /\ a \in A!Offers(p, record) /\ A!Sees(p, record)
BY DEF A!Active, A!Upcoming, People

LEMMA ChosenIsResolved ==
  ASSUME NEW p \in A!Active, RoleOf[p] \in A!SellerEditors
  PROVE  /\ \A q \in A!ManagersOnCreate(p) : A!ResolveManagerId(p, q)
         /\ \A q \in A!ManagersOnReassign(p) :
              RoleOf[p] # "sales_manager" /\ A!ResolveManagerId(p, q)
<1>1. p \in People
  BY DEF A!Active, People
<1>2. RoleOf[p] \in {"head_of_sales", "sales_manager"}
  BY DEF A!SellerEditors
<1>3. ASSUME NEW q \in A!ManagersOnCreate(p) PROVE A!ResolveManagerId(p, q)
  BY <1>1, <1>2, ChosenOnCreate DEF A!ResolveManagerId, A!TeamIds, A!ActiveSeller, People,
     A!SellerEditors
<1>4. ASSUME NEW q \in A!ManagersOnReassign(p)
      PROVE  RoleOf[p] # "sales_manager" /\ A!ResolveManagerId(p, q)
  BY <1>1, <1>2, ChosenOnReassign DEF A!ResolveManagerId, A!TeamIds, A!ActiveSeller, People,
     A!SellerEditors
<1> QED
  BY <1>3, <1>4

LEMMA BookingIsAllowed ==
  ASSUME kind = "booking", NEW p \in A!Active, NEW a, a \in A!Upcoming(p)
  PROVE  A!Permits(p, a, record) <=> ~A!KnownRefusal(p, a)
<1>1. p \in People /\ a \in A!Offers(p, record) /\ A!Sees(p, record)
  BY UpcomingIs
<1>2. a.what \in {"create", "edit", "cancel", "convert", "assign"}
  BY <1>1, BookingOffers DEF A!Do, A!Give
<1>3. CASE RoleOf[p] = "director"
  <2>1. RoleOf[p] \notin A!Routes["booking"][a.what]
    BY <1>2, <1>3 DEF A!Routes, A!BookingRoutes, A!SellerEditors
  <2> QED
    BY <1>2, <1>3, <2>1 DEF A!Permits, A!KnownRefusal
<1>4. CASE RoleOf[p] \in A!SellerEditors
  <2>1. ~A!KnownRefusal(p, a)
    BY <1>2, <1>4 DEF A!KnownRefusal, A!SellerEditors
  <2>2. RoleOf[p] \in A!Routes["booking"][a.what]
    BY <1>2, <1>4 DEF A!Routes, A!BookingRoutes
  <2>3. CASE record = A!New
    <3>1. PICK q \in A!ManagersOnCreate(p) : a = A!Give("create", q)
      BY <1>1, <2>3, BookingOffers
    <3>2. a.what = "create" /\ a.target = q
      BY <3>1 DEF A!Give
    <3>3. A!PermitsBooking(p, a, record)
      BY <1>4, <2>3, <3>1, <3>2, ChosenIsResolved DEF A!PermitsBooking
    <3> QED
      BY <2>1, <2>2, <3>3 DEF A!Permits
  <2>4. CASE record # A!New
    <3>1. record.owner \in A!ManagerScope(p)
      BY <1>1, <2>4 DEF A!Sees, A!InScope
    <3>2. record.status = "active"
      BY <1>1, <2>4, BookingOffers
    <3>3. a.what = "assign" => A!Reassigns(p, a, record)
      BY <1>1, <1>4, <2>4, BookingOffers, ChosenIsResolved DEF A!Reassigns, A!Do, A!Give
    <3>4. a.what # "create"
      BY <1>1, <2>4, BookingOffers DEF A!Do, A!Give
    <3>5. A!PermitsBooking(p, a, record)
      BY <1>2, <2>4, <3>1, <3>2, <3>3, <3>4 DEF A!PermitsBooking
    <3> QED
      BY <2>1, <2>2, <3>5 DEF A!Permits
  <2> QED
    BY <2>3, <2>4
<1> QED
  BY <1>1, <1>3, <1>4, BookingOffers DEF A!Sellers, A!SellerEditors

LEMMA ContractIsAllowed ==
  ASSUME AccessInv, kind = "contract", NEW p \in A!Active, NEW a, a \in A!Upcoming(p)
  PROVE  A!Permits(p, a, record) <=> ~A!KnownRefusal(p, a)
<1>1. p \in People /\ a \in A!Offers(p, record) /\ A!Sees(p, record)
  BY UpcomingIs
<1>2. /\ a.what \in {"create", "edit", "deposit", "upload", "download", "assign"}
      /\ a.what = "create" <=> record = A!New
      /\ RoleOf[p] \in A!Sellers \cup {"accountant"}
  BY <1>1, ContractOffers DEF A!Do, A!Give
<1>3. record # A!New /\ RoleOf[p] \in A!Sellers => record.owner \in A!ManagerScope(p)
  BY <1>1 DEF A!Sees, A!InScope, A!Sellers
<1>4. CASE a.what = "download"
  <2>1. record # A!New /\ record.file /\ RoleOf[p] \in A!Sellers
    BY <1>1, <1>4, ContractOffers DEF A!Do, A!Give
  <2>2. RoleOf[p] \in A!Routes["contract"][a.what]
    BY <1>4, <2>1 DEF A!Routes, A!ContractRoutes
  <2>3. A!PermitsContract(p, a, record)
    BY <1>3, <1>4, <2>1 DEF A!PermitsContract
  <2> QED
    BY <1>4, <2>2, <2>3 DEF A!Permits, A!KnownRefusal
<1>5. CASE a.what # "download" /\ RoleOf[p] = "director"
  <2>1. RoleOf[p] \notin A!Routes["contract"][a.what]
    BY <1>2, <1>5 DEF A!Routes, A!ContractRoutes, A!SellerEditors
  <2> QED
    BY <1>5, <2>1 DEF A!Permits, A!KnownRefusal
<1>6. CASE RoleOf[p] = "accountant" /\ a.what # "download"
  <2>1. a.what = "deposit" /\ record # A!New
    BY <1>1, <1>2, <1>6, ContractOffers
       DEF A!Do, A!Give, A!Sellers, A!CanEditContract, A!CanConfirmDeposit
  <2>2. A!PermitsContract(p, a, record) /\ RoleOf[p] \in A!Routes["contract"][a.what]
    BY <1>6, <2>1 DEF A!PermitsContract, A!Routes, A!ContractRoutes
  <2> QED
    BY <1>6, <2>1, <2>2 DEF A!Permits, A!KnownRefusal
<1>7. CASE RoleOf[p] \in A!SellerEditors /\ a.what # "download"
  <2>1. RoleOf[p] \in A!Routes["contract"][a.what]
    BY <1>2, <1>7 DEF A!Routes, A!ContractRoutes
  <2>2. CASE record = A!New
    <3>1. PICK q \in A!ManagersOnCreate(p) : a = A!Give("create", q)
      BY <1>1, <2>2, ContractOffers
    <3>2. a.what = "create" /\ a.target = q
      BY <3>1 DEF A!Give
    <3>3. A!PermitsContract(p, a, record)
      BY <1>7, <2>2, <3>1, <3>2, ChosenIsResolved DEF A!PermitsContract
    <3> QED
      BY <1>7, <2>1, <3>2, <3>3 DEF A!Permits, A!KnownRefusal, A!SellerEditors
  <2>3. CASE record # A!New
    <3>1. /\ a.what \in {"edit", "assign"} => A!CanEditContract(p, record)
          /\ a.what = "assign" => A!Reassigns(p, a, record)
          /\ a.what = "deposit" => RoleOf[p] = "head_of_sales"
      <4>1. CASE a = A!Do("edit") /\ A!CanEditContract(p, record)
        BY <4>1 DEF A!Do
      <4>2. CASE A!CanEditContract(p, record)
                 /\ \E q \in A!ManagersOnReassign(p) : a = A!Give("assign", q)
        BY <1>7, <4>2, ChosenIsResolved DEF A!Give, A!Reassigns
      <4>3. CASE a = A!Do("deposit") /\ RoleOf[p] \in A!CanConfirmDeposit
        BY <1>7, <4>3 DEF A!Do, A!CanConfirmDeposit, A!SellerEditors
      <4>4. CASE a \in {A!Do("upload"), A!Do("download")}
        BY <4>4 DEF A!Do
      <4> QED
        BY <1>1, <2>3, <4>1, <4>2, <4>3, <4>4, ContractOffers
    <3>2. A!FindEditable(p, record) <=> ~A!KnownRefusal(p, a)
      BY <1>2, <1>3, <1>7, <2>3, <3>1
         DEF A!FindEditable, A!KnownRefusal, A!CanEditContract, A!SellerEditors, A!Sellers
    <3>3. A!PermitsContract(p, a, record) <=> A!FindEditable(p, record)
      BY <1>2, <1>7, <2>3, <3>1 DEF A!PermitsContract, A!SellerEditors
    <3> QED
      BY <2>1, <3>2, <3>3 DEF A!Permits
  <2> QED
    BY <2>2, <2>3
<1> QED
  BY <1>2, <1>4, <1>5, <1>6, <1>7 DEF A!Sellers, A!SellerEditors

LEMMA LeadIsAllowed ==
  ASSUME AccessInv, kind = "lead", NEW p \in A!Active, NEW a, a \in A!Upcoming(p)
  PROVE  A!Permits(p, a, record) <=> ~A!KnownRefusal(p, a)
<1>1. p \in People /\ a \in A!Offers(p, record) /\ A!Sees(p, record)
  BY UpcomingIs
<1>2. CASE record = A!New
  <2>1. RoleOf[p] = "reception" /\ a.what = "create"
    BY <1>1, <1>2, LeadOffers DEF A!Do
  <2> QED
    BY <1>2, <2>1 DEF A!Permits, A!PermitsLead, A!KnownRefusal, A!Routes, A!LeadRoutes
<1>3. CASE record # A!New
  <2>1. /\ A!LeadScope(p, record) /\ record.status \notin {"converted", "rejected"}
        /\ record.status = "assigned" => record.owner # None
    BY <1>1, <1>3, LeadOffers DEF A!Sees, A!InScope, AccessInv, RecordIsSound
  <2>2. CASE RoleOf[p] = "head_of_sales"
             /\ \E q \in A!Options(p, {"sales_manager"}) : a = A!Give("assign", q)
    <3>1. PICK q \in A!Options(p, {"sales_manager"}) : a = A!Give("assign", q)
      BY <2>2
    <3>2. q \in A!TeamIds(p) /\ q \in A!Active
      BY <2>2, <3>1 DEF A!Options, A!VisibleUsers, A!TeamIds
    <3>3. a.what = "assign" /\ a.target = q
      BY <3>1 DEF A!Give
    <3>4. A!PermitsLead(p, a, record)
      BY <1>3, <2>1, <3>2, <3>3 DEF A!PermitsLead
    <3>5. RoleOf[p] \in A!Routes["lead"][a.what]
      BY <2>2, <3>3 DEF A!Routes, A!LeadRoutes
    <3> QED
      BY <2>2, <3>3, <3>4, <3>5 DEF A!Permits, A!KnownRefusal
  <2>3. CASE RoleOf[p] \in A!SellerEditors
             /\ \/ record.status = "assigned" /\ a = A!Do("convert")
                \/ a = A!Do("reject")
    <3>1. \/ a.what = "convert" /\ record.owner # None
          \/ a.what = "reject"
      BY <2>1, <2>3 DEF A!Do
    <3>2. A!PermitsLead(p, a, record)
      BY <1>3, <2>1, <3>1 DEF A!PermitsLead
    <3>3. RoleOf[p] \in A!Routes["lead"][a.what]
      BY <2>3, <3>1 DEF A!Routes, A!LeadRoutes
    <3> QED
      BY <2>3, <3>1, <3>2, <3>3 DEF A!Permits, A!KnownRefusal, A!SellerEditors
  <2> QED
    BY <1>1, <1>3, <2>2, <2>3, LeadOffers
<1> QED
  BY <1>2, <1>3

LEMMA OtherIsAllowed ==
  ASSUME kind \in {"dayOff", "transaction", "entry"},
         NEW p \in A!Active, NEW a, a \in A!Upcoming(p)
  PROVE  A!Permits(p, a, record) <=> ~A!KnownRefusal(p, a)
<1>1. p \in People /\ a \in A!Offers(p, record)
  BY UpcomingIs
<1>2. CASE kind = "dayOff"
  <2>1. record = A!New
    BY <1>1, <1>2, OtherOffers
  <2>2. PICK q \in A!Options(p, A!AssignableDayOffRoles(RoleOf[p])) : a = A!Give("create", q)
    BY <1>1, <1>2, OtherOffers
  <2>3. a.what = "create" /\ a.target = q
    BY <2>2 DEF A!Give
  <2>4. RoleOf[p] \in {"director", "head_of_sales"}
    BY <2>2 DEF A!Options, A!AssignableDayOffRoles
  <2>5. CASE RoleOf[p] = "director"
    BY <1>2, <2>3, <2>5 DEF A!Permits, A!KnownRefusal, A!Routes, A!DayOffRoutes
  <2>6. CASE RoleOf[p] = "head_of_sales"
    <3>1. A!DayOffEmployee(p, q)
      BY <2>2, <2>6 DEF A!Options, A!AssignableDayOffRoles, A!VisibleUsers, A!DayOffEmployee,
         A!TeamIds, A!ShiftRoles
    <3> QED
      BY <1>2, <2>1, <2>3, <2>6, <3>1 DEF A!Permits, A!KnownRefusal, A!Routes, A!DayOffRoutes
  <2> QED
    BY <2>4, <2>5, <2>6
<1>3. CASE kind = "transaction"
  <2>1. /\ RoleOf[p] = "accountant" /\ a.what \in {"create", "edit", "upload"}
        /\ A!PermitsTransaction(p, a, record)
    BY <1>1, <1>3, OtherOffers DEF A!Do, A!PermitsTransaction
  <2>2. RoleOf[p] \in A!Routes["transaction"][a.what]
    BY <2>1 DEF A!Routes, A!TransactionRoutes
  <2> QED
    BY <1>3, <2>1, <2>2 DEF A!Permits, A!KnownRefusal
<1>4. CASE kind = "entry"
  <2>1. /\ RoleOf[p] = "accountant" /\ a.what \in {"create", "edit", "confirm"}
        /\ A!PermitsEntry(p, a, record)
    BY <1>1, <1>4, OtherOffers DEF A!Do, A!Give, A!PermitsEntry
  <2>2. RoleOf[p] \in A!Routes["entry"][a.what]
    BY <2>1 DEF A!Routes, A!EntryRoutes
  <2> QED
    BY <1>4, <2>1, <2>2 DEF A!Permits, A!KnownRefusal
<1> QED
  BY <1>2, <1>3, <1>4

LEMMA OfferedIs == AccessInv => A!OfferedIsAllowed
BY BookingIsAllowed, ContractIsAllowed, LeadIsAllowed, OtherIsAllowed
   DEF AccessInv, A!OfferedIsAllowed

-----------------------------------------------------------------------------
(* What is left to do is offered, and the menu leads to no refusal         *)

\* Somebody whom a page offers it and who is not refused.
LEMMA OfferedToSomebody ==
  ASSUME AccessInv, NEW whats, NEW p \in A!Active, NEW a, a \in A!Upcoming(p),
         a.what \in whats, ~A!KnownRefusal(p, a)
  PROVE  A!Somebody(whats)
BY OfferedIs DEF A!Somebody, A!OfferedIsAllowed

\* The owner of a record, or the owner's head, who still has an account.
LEMMA OwnerWorksOnIt ==
  ASSUME AccessInv, record # A!New, kind \in {"booking", "contract", "lead"},
         A!OwnerOrHead \cap A!Active # {}
  PROVE  \E p \in A!Active : /\ RoleOf[p] \in A!SellerEditors
                             /\ record.owner \in A!ManagerScope(p)
                             /\ A!Sees(p, record)
<1>1. record.owner \in Editors
  BY DEF AccessInv, RecordIsSound, A!OwnerOrHead, Editors
<1>2. PICK p \in A!Active : p \in {record.owner, TeamLead[record.owner]}
  BY DEF A!OwnerOrHead
<1>3. p \in People /\ record.owner \in People /\ p # None /\ record.owner # None
  BY <1>1, RoleIsOne DEF A!Active, People, Editors
<1>4. \/ p = record.owner
      \/ /\ p = TeamLead[record.owner] /\ RoleOf[record.owner] = "sales_manager"
         /\ RoleOf[p] = "head_of_sales"
  BY <1>2, <1>3, RoleIsOne
<1>5. RoleOf[p] \in A!SellerEditors
  BY <1>1, <1>4 DEF Editors, A!SellerEditors
<1>6. record.owner \in A!ManagerScope(p)
  BY <1>3, <1>4, <1>5 DEF A!ManagerScope, A!TeamIds, A!SellerEditors, People
<1>7. A!LeadScope(p, record)
  BY <1>3, <1>4, <1>5 DEF A!LeadScope, A!TeamIds, A!SellerEditors, People
<1>8. RoleOf[p] \in A!Routes[kind].read
  BY <1>5 DEF A!Routes, A!BookingRoutes, A!ContractRoutes, A!LeadRoutes, A!Sellers,
     A!SellerEditors
<1>9. A!Sees(p, record)
  BY <1>6, <1>7, <1>8 DEF A!Sees, A!InScope
<1> QED
  BY <1>5, <1>6, <1>9

LEMMA WorkIs == AccessInv => A!WorkIsOffered
<1> SUFFICES ASSUME AccessInv, record # A!New PROVE A!WorkIsOffered
  BY DEF A!WorkIsOffered
<1>0. kind \in {"booking", "contract", "lead"} => record # A!Closed
  BY DEF AccessInv, RecordIsSound, A!DeriveContractStatus, A!Closed
<1>1. ASSUME kind = "lead", record.status = "new", NEW p \in A!Active, A!Staffed(p)
      PROVE  A!Somebody({"assign"})
  <2>1. PICK q \in A!TeamIds(p) : q \in A!Active
    BY <1>1 DEF A!Staffed
  <2>2. RoleOf[p] = "head_of_sales" /\ p \in People /\ q \in People
    BY <1>1, <2>1 DEF A!Staffed, A!Active, A!TeamIds, People
  <2>3. record.owner = None /\ q # None
    BY <1>1, <2>2, RoleIsOne DEF AccessInv, RecordIsSound
  <2>4. A!Sees(p, record)
    BY <1>1, <2>2, <2>3
       DEF A!Sees, A!InScope, A!LeadScope, A!Routes, A!LeadRoutes, A!Sellers
  <2>5. q \in A!Options(p, {"sales_manager"}) \ {record.owner}
    BY <2>1, <2>2, <2>3 DEF A!Options, A!VisibleUsers, A!TeamIds, People
  <2>6. A!Give("assign", q) \in A!LeadsScreen(p, record)
    BY <1>1, <2>2, <2>5 DEF A!LeadsScreen
  <2>7. A!Give("assign", q) \in A!Upcoming(p)
    BY <1>0, <1>1, <2>2, <2>4, <2>6 DEF A!Upcoming, A!Offers, A!OffersOld, A!Viewers, A!Sellers
  <2>8. A!Give("assign", q).what \in {"assign"} /\ ~A!KnownRefusal(p, A!Give("assign", q))
    BY <2>2 DEF A!Give, A!KnownRefusal
  <2> QED
    BY <2>7, <2>8, OfferedToSomebody
<1>2. ASSUME kind = "contract", ~record.paid, NEW p \in A!Active, RoleOf[p] = "accountant"
      PROVE  A!Somebody({"deposit"})
  <2>1. A!Sees(p, record)
    BY <1>2 DEF A!Sees, A!InScope, A!Routes, A!ContractRoutes
  <2>2. A!Do("deposit") \in A!ContractDetailScreen(p, record)
    BY <1>2 DEF A!ContractDetailScreen, A!CanConfirmDeposit
  <2>3. A!Do("deposit") \in A!Upcoming(p)
    BY <1>0, <1>2, <2>1, <2>2 DEF A!Upcoming, A!Offers, A!OffersOld, A!Viewers
  <2>4. A!Do("deposit").what \in {"deposit"} /\ ~A!KnownRefusal(p, A!Do("deposit"))
    BY <1>2 DEF A!Do, A!KnownRefusal
  <2> QED
    BY <2>3, <2>4, OfferedToSomebody
<1>3. ASSUME A!OwnerOrHead \cap A!Active # {}, kind \in {"booking", "lead"},
             record.status \in {"active", "assigned"}
      PROVE  A!Somebody({"convert"})
  <2>1. PICK p \in A!Active : RoleOf[p] \in A!SellerEditors /\ A!Sees(p, record)
    BY <1>3, OwnerWorksOnIt
  <2>2. kind = "booking" => record.status = "active"
    BY <1>3 DEF AccessInv, RecordIsSound
  <2>3. kind = "lead" => record.status = "assigned"
    BY <1>3 DEF AccessInv, RecordIsSound
  <2>4. A!Do("convert") \in A!OffersOld(p, record)
    BY <1>3, <2>1, <2>2, <2>3
       DEF A!OffersOld, A!BookingDetailScreen, A!LeadsScreen, A!DoEach
  <2>5. RoleOf[p] \in A!Viewers[kind]
    BY <1>3, <2>1 DEF A!Viewers, A!Sellers, A!SellerEditors
  <2>6. A!Do("convert") \in A!Upcoming(p)
    BY <1>0, <1>3, <2>1, <2>4, <2>5 DEF A!Upcoming, A!Offers
  <2>7. A!Do("convert").what \in {"convert"} /\ ~A!KnownRefusal(p, A!Do("convert"))
    BY <2>1 DEF A!Do, A!KnownRefusal, A!SellerEditors
  <2> QED
    BY <2>6, <2>7, OfferedToSomebody
<1>4. ASSUME A!OwnerOrHead \cap A!Active # {}, kind = "contract", ~record.file
      PROVE  A!Somebody({"upload"})
  <2>1. PICK p \in A!Active : RoleOf[p] \in A!SellerEditors /\ A!Sees(p, record)
    BY <1>4, OwnerWorksOnIt
  <2>2. record.status # "signed"
    BY <1>4 DEF AccessInv, RecordIsSound, A!DeriveContractStatus
  <2>3. A!Do("upload") \in A!ContractDetailScreen(p, record)
    BY <2>1 DEF A!ContractDetailScreen, A!CanManageContractFile, A!Sellers, A!SellerEditors
  <2>4. A!Do("upload") \in A!Upcoming(p)
    BY <1>0, <1>4, <2>1, <2>3
       DEF A!Upcoming, A!Offers, A!OffersOld, A!Viewers, A!Sellers, A!SellerEditors
  <2>5. A!Do("upload").what \in {"upload"} /\ ~A!KnownRefusal(p, A!Do("upload"))
    BY <2>1, <2>2 DEF A!Do, A!KnownRefusal, A!SellerEditors
  <2> QED
    BY <2>4, <2>5, OfferedToSomebody
<1> QED
  BY <1>1, <1>2, <1>3, <1>4 DEF A!WorkIsOffered

LEMMA ReadsAreServed ==
  ASSUME NEW role \in A!AllRoles, NEW item \in A!NavItems(role),
         NEW roles \in A!Reads(role, item)
  PROVE  role \in roles
<1>1. item \in DOMAIN A!NavRoles /\ role \in A!NavRoles[item]
  BY DEF A!NavItems
<1>2. CASE item = "dashboard"
  <2>1. roles \in A!Home(role)
    BY <1>2 DEF A!Reads
  <2> QED
    BY <2>1 DEF A!Home, A!Pages, A!Lists, A!PageRoutes, A!Routes, A!ReportRoles,
       A!ShiftRoles, A!EntryRoutes, A!ContractRoutes, A!Sellers
<1>3. CASE item \in {"leads", "bookings", "contracts"}
  BY <1>1, <1>3 DEF A!Reads, A!NavRoles, A!If, A!Pages, A!Lists, A!PageRoutes, A!Routes,
     A!LeadRoutes, A!BookingRoutes, A!ContractRoutes, A!Viewers, A!Sellers, A!CanListUsers
<1>4. CASE item = "shifts"
  BY <1>1, <1>4 DEF A!Reads, A!NavRoles, A!If, A!Pages, A!Lists, A!PageRoutes, A!Routes,
     A!DayOffRoutes, A!Viewers, A!Sellers, A!CanListUsers, A!ShiftRoles
<1>5. CASE item \in {"payroll", "finance"}
  BY <1>1, <1>5 DEF A!Reads, A!NavRoles, A!If, A!Pages, A!Lists, A!PageRoutes, A!Routes,
     A!EntryRoutes, A!TransactionRoutes, A!Viewers
<1>6. CASE item \in {"reports", "users"}
  BY <1>1, <1>6 DEF A!Reads, A!NavRoles, A!If, A!Pages, A!PageRoutes, A!ReportRoles,
     A!CanListUsers
<1>7. CASE item \in {"profile", "reception"}
  BY <1>7 DEF A!Reads
<1> QED
  BY <1>1, <1>2, <1>3, <1>4, <1>5, <1>6, <1>7 DEF A!NavRoles

LEMMA NavigationIs == A!NavigationIsServed
<1>1. \A role \in A!AllRoles : A!CreatableRoles[role] = A!RoleCreationMatrix[role]
  BY DEF A!CreatableRoles, A!RoleCreationMatrix
<1> QED
  BY <1>1, ReadsAreServed DEF A!NavigationIsServed

-----------------------------------------------------------------------------
endsVars ==
  <<part, vars, codeVars, createVars, cardVars, queueVars, listVars, accessVars>>

LEMMA EndsMove ==
  /\ EndsInit => F!Init /\ N!Init /\ C!Init /\ P!Init /\ L!Init /\ A!Init
  /\ [EndsNext]_endsVars =>
       /\ [F!Next]_codeVars /\ [N!Next]_createVars /\ [C!Next]_cardVars
       /\ [P!Next]_queueVars /\ [L!Next]_listVars /\ [A!Next]_accessVars
BY DEF EndsInit, EndsNext, endsVars

LEMMA EndsHold ==
  EndsSpec =>
    [](FormInv /\ CreateInv) /\ [](CardInv /\ QueueInv) /\ []ListInv /\ []AccessInv
<1> DEFINE Inv == FormInv /\ CreateInv /\ CardInv /\ QueueInv /\ ListInv /\ AccessInv
<1>1. EndsInit => Inv
  BY EndsMove, FormInit, CreateInit, CardInit, QueueInit, ListInit, AccessInit
<1>2. Inv /\ [EndsNext]_endsVars => Inv'
  BY EndsMove, FormStep, CreateStep, CardStep, QueueStep, PagesStep, AccessStep
<1> QED
  BY <1>1, <1>2, PTL DEF EndsSpec, endsVars

\* A form that waits for a code holds the challenge of the last one it asked for,
\* what is done under it was on the screen then, and nobody is recorded with a
\* consent that is another's, in whatever order the answers come, however often
\* codes are asked for and forms left (useEmailCodeConfirm and its users,
\* BuyerConsent and the forms that show it).
THEOREM FormsDoAsShown == EndsSpec => []DoneAsShown
<1>1. FormInv /\ CreateInv => DoneAsShown
  <2> SUFFICES ASSUME FormInv, CreateInv PROVE DoneAsShown
    OBVIOUS
  <2>1. F!HeldIsOfLastAsk
    BY FormsAre DEF FormInv, FormType, F!HeldIsOfLastAsk, F!Waiting, IssuedFor
  <2>2. N!ConsentIsItsOwn
    BY DEF CreateInv, ItsOwn, N!ConsentIsItsOwn
  <2> QED
    BY <2>1, <2>2 DEF DoneAsShown, FormInv
<1> QED
  BY <1>1, EndsHold, PTL

\* What was filled in once is created once, the writes of a card are never on the
\* way together, and what is resolved is not offered again, for any number of
\* fillings, corrections and actions in the queue (the forms that create
\* something, PayrollEntryDetail and TransactionCard, PendingActionRow).
THEOREM NothingGoesTwice == EndsSpec => []NothingIsSentTwice
<1>1. CreateInv /\ CardInv /\ QueueInv => NothingIsSentTwice
  <2> SUFFICES ASSUME CreateInv, CardInv, QueueInv PROVE NothingIsSentTwice
    OBVIOUS
  <2>1. N!CreatedOnce
    BY DEF CreateInv, N!CreatedOnce
  <2>2. C!OneWriteAtATime
    BY DEF CardInv, C!OneWriteAtATime
  <2>3. P!ResolvedOnce
    <3> SUFFICES ASSUME ~forgot PROVE /\ \A a \in resolved : ~P!Offered(a)
                                      /\ \A c, d \in sent : c.action = d.action => c = d
      BY DEF P!ResolvedOnce
    <3>1. RowsWait
      BY DEF QueueInv
    <3>2. \A a \in resolved : a \in P!Rows => P!Busy(a)
      BY <3>1 DEF RowsWait, P!Busy
    <3> QED
      BY <3>1, <3>2 DEF RowsWait, P!Offered
  <2> QED
    BY <2>1, <2>2, <2>3 DEF NothingIsSentTwice
<1> QED
  BY <1>1, EndsHold, PTL

\* No filter and no page leads to an empty page after the first, unless a row has
\* left the filter meanwhile, for any filters, any size of a page and any number of
\* rows, however old the answers of the cache are (the six screens with a list).
THEOREM NoPageIsBlank == EndsSpec => []NoBlankPage
<1>1. ListInv => NoBlankPage
  <2> SUFFICES ASSUME ListInv, L!Page, offset > 0, ~gone PROVE L!Items # 0
    BY DEF NoBlankPage, L!NoBlankPage
  <2>1. L!Key \in DOMAIN known /\ L!Key[1] = applied /\ L!Key[2] = offset
    BY DEF L!Page, L!Loaded, L!Key
  <2>2. TrueAnswer(rows, applied, offset, known[L!Key])
    BY <2>1 DEF ListInv, PagesAreTrue
  <2> QED
    BY <2>2 DEF TrueAnswer, L!Items
<1> QED
  BY <1>1, EndsHold, PTL

\* On a page that is up to date the server refuses a button exactly if it is one of
\* the known ones; from pages however old nobody writes what is not theirs; what is
\* left to do is offered to somebody; and the menu leads to no refusal: in every
\* organisation, with any teams and whoever of it leaves (access.ts of the
\* features, the controllers' decorators, SalesAccessService and the services).
THEOREM RightsHold == EndsSpec => []RightsAgree
<1>1. AccessInv => RightsAgree
  BY OfferedIs, WorkIs, NavigationIs DEF AccessInv, RightsAgree, A!OnlyTheResponsibleWrite
<1> QED
  BY <1>1, EndsHold, PTL
=============================================================================
