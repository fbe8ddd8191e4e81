------------------------ MODULE ConfirmationsProofs ------------------------
(***************************************************************************)
(* Proofs about Confirmations, for any number of actions, Directors and    *)
(* requests and any limits, and about the parts of MCParts: the cache and  *)
(* the messages of the frontend, the daily reports with the sales report   *)
(* and the figures of the dashboards.                                      *)
(***************************************************************************)
EXTENDS MCParts, FiniteSetTheorems, Sequences, SequenceTheorems, TLAPS

Working == {"execute", "revoke", "downgrade"}

LEMMA RequestFields ==
  ASSUME NEW x \in Request
  PROVE  /\ x.op # "idle" => x.action \in Actions
         /\ x.op \in {"claim", "execute", "revoke", "downgrade"} => x.director \in Directors
         /\ x.op \in {"countRead", "countWrite"} => x.retry \in 0 .. Retries - 1
         /\ x.op = "countWrite" => x.seen \in 0 .. MaxAttempts
BY DEF Request, Idle

LEMMA Requested ==
  /\ Idle \in Request
  /\ \A p \in Actions :
       /\ [op |-> "reject", action |-> p] \in Request
       /\ [op |-> "expire", action |-> p] \in Request
       /\ \A d \in Directors : [op |-> "claim", action |-> p, director |-> d] \in Request
       /\ \A i \in 0 .. Retries - 1 :
            /\ [op |-> "countRead", action |-> p, retry |-> i] \in Request
            /\ \A n \in 0 .. MaxAttempts :
                 [op |-> "countWrite", action |-> p, retry |-> i, seen |-> n] \in Request
BY DEF Request

\* The next operation of a request that has claimed an action.
LEMMA Advance ==
  ASSUME NEW x \in Request, x.op \in {"claim", "execute", "revoke", "downgrade"},
         NEW op \in Working
  PROVE  /\ [x EXCEPT !.op = op] \in Request
         /\ [x EXCEPT !.op = op].op = op
         /\ [x EXCEPT !.op = op].action = x.action
         /\ [x EXCEPT !.op = op].director = x.director
BY DEF Request, Idle, Working

LEMMA GotoKeepsType ==
  ASSUME TypeOK, NEW r \in Requests, NEW x \in Request, Goto(r, x)
  PROVE  /\ req' \in [Requests -> Request]
         /\ req'[r] = x
         /\ \A r2 \in Requests : r2 # r => req'[r2] = req[r2]
BY DEF TypeOK, Goto

-----------------------------------------------------------------------------
(***************************************************************************)
(* The inductive invariant.  A request that has claimed an action is alone *)
(* with it, and the action is no longer pending: it may be rejected or     *)
(* expired behind the request's back, but never claimed again.             *)
(***************************************************************************)
HolderInv(r) ==
  req[r].op \in Working =>
    /\ action[req[r].action].status \in {"confirmed", "rejected", "expired"}
    /\ action[req[r].action].by = req[r].director
    /\ req[r].op = "execute" =>
         effect[req[r].action] = "none" /\ executions[req[r].action] = 0
    /\ req[r].op = "revoke" => effect[req[r].action] = "half"
    /\ req[r].op = "downgrade" => effect[req[r].action] # "done"

Alone(p) == \A r1, r2 \in Requests : Holds(r1, p) /\ Holds(r2, p) => r1 = r2

RowInv(p) ==
  /\ executions[p] <= 1
  /\ wrong[p] = action[p].attempts
  /\ action[p].status \in {"unborn", "pending"} =>
       effect[p] = "none" /\ executions[p] = 0
  /\ action[p].status = "unborn" => action[p].attempts = 0
  /\ action[p].status = "pending" => action[p].attempts < MaxAttempts
  /\ action[p].status = "failed" => effect[p] # "done"

Completed(p) ==
  action[p].status = "confirmed" /\ ~lost[p] /\ (\A r \in Requests : ~Holds(r, p))
    => effect[p] = "done"

ConfirmationsInv ==
  /\ TypeOK
  /\ \A r \in Requests : HolderInv(r)
  /\ \A p \in Actions : Alone(p) /\ RowInv(p) /\ Completed(p)

LEMMA InvInit == Init => ConfirmationsInv
<1> SUFFICES ASSUME Init PROVE ConfirmationsInv
  OBVIOUS
<1>1. TypeOK
  <2>1. [status: {"unborn"}, by: {None}, late: {FALSE},
         type: {"create_user", "disable_user"}, attempts: {0}] \subseteq ActionRow
    <3>1. 0 \in 0 .. MaxAttempts
      BY ConfirmationsAssumption
    <3>2. ASSUME NEW row \in [status: {"unborn"}, by: {None}, late: {FALSE},
                              type: {"create_user", "disable_user"}, attempts: {0}]
          PROVE  row \in ActionRow
      BY <3>1 DEF ActionRow
    <3>3. QED
      BY <3>2
  <2>2. action \in [Actions -> ActionRow]
    BY <2>1 DEF Init
  <2>3. QED
    BY <2>2, Requested DEF Init, TypeOK
<1>2. \A p \in Actions : action[p].status = "unborn" /\ action[p].attempts = 0
  BY DEF Init
<1>3. \A r \in Requests : HolderInv(r)
  BY DEF Init, HolderInv, Working, Idle
<1>4. ASSUME NEW p \in Actions PROVE Alone(p) /\ RowInv(p) /\ Completed(p)
  BY <1>2 DEF Init, Alone, Holds, Idle, RowInv, Completed
<1>5. QED
  BY <1>1, <1>3, <1>4 DEF ConfirmationsInv

-----------------------------------------------------------------------------
(***************************************************************************)
(* A step of request r about action p.  The other requests, and the other  *)
(* actions, notice it only if they have claimed p too.                     *)
(***************************************************************************)
About(r, p, x) ==
  /\ Goto(r, x)
  /\ x.op \in Working => x.action = p
  /\ req[r].op \in Working => req[r].action = p
  /\ action' \in [Actions -> ActionRow]
  /\ effect' \in [Actions -> {"none", "half", "done"}]
  /\ wrong' \in [Actions -> Nat]
  /\ executions' \in [Actions -> Nat]
  /\ lost' \in [Actions -> BOOLEAN]
  /\ \A q \in Actions : q # p =>
       /\ action'[q] = action[q] /\ effect'[q] = effect[q] /\ wrong'[q] = wrong[q]
       /\ executions'[q] = executions[q] /\ lost'[q] = lost[q]

LEMMA StepAbout ==
  ASSUME ConfirmationsInv, NEW r \in Requests, NEW p \in Actions, NEW x \in Request,
         About(r, p, x),
         \A r2 \in Requests : r2 # r /\ Holds(r2, p) =>
           /\ x.op \notin Working
           /\ effect'[p] = effect[p] /\ executions'[p] = executions[p]
           /\ action'[p].by = action[p].by
           /\ action'[p].status \in {"confirmed", "rejected", "expired"},
         HolderInv(r)', RowInv(p)', Completed(p)'
  PROVE  ConfirmationsInv'
<1>1. TypeOK
  BY DEF ConfirmationsInv
<1>2. /\ req' \in [Requests -> Request] /\ req'[r] = x
      /\ \A r2 \in Requests : r2 # r => req'[r2] = req[r2]
  BY <1>1, GotoKeepsType DEF About
<1>3. TypeOK'
  BY <1>2 DEF TypeOK, About
<1>4. ASSUME NEW r2 \in Requests PROVE HolderInv(r2)'
  <2>1. CASE r2 = r
    BY <2>1
  <2>2. CASE r2 # r /\ req[r2].op \notin Working
    BY <1>2, <2>2 DEF HolderInv
  <2>3. CASE r2 # r /\ req[r2].op \in Working
    <3>1. req'[r2] = req[r2] /\ req[r2].action \in Actions
      BY <1>1, <1>2, <2>3, RequestFields DEF TypeOK, Working
    <3>2. HolderInv(r2)
      BY DEF ConfirmationsInv
    <3>3. CASE req[r2].action = p
      BY <2>3, <3>1, <3>2, <3>3 DEF HolderInv, Holds, Working
    <3>4. CASE req[r2].action # p
      BY <2>3, <3>1, <3>2, <3>4 DEF HolderInv, About
    <3>5. QED
      BY <3>3, <3>4
  <2>4. QED
    BY <2>1, <2>2, <2>3
<1>5. ASSUME NEW q \in Actions PROVE Alone(q)'
  <2>1. Alone(q)
    BY DEF ConfirmationsInv
  <2>2. \A r2 \in Requests : r2 # r => (Holds(r2, q)' <=> Holds(r2, q))
    BY <1>2 DEF Holds
  <2>3. ASSUME Holds(r, q)' PROVE \A r2 \in Requests : r2 # r => ~Holds(r2, q)
    <3>1. x.op \in Working /\ q = p
      BY <1>2, <2>3 DEF Holds, About, Working
    <3>2. QED
      BY <3>1
  <2>4. QED
    BY <2>1, <2>2, <2>3 DEF Alone
<1>6. ASSUME NEW q \in Actions PROVE RowInv(q)' /\ Completed(q)'
  <2>1. CASE q = p
    BY <2>1
  <2>2. CASE q # p
    <3>1. /\ action'[q] = action[q] /\ effect'[q] = effect[q] /\ wrong'[q] = wrong[q]
          /\ executions'[q] = executions[q] /\ lost'[q] = lost[q]
      BY <2>2 DEF About
    <3>2. RowInv(q)'
      BY <3>1 DEF ConfirmationsInv, RowInv
    <3>3. \A r2 \in Requests : Holds(r2, q)' <=> Holds(r2, q)
      BY <1>2, <2>2 DEF Holds, About, Working
    <3>4. Completed(q)'
      BY <3>1, <3>3 DEF ConfirmationsInv, Completed
    <3>5. QED
      BY <3>2, <3>4
  <2>3. QED
    BY <2>1, <2>2
<1>7. QED
  BY <1>3, <1>4, <1>5, <1>6 DEF ConfirmationsInv

\* A request that only remembers what it read.
LEMMA StepRemember ==
  ASSUME ConfirmationsInv, NEW r \in Requests, NEW p \in Actions, NEW x \in Request,
         Remember(r, x),
         x.op \in Working => x.action = p /\ Holds(r, p),
         req[r].op \in Working => req[r].action = p,
         Holds(r, p) => x.op \in Working,
         HolderInv(r)'
  PROVE  ConfirmationsInv'
<1>1. About(r, p, x)
  BY DEF ConfirmationsInv, TypeOK, Remember, About
<1>2. /\ req'[r] = x /\ \A r2 \in Requests : r2 # r => req'[r2] = req[r2]
      /\ UNCHANGED <<action, effect, wrong, executions, lost>>
  BY GotoKeepsType DEF ConfirmationsInv, Remember
<1>3. RowInv(p)'
  BY <1>2 DEF ConfirmationsInv, RowInv
<1>4. \A r2 \in Requests : Holds(r2, p)' <=> Holds(r2, p)
  BY <1>2 DEF Holds, Working
<1>5. Completed(p)'
  BY <1>2, <1>4 DEF ConfirmationsInv, Completed
<1>6. ASSUME NEW r2 \in Requests, r2 # r, Holds(r2, p)
      PROVE  /\ x.op \notin Working
             /\ effect'[p] = effect[p] /\ executions'[p] = executions[p]
             /\ action'[p].by = action[p].by
             /\ action'[p].status \in {"confirmed", "rejected", "expired"}
  <2>1. Alone(p) /\ HolderInv(r2)
    BY DEF ConfirmationsInv
  <2>2. ~Holds(r, p)
    BY <1>6, <2>1 DEF Alone
  <2>3. QED
    BY <1>2, <1>6, <2>1, <2>2 DEF HolderInv, Holds, Working
<1>7. QED
  BY <1>1, <1>3, <1>5, <1>6, StepAbout

\* A request that has claimed nothing changes only status, lateness, attempts.
LEMMA StepRow ==
  ASSUME ConfirmationsInv, NEW r \in Requests, NEW p \in Actions,
         req[r].op \notin Working, Goto(r, Idle),
         action' \in [Actions -> ActionRow], wrong' \in [Actions -> Nat],
         UNCHANGED <<effect, executions, lost>>,
         \A q \in Actions : q # p => action'[q] = action[q] /\ wrong'[q] = wrong[q],
         action'[p].by = action[p].by,
         action[p].status # "pending" =>
           action'[p].status \in {action[p].status, "rejected", "expired"},
         action'[p].status # "confirmed" \/ action[p].status = "confirmed",
         RowInv(p)'
  PROVE  ConfirmationsInv'
<1>1. About(r, p, Idle)
  BY DEF ConfirmationsInv, TypeOK, About, Working, Idle
<1>2. req'[r] = Idle /\ \A r2 \in Requests : r2 # r => req'[r2] = req[r2]
  BY Requested, GotoKeepsType DEF ConfirmationsInv
<1>3. HolderInv(r)'
  BY <1>2 DEF HolderInv, Working, Idle
<1>4. \A r2 \in Requests : Holds(r2, p)' <=> Holds(r2, p)
  BY <1>2 DEF Holds, Working, Idle
<1>5. Completed(p)'
  BY <1>4 DEF ConfirmationsInv, Completed
<1>6. ASSUME NEW r2 \in Requests, r2 # r, Holds(r2, p)
      PROVE  action'[p].status \in {"confirmed", "rejected", "expired"}
  <2>1. action[p].status \in {"confirmed", "rejected", "expired"}
    BY <1>6 DEF ConfirmationsInv, HolderInv, Holds, Working
  <2>2. QED
    BY <2>1
<1>7. QED
  BY <1>1, <1>3, <1>5, <1>6, Requested, StepAbout DEF Idle, Working

LEMMA ReadStep ==
  ASSUME ConfirmationsInv, NEW r \in Requests, NEW p \in Actions,
         \/ ExpireRead(r, p) \/ RejectRead(r, p)
         \/ \E d \in Directors, right \in BOOLEAN : ConfirmRead(r, p, d, right)
  PROVE  ConfirmationsInv'
<1>1. ASSUME NEW x \in Request, Remember(r, x), req[r] = Idle, x.op \notin Working
      PROVE  ConfirmationsInv'
  <2>1. req'[r] = x
    BY <1>1, GotoKeepsType DEF ConfirmationsInv, Remember
  <2>2. HolderInv(r)'
    BY <1>1, <2>1 DEF HolderInv
  <2>3. req[r].op \notin Working /\ ~Holds(r, p)
    BY <1>1 DEF Holds, Working, Idle
  <2>4. QED
    BY <1>1, <2>2, <2>3, StepRemember
<1>2. CASE ExpireRead(r, p)
  BY <1>1, <1>2, Requested DEF ExpireRead, Working
<1>3. CASE RejectRead(r, p)
  BY <1>1, <1>3, Requested DEF RejectRead, Working
<1>4. ASSUME NEW d \in Directors, NEW right \in BOOLEAN, ConfirmRead(r, p, d, right)
      PROVE  ConfirmationsInv'
  <2>1. CASE right
    BY <1>1, <1>4, <2>1, Requested DEF ConfirmRead, Working
  <2>2. CASE ~right
    <3>1. 0 \in 0 .. Retries - 1
      BY ConfirmationsAssumption
    <3>2. QED
      BY <1>1, <1>4, <2>2, <3>1, Requested DEF ConfirmRead, Working
  <2>3. QED
    BY <2>1, <2>2
<1>5. QED
  BY <1>2, <1>3, <1>4

LEMMA OverwriteStep ==
  ASSUME ConfirmationsInv, NEW r \in Requests, ExpireWrite(r) \/ RejectWrite(r)
  PROVE  ConfirmationsInv'
<1>1. PICK p \in Actions : p = req[r].action
  BY RequestFields DEF ExpireWrite, RejectWrite, ConfirmationsInv, TypeOK
<1>2. PICK status \in {"expired", "rejected"} : action' = [action EXCEPT ![p].status = status]
  BY <1>1 DEF ExpireWrite, RejectWrite
<1>3. /\ req[r].op \notin Working /\ Goto(r, Idle)
      /\ UNCHANGED <<effect, wrong, executions, lost>>
  BY DEF ExpireWrite, RejectWrite, Working
<1>4. action' \in [Actions -> ActionRow]
  BY <1>2 DEF ConfirmationsInv, TypeOK, ActionRow, Status
<1>5. /\ action'[p].status = status /\ action'[p].by = action[p].by
      /\ action'[p].attempts = action[p].attempts
      /\ \A q \in Actions : q # p => action'[q] = action[q]
  BY <1>2 DEF ConfirmationsInv, TypeOK, ActionRow
<1>6. RowInv(p)'
  BY <1>3, <1>5 DEF ConfirmationsInv, RowInv
<1>7. QED
  BY <1>3, <1>4, <1>5, <1>6, StepRow DEF ConfirmationsInv, TypeOK

LEMMA ClaimStep ==
  ASSUME ConfirmationsInv, NEW r \in Requests, Claim(r)
  PROVE  ConfirmationsInv'
<1>1. PICK p \in Actions : p = req[r].action /\ req[r].op = "claim"
  BY RequestFields DEF Claim, ConfirmationsInv, TypeOK
<1>2. /\ TypeOK /\ RowInv(p) /\ req[r] \in Request /\ req[r].director \in Directors
      /\ req[r].op \notin Working /\ ~Holds(r, p)
  BY <1>1, RequestFields DEF ConfirmationsInv, TypeOK, Holds, Working
<1>3. CASE ~Pending(p)
  <2>1. Remember(r, Idle)
    BY <1>1, <1>3 DEF Claim, Remember
  <2>2. HolderInv(r)'
    BY <1>2, <2>1, Requested, GotoKeepsType DEF HolderInv, Remember, Idle, Working
  <2>3. QED
    BY <1>2, <2>1, <2>2, Requested, StepRemember DEF Idle, Working
<1>4. CASE Pending(p)
  <2> DEFINE x == [req[r] EXCEPT !.op = "execute"]
  <2>1. /\ action' = [action EXCEPT ![p].status = "confirmed", ![p].by = req[r].director]
        /\ Goto(r, x) /\ UNCHANGED <<effect, wrong, executions, lost>>
    BY <1>1, <1>4 DEF Claim
  <2>2. /\ x \in Request /\ x.op = "execute" /\ x.action = p
        /\ x.director = req[r].director
    BY <1>1, <1>2, Advance DEF Working
  <2>3. action' \in [Actions -> ActionRow]
    <3>1. [action[p] EXCEPT !.status = "confirmed", !.by = req[r].director] \in ActionRow
      BY <1>2 DEF TypeOK, ActionRow, Status
    <3>2. action' = [action EXCEPT ![p] =
            [action[p] EXCEPT !.status = "confirmed", !.by = req[r].director]]
      BY <1>2, <2>1 DEF TypeOK
    <3>3. QED
      BY <1>2, <3>1, <3>2 DEF TypeOK
  <2>4. /\ action'[p].status = "confirmed" /\ action'[p].by = req[r].director
        /\ action'[p].attempts = action[p].attempts
        /\ \A q \in Actions : q # p => action'[q] = action[q]
    BY <1>2, <2>1 DEF TypeOK, ActionRow
  <2>5. req'[r] = x
    BY <1>2, <2>1, <2>2, GotoKeepsType
  <2>6. effect[p] = "none" /\ executions[p] = 0
    BY <1>2, <1>4 DEF RowInv, Pending
  <2> HIDE DEF x
  <2>7. HolderInv(r)'
    BY <2>1, <2>2, <2>4, <2>5, <2>6 DEF HolderInv
  <2>8. RowInv(p)'
    BY <1>2, <2>1, <2>4 DEF RowInv
  <2>9. Holds(r, p)'
    BY <2>2, <2>5 DEF Holds
  <2>10. Completed(p)'
    BY <2>9 DEF Completed
  <2>11. About(r, p, x)
    BY <1>2, <2>1, <2>2, <2>3, <2>4 DEF About, TypeOK
  <2>12. \A r2 \in Requests : ~Holds(r2, p)
    BY <1>4 DEF ConfirmationsInv, HolderInv, Holds, Working, Pending
  <2>13. QED
    BY <2>2, <2>7, <2>8, <2>10, <2>11, <2>12, StepAbout
<1>5. QED
  BY <1>3, <1>4

\* What a request that has claimed an action knows of it.
LEMMA HolderFacts ==
  ASSUME ConfirmationsInv, NEW r \in Requests, req[r].op \in Working
  PROVE  \E p \in Actions :
           /\ p = req[r].action /\ Holds(r, p) /\ HolderInv(r) /\ RowInv(p)
           /\ \A r2 \in Requests : r2 # r => ~Holds(r2, p)
           /\ req[r] \in Request /\ req[r].director \in Directors
<1>1. req[r] \in Request /\ req[r].action \in Actions /\ req[r].director \in Directors
  BY RequestFields DEF ConfirmationsInv, TypeOK, Working
<1>2. Holds(r, req[r].action)
  BY DEF Holds, Working
<1>3. QED
  BY <1>1, <1>2 DEF ConfirmationsInv, Alone

\* The execution of a claimed action.
LEMMA ExecuteStep ==
  ASSUME ConfirmationsInv, NEW r \in Requests,
         ExecuteCreate(r) \/ ExecuteDisable(r) \/ ExecuteRevoke(r)
  PROVE  ConfirmationsInv'
<1>1. req[r].op \in Working /\ TypeOK
  BY DEF ExecuteCreate, ExecuteDisable, ExecuteRevoke, Working, ConfirmationsInv
<1>2. PICK p \in Actions :
        /\ p = req[r].action /\ Holds(r, p) /\ HolderInv(r) /\ RowInv(p)
        /\ \A r2 \in Requests : r2 # r => ~Holds(r2, p)
        /\ req[r] \in Request /\ req[r].director \in Directors
  BY <1>1, HolderFacts
<1>3. action[p].status \in {"confirmed", "rejected", "expired"}
  BY <1>1, <1>2 DEF HolderInv
<1>4. CASE ExecuteCreate(r)
  <2>1. executions[p] = 0 /\ executions' = [executions EXCEPT ![p] = @ + 1]
    BY <1>2, <1>4 DEF ExecuteCreate, HolderInv, Working
  <2>2. /\ Goto(r, Idle) /\ UNCHANGED <<action, wrong, lost>>
        /\ effect' = [effect EXCEPT ![p] = "done"]
    BY <1>2, <1>4 DEF ExecuteCreate
  <2>3. About(r, p, Idle)
    BY <1>1, <1>2, <2>1, <2>2 DEF About, TypeOK, Idle, Working
  <2>4. executions'[p] = 1 /\ effect'[p] = "done"
    BY <1>1, <2>1, <2>2 DEF TypeOK
  <2>5. RowInv(p)' /\ Completed(p)'
    BY <1>2, <1>3, <2>2, <2>4 DEF RowInv, Completed
  <2>6. HolderInv(r)'
    BY <1>1, <2>2, Requested, GotoKeepsType DEF HolderInv, Idle, Working
  <2>7. QED
    BY <1>2, <2>3, <2>5, <2>6, Requested, StepAbout
<1>5. CASE ExecuteRevoke(r)
  <2>1. /\ Goto(r, Idle) /\ UNCHANGED <<action, wrong, executions, lost>>
        /\ effect' = [effect EXCEPT ![p] = "done"]
    BY <1>2, <1>5 DEF ExecuteRevoke
  <2>2. About(r, p, Idle)
    BY <1>1, <1>2, <2>1 DEF About, TypeOK, Idle, Working
  <2>3. effect'[p] = "done"
    BY <1>1, <2>1 DEF TypeOK
  <2>4. RowInv(p)' /\ Completed(p)'
    BY <1>2, <1>3, <2>1, <2>3 DEF RowInv, Completed
  <2>5. HolderInv(r)'
    BY <1>1, <2>1, Requested, GotoKeepsType DEF HolderInv, Idle, Working
  <2>6. QED
    BY <1>2, <2>2, <2>4, <2>5, Requested, StepAbout
<1>6. CASE ExecuteDisable(r)
  <2> DEFINE x == [req[r] EXCEPT !.op = "revoke"]
  <2>1. executions[p] = 0 /\ executions' = [executions EXCEPT ![p] = @ + 1]
    BY <1>2, <1>6 DEF ExecuteDisable, HolderInv, Working
  <2>2. /\ Goto(r, x) /\ UNCHANGED <<action, wrong, lost>>
        /\ effect' = [effect EXCEPT ![p] = "half"]
    BY <1>2, <1>6 DEF ExecuteDisable
  <2>3. x \in Request /\ x.op = "revoke" /\ x.action = p /\ x.director = req[r].director
    BY <1>1, <1>2, Advance DEF Working
  <2>4. req'[r] = x
    BY <1>1, <2>2, <2>3, GotoKeepsType
  <2> HIDE DEF x
  <2>5. About(r, p, x)
    BY <1>1, <1>2, <2>1, <2>2, <2>3 DEF About, TypeOK
  <2>6. executions'[p] = 1 /\ effect'[p] = "half"
    BY <1>1, <2>1, <2>2 DEF TypeOK
  <2>7. RowInv(p)'
    BY <1>2, <1>3, <2>2, <2>6 DEF RowInv
  <2>8. HolderInv(r)'
    BY <1>1, <1>2, <2>2, <2>3, <2>4, <2>6 DEF HolderInv
  <2>9. Completed(p)'
    BY <2>3, <2>4 DEF Completed, Holds
  <2>10. QED
    BY <1>2, <2>3, <2>5, <2>7, <2>8, <2>9, StepAbout
<1>7. QED
  BY <1>4, <1>5, <1>6

LEMMA FailStep ==
  ASSUME ConfirmationsInv, NEW r \in Requests, ExecuteFails(r) \/ Downgrade(r)
  PROVE  ConfirmationsInv'
<1>1. req[r].op \in Working /\ TypeOK
  BY DEF ExecuteFails, Downgrade, Working, ConfirmationsInv
<1>2. PICK p \in Actions :
        /\ p = req[r].action /\ Holds(r, p) /\ HolderInv(r) /\ RowInv(p)
        /\ \A r2 \in Requests : r2 # r => ~Holds(r2, p)
        /\ req[r] \in Request /\ req[r].director \in Directors
  BY <1>1, HolderFacts
<1>3. CASE ExecuteFails(r)
  <2> DEFINE x == [req[r] EXCEPT !.op = "downgrade"]
  <2>1. Remember(r, x)
    BY <1>3 DEF ExecuteFails
  <2>2. /\ x \in Request /\ x.op = "downgrade" /\ x.action = p
        /\ x.director = req[r].director
    BY <1>1, <1>2, Advance DEF Working
  <2>3. req'[r] = x
    BY <1>1, <2>1, <2>2, GotoKeepsType DEF Remember
  <2> HIDE DEF x
  <2>4. effect[p] # "done"
    BY <1>2, <1>3 DEF HolderInv, ExecuteFails, Working
  <2>5. HolderInv(r)'
    BY <1>1, <1>2, <2>1, <2>2, <2>3, <2>4 DEF HolderInv, Remember
  <2>6. QED
    BY <1>2, <2>1, <2>2, <2>5, StepRemember DEF Working
<1>4. CASE Downgrade(r)
  <2>1. /\ action[p].by = req[r].director /\ effect[p] # "done"
        /\ action[p].status \in {"confirmed", "rejected", "expired"}
    BY <1>1, <1>2, <1>4 DEF HolderInv, Downgrade
  <2>2. /\ Goto(r, Idle) /\ UNCHANGED <<effect, wrong, executions, lost>>
        /\ action' = [action EXCEPT ![p] =
             IF action[p].status = "confirmed"
             THEN [action[p] EXCEPT !.status = "failed", !.by = None] ELSE action[p]]
    BY <1>2, <1>4, <2>1 DEF Downgrade
  <2>3. action[p] \in ActionRow
    BY <1>1 DEF TypeOK
  <2>4. [action[p] EXCEPT !.status = "failed", !.by = None] \in ActionRow
    BY <2>3 DEF ActionRow, Status
  <2>5. action' \in [Actions -> ActionRow]
    BY <1>1, <2>2, <2>4 DEF TypeOK
  <2>6. /\ action'[p].status \in {"failed", "rejected", "expired"}
        /\ action'[p].attempts = action[p].attempts
        /\ \A q \in Actions : q # p => action'[q] = action[q]
    <3>1. CASE action[p].status = "confirmed"
      <4>1. action'[p] = [action[p] EXCEPT !.status = "failed", !.by = None]
        BY <1>1, <2>2, <3>1 DEF TypeOK
      <4>2. QED
        BY <1>1, <2>2, <2>3, <4>1 DEF ActionRow, TypeOK
    <3>2. CASE action[p].status # "confirmed"
      BY <1>1, <2>1, <2>2, <3>2 DEF TypeOK
    <3>3. QED
      BY <3>1, <3>2
  <2>7. About(r, p, Idle)
    BY <1>1, <1>2, <2>2, <2>5, <2>6 DEF About, TypeOK, Idle, Working
  <2>8. RowInv(p)' /\ Completed(p)'
    BY <1>2, <2>1, <2>2, <2>6 DEF RowInv, Completed
  <2>9. HolderInv(r)'
    BY <1>1, <2>2, Requested, GotoKeepsType DEF HolderInv, Idle, Working
  <2>10. QED
    BY <1>2, <2>7, <2>8, <2>9, Requested, StepAbout
<1>5. QED
  BY <1>3, <1>4

\* A wrong code that is counted is counted exactly once: the swap happens only
\* while the action is pending with the attempts that were read.
LEMMA CountStep ==
  ASSUME ConfirmationsInv, NEW r \in Requests, CountRead(r) \/ CountWrite(r)
  PROVE  ConfirmationsInv'
<1>1. PICK p \in Actions : p = req[r].action
  BY RequestFields DEF CountRead, CountWrite, ConfirmationsInv, TypeOK
<1>2. /\ TypeOK /\ RowInv(p) /\ req[r] \in Request
      /\ req[r].op \notin Working /\ ~Holds(r, p)
      /\ req[r].retry \in 0 .. Retries - 1
      /\ action[p] \in ActionRow /\ action[p].attempts \in 0 .. MaxAttempts
  BY RequestFields
     DEF CountRead, CountWrite, ConfirmationsInv, TypeOK, Holds, Working, ActionRow
<1>3. ASSUME NEW x \in Request, Remember(r, x), x.op \notin Working
      PROVE  ConfirmationsInv'
  <2>1. HolderInv(r)'
    BY <1>2, <1>3, GotoKeepsType DEF HolderInv, Remember
  <2>2. QED
    BY <1>2, <1>3, <2>1, StepRemember
<1>4. CASE CountRead(r)
  <2>1. CASE Pending(p)
    BY <1>1, <1>2, <1>3, <1>4, <2>1, Requested DEF CountRead, Working
  <2>2. CASE ~Pending(p)
    BY <1>1, <1>3, <1>4, <2>2, Requested DEF CountRead, Working, Idle
  <2>3. QED
    BY <2>1, <2>2
<1>5. CASE CountWrite(r)
  <2> DEFINE swapped == Pending(p) /\ action[p].attempts = req[r].seen
  <2>1. CASE swapped
    <3>1. /\ action' = [action EXCEPT ![p] = AttemptRow(@)]
          /\ wrong' = [wrong EXCEPT ![p] = @ + 1]
          /\ Goto(r, Idle) /\ UNCHANGED <<effect, executions, lost>>
      BY <1>1, <1>5, <2>1 DEF CountWrite
    <3>2. /\ action[p].status = "pending" /\ action[p].attempts < MaxAttempts
          /\ action[p].attempts + 1 \in 0 .. MaxAttempts
      BY <1>2, <2>1, ConfirmationsAssumption DEF RowInv, Pending
    <3>3. /\ AttemptRow(action[p]) \in ActionRow
          /\ AttemptRow(action[p]).by = action[p].by
          /\ AttemptRow(action[p]).attempts = action[p].attempts + 1
          /\ AttemptRow(action[p]).status =
               IF action[p].attempts + 1 >= MaxAttempts THEN "failed" ELSE "pending"
      BY <1>2, <3>2 DEF AttemptRow, ActionRow, Status
    <3>4. /\ action' \in [Actions -> ActionRow] /\ action'[p] = AttemptRow(action[p])
          /\ wrong' \in [Actions -> Nat] /\ wrong'[p] = wrong[p] + 1
          /\ \A q \in Actions : q # p => action'[q] = action[q] /\ wrong'[q] = wrong[q]
      BY <1>2, <3>1, <3>3 DEF TypeOK
    <3>5. RowInv(p)'
      BY <1>2, <3>1, <3>2, <3>3, <3>4, ConfirmationsAssumption DEF RowInv
    <3>6. action'[p].status # "confirmed" /\ action'[p].by = action[p].by
      BY <3>3, <3>4
    <3>7. QED
      BY <1>2, <3>1, <3>2, <3>4, <3>5, <3>6, StepRow
  <2>2. CASE ~swapped /\ req[r].retry + 1 < Retries
    <3>1. req[r].retry + 1 # Retries
      BY <1>2, <2>2, ConfirmationsAssumption
    <3>2. Remember(r, [op |-> "countRead", action |-> p, retry |-> req[r].retry + 1])
      BY <1>1, <1>5, <2>2, <3>1 DEF CountWrite, Remember
    <3>3. req[r].retry + 1 \in 0 .. Retries - 1
      BY <1>2, <2>2, ConfirmationsAssumption
    <3>4. QED
      BY <1>3, <3>2, <3>3, Requested DEF Working
  <2>3. CASE ~swapped /\ ~(req[r].retry + 1 < Retries)
    <3>1. Remember(r, Idle)
      BY <1>1, <1>5, <2>3 DEF CountWrite, Remember
    <3>2. QED
      BY <1>3, <3>1, Requested DEF Working, Idle
  <2>4. QED
    BY <2>1, <2>2, <2>3
<1>6. QED
  BY <1>4, <1>5

LEMMA CrashStep ==
  ASSUME ConfirmationsInv, NEW r \in Requests, Crash(r)
  PROVE  ConfirmationsInv'
<1>1. TypeOK /\ Goto(r, Idle) /\ UNCHANGED <<action, effect, wrong, executions>>
  BY DEF Crash, ConfirmationsInv
<1>2. PICK p \in Actions : p = req[r].action
  <2>1. req[r] \in Request /\ (req[r].op = "idle" => req[r] = Idle)
    BY <1>1 DEF TypeOK, Request, Idle
  <2>2. QED
    BY <2>1, RequestFields DEF Crash
<1>3. CASE req[r].op \notin Working
  <2>1. Remember(r, Idle)
    BY <1>3 DEF Crash, Remember, Working
  <2>2. ~Holds(r, p)
    BY <1>3 DEF Holds, Working
  <2>3. HolderInv(r)'
    BY <1>1, Requested, GotoKeepsType DEF HolderInv, Idle, Working
  <2>4. QED
    BY <1>3, <2>1, <2>2, <2>3, Requested, StepRemember DEF Idle, Working
<1>4. CASE req[r].op \in Working
  <2>1. lost' = [lost EXCEPT ![p] = TRUE]
    BY <1>2, <1>4 DEF Crash, Working
  <2>2. About(r, p, Idle)
    BY <1>1, <1>2, <2>1 DEF About, TypeOK, Idle, Working
  <2>3. \A r2 \in Requests : r2 # r => ~Holds(r2, p)
    BY <1>2, <1>4, HolderFacts
  <2>4. RowInv(p)'
    BY <1>1 DEF ConfirmationsInv, RowInv
  <2>5. Completed(p)'
    BY <1>1, <2>1 DEF Completed, TypeOK
  <2>6. HolderInv(r)'
    BY <1>1, Requested, GotoKeepsType DEF HolderInv, Idle, Working
  <2>7. QED
    BY <2>2, <2>3, <2>4, <2>5, <2>6, Requested, StepAbout
<1>5. QED
  BY <1>3, <1>4

\* The steps of no request: an action is prepared, or grows late.
LEMMA RowStep ==
  ASSUME ConfirmationsInv, NEW p \in Actions, Initiate(p) \/ GrowLate(p)
  PROVE  ConfirmationsInv'
<1>1. TypeOK /\ UNCHANGED <<effect, req, wrong, executions, lost>>
  BY DEF Initiate, GrowLate, ConfirmationsInv
<1>2. /\ action' \in [Actions -> ActionRow]
      /\ action'[p].by = action[p].by /\ action'[p].attempts = action[p].attempts
      /\ \/ action'[p].status = action[p].status
         \/ action[p].status = "unborn" /\ action'[p].status = "pending"
      /\ \A q \in Actions : q # p => action'[q] = action[q]
  <2>1. CASE Initiate(p)
    BY <1>1, <2>1 DEF Initiate, TypeOK, ActionRow, Status
  <2>2. CASE GrowLate(p)
    BY <1>1, <2>2 DEF GrowLate, TypeOK, ActionRow
  <2>3. QED
    BY <2>1, <2>2
<1>3. ASSUME NEW q \in Actions PROVE Alone(q)' /\ RowInv(q)' /\ Completed(q)'
  <2>1. Alone(q) /\ RowInv(q) /\ Completed(q)
    BY DEF ConfirmationsInv
  <2>2. \A r \in Requests : Holds(r, q)' <=> Holds(r, q)
    BY <1>1 DEF Holds
  <2>3. Alone(q)' /\ Completed(q)'
    BY <1>1, <1>2, <2>1, <2>2 DEF Alone, Completed
  <2>4. RowInv(q)'
    BY <1>1, <1>2, <2>1, ConfirmationsAssumption DEF RowInv
  <2>5. QED
    BY <2>3, <2>4
<1>4. ASSUME NEW r \in Requests PROVE HolderInv(r)'
  <2>1. HolderInv(r) /\ (req[r].op \in Working => req[r].action \in Actions)
    BY RequestFields DEF ConfirmationsInv, TypeOK, Working
  <2>2. QED
    BY <1>1, <1>2, <2>1 DEF HolderInv
<1>5. QED
  BY <1>1, <1>2, <1>3, <1>4 DEF ConfirmationsInv, TypeOK

LEMMA InvStep == ConfirmationsInv /\ [Next]_vars => ConfirmationsInv'
<1> SUFFICES ASSUME ConfirmationsInv, [Next]_vars PROVE ConfirmationsInv'
  OBVIOUS
<1>1. CASE UNCHANGED vars
  BY <1>1 DEF vars, ConfirmationsInv, TypeOK, HolderInv, Alone, Holds, RowInv, Completed
<1>2. ASSUME NEW p \in Actions, Initiate(p) \/ GrowLate(p) PROVE ConfirmationsInv'
  BY <1>2, RowStep
<1>3. ASSUME NEW r \in Requests, NEW p \in Actions,
             \/ ExpireRead(r, p) \/ RejectRead(r, p)
             \/ \E d \in Directors, right \in BOOLEAN : ConfirmRead(r, p, d, right)
      PROVE  ConfirmationsInv'
  BY <1>3, ReadStep
<1>4. ASSUME NEW r \in Requests,
             \/ ExpireWrite(r) \/ RejectWrite(r) \/ Claim(r)
             \/ ExecuteCreate(r) \/ ExecuteDisable(r) \/ ExecuteRevoke(r)
             \/ ExecuteFails(r) \/ Downgrade(r)
             \/ CountRead(r) \/ CountWrite(r)
             \/ Crash(r)
      PROVE  ConfirmationsInv'
  BY <1>4, OverwriteStep, ClaimStep, ExecuteStep, FailStep, CountStep, CrashStep
<1>5. QED
  BY <1>1, <1>2, <1>3, <1>4 DEF Next

LEMMA InvHolds == Spec => []ConfirmationsInv
BY InvInit, InvStep, PTL DEF Spec

-----------------------------------------------------------------------------
\* The tables and the requests in flight keep their types: the attempts of an
\* action never exceed MaxAttempts.
THEOREM TypeCorrect == Spec => []TypeOK
<1>1. ConfirmationsInv => TypeOK
  BY DEF ConfirmationsInv
<1>2. QED
  BY <1>1, InvHolds, PTL

\* An action is executed at most once, by one request (ConfirmationsService.confirm).
THEOREM ActionIsExecutedOnce == Spec => []ExecutedAtMostOnce
<1>1. ConfirmationsInv => ExecutedAtMostOnce
  BY DEF ConfirmationsInv, RowInv, Alone, ExecutedAtMostOnce
<1>2. QED
  BY <1>1, InvHolds, PTL

\* A confirmed action that no request is working on has been executed, unless
\* the process died in it; a failed one has not (the downgrade in confirm).
THEOREM RowsTellTheTruth == Spec => []ResolutionIsTruthful
<1>1. ConfirmationsInv => ResolutionIsTruthful
  BY DEF ConfirmationsInv, RowInv, Completed, ResolutionIsTruthful
<1>2. QED
  BY <1>1, InvHolds, PTL

\* Every answered wrong code is counted exactly once (recordFailedAttempt).
THEOREM NoGuessIsLost == Spec => []GuessesAreCounted
<1>1. ConfirmationsInv => GuessesAreCounted
  BY DEF ConfirmationsInv, RowInv, GuessesAreCounted
<1>2. QED
  BY <1>1, InvHolds, PTL

-----------------------------------------------------------------------------
(***************************************************************************)
(* QueryCache (Q).  A button comes back over data that show the outcome,   *)
(* because what a form waits for was asked for after the form was carried  *)
(* out: as long as the data are older, either the request in flight was    *)
(* read later or will be, or the last one has failed and the view says so. *)
(***************************************************************************)
RequestType ==
  {Q!Idle} \cup [op: {"sent"}, by: Nat] \cup [op: {"read"}, by: Nat, data: Nat]

EntryType ==
  [data: Nat \cup {None}, by: Nat, invalid: BOOLEAN, failed: BOOLEAN, request: RequestType]

CallType ==
       {Q!Idle}
  \cup [op: {"sent"}, form: DOMAIN forms, home: Q!Views, user: Users, attached: BOOLEAN]
  \cup [op: {"done"}, at: Nat, form: DOMAIN forms, home: Q!Views, user: Users,
        attached: BOOLEAN]
  \cup [op: {"loading"}, form: DOMAIN forms, home: Q!Views, for: SUBSET Q!Views,
        attached: {TRUE}]

CacheType ==
  /\ forms \in Q!Features /\ opened \subseteq Q!Views
  /\ session \in Nat /\ writes \in Nat
  /\ user \in Users \cup {None}
  /\ entry \in [Q!Views -> EntryType]
  /\ mounted \subseteq Q!Views
  /\ call \in [Calls -> CallType]
  /\ \A c \in Calls : call[c] # Q!Idle => call[c].home = forms[call[c].form].home
  /\ shown \in [DOMAIN forms -> Nat]

\* The requests of a session end with it.
OfSession(e) ==
  /\ e.data # None => user # None /\ e.by = session
  /\ e.request # Q!Idle => user # None /\ e.request.by = session

\* No answer is older than what is there.
InOrder(e) ==
  /\ e.data # None => e.data <= writes
  /\ e.request.op = "read" =>
       e.request.data <= writes /\ (e.data # None => e.data <= e.request.data)

Submitted(c) == call[c].op \in {"sent", "done"} /\ call[c].attached

\* A component that waits for its form is on the screen, over the data it was
\* drawn over.
FormIsOnScreen(c) ==
  Submitted(c) =>
    /\ user # None /\ call[c].user = user
    /\ call[c].home \in mounted
    /\ forms[call[c].form].drawn => entry[call[c].home].data # None

Watched(g) == forms[g].drawn /\ forms[g].awaits
WaitsForHome(g, c) ==
  call[c].op = "loading" /\ call[c].form = g /\ forms[g].home \in call[c].for

\* A request whose answer shows n writes.
Fresh(e, n) == e.request.op = "sent" \/ (e.request.op = "read" /\ e.request.data >= n)

Outcome(g) ==
  Watched(g) /\ shown[g] > 0 =>
    LET e == entry[forms[g].home]
    IN /\ e.data # None
       /\ \/ e.data >= shown[g]
          \/ e.request = Q!Idle /\ e.failed
          \/ /\ Fresh(e, shown[g])
             /\ e.failed \/ forms[g].idle \/ \E c \in Calls : WaitsForHome(g, c)

CacheInv ==
  /\ CacheType
  /\ user = None => mounted = {}
  /\ \A v \in Q!Views : OfSession(entry[v]) /\ InOrder(entry[v])
  /\ \A c \in Calls : FormIsOnScreen(c) /\ (call[c].op = "done" => call[c].at <= writes)
  /\ \A g \in DOMAIN forms : shown[g] <= writes /\ Outcome(g)

LEMMA FormFacts ==
  ASSUME forms \in Q!Features
  PROVE  \A f \in DOMAIN forms :
           /\ forms[f].home \in Q!Views
           /\ forms[f].refreshes \subseteq Q!Views
           /\ Watched(f) =>
                /\ forms[f].home \in forms[f].refreshes
                /\ \A g \in forms[f].waits :
                     /\ g \in DOMAIN forms /\ Watched(g)
                     /\ forms[g].home = forms[f].home
                     /\ forms[g].idle = forms[f].idle
<1>1. \A f \in DOMAIN forms : forms[f].home \in Q!Views /\ forms[f].refreshes \subseteq Q!Views
  BY DEF Q!Views, Q!ViewsOf
<1> SUFFICES ASSUME NEW f \in DOMAIN forms, Watched(f)
             PROVE  /\ forms[f].home \in forms[f].refreshes
                    /\ \A g \in forms[f].waits :
                         /\ g \in DOMAIN forms /\ Watched(g)
                         /\ forms[g].home = forms[f].home
                         /\ forms[g].idle = forms[f].idle
  BY <1>1
<1>2. CASE forms = Q!ShiftForms
  BY <1>2 DEF Q!ShiftForms, Q!Form, Watched
<1>3. CASE forms = Q!DayOffForms
  BY <1>3 DEF Q!DayOffForms, Q!Form, Watched
<1>9. CASE forms = Q!SettingsForms
  BY <1>9 DEF Q!SettingsForms, Q!Form, Watched
<1>10. CASE forms = Q!LeadForms
  <2>1. DOMAIN forms = {"createLead", "assignLead", "rejectLead", "convertLead"}
    BY <1>10 DEF Q!LeadForms
  <2>2. /\ ~forms["createLead"].awaits
        /\ ~forms["assignLead"].awaits
        /\ ~forms["rejectLead"].awaits
        /\ ~forms["convertLead"].awaits
    BY <1>10 DEF Q!LeadForms, Q!Form
  <2> QED
    BY <2>1, <2>2 DEF Watched
<1>4. CASE forms = Q!EntryForms
  <2>1. DOMAIN forms = {"correctEntry", "confirmEntry", "generateEntries"}
    BY <1>4 DEF Q!EntryForms
  <2>2. /\ forms["correctEntry"] = forms["confirmEntry"]
        /\ forms["correctEntry"].drawn /\ forms["correctEntry"].awaits
        /\ forms["correctEntry"].home = "entry"
        /\ forms["correctEntry"].refreshes = {"entry", "entries"}
        /\ forms["correctEntry"].waits = {"correctEntry", "confirmEntry"}
        /\ ~forms["generateEntries"].drawn
    BY <1>4 DEF Q!EntryForms, Q!Form
  <2> QED
    BY <2>1, <2>2 DEF Watched
<1>5. CASE forms = Q!ContractForms
  BY <1>5 DEF Q!ContractForms, Q!Form, Watched
<1>6. CASE forms = Q!BookingForms
  BY <1>6 DEF Q!BookingForms, Q!Form, Watched
<1>7. CASE forms = Q!TransactionForms
  <2>1. DOMAIN forms = {"updateTransaction", "uploadTransactionAttachment", "createTransaction"}
    BY <1>7 DEF Q!TransactionForms
  <2>2. /\ forms["updateTransaction"] = forms["uploadTransactionAttachment"]
        /\ forms["updateTransaction"].drawn /\ forms["updateTransaction"].awaits
        /\ forms["updateTransaction"].home = "transaction"
        /\ "transaction" \in forms["updateTransaction"].refreshes
        /\ forms["updateTransaction"].waits = {"updateTransaction", "uploadTransactionAttachment"}
        /\ ~forms["createTransaction"].drawn
    BY <1>7 DEF Q!TransactionForms, Q!Form
  <2> QED
    BY <2>1, <2>2 DEF Watched
<1>8. CASE forms = Q!ConfirmationForms
  <2>1. DOMAIN forms = {"confirmAction", "rejectAction", "requestUserCreation"}
    BY <1>8 DEF Q!ConfirmationForms
  <2>2. /\ \A g \in {"confirmAction", "rejectAction"} :
             /\ forms[g].home = "pendingActions" /\ "pendingActions" \in forms[g].refreshes
             /\ forms[g].drawn /\ forms[g].awaits /\ forms[g].idle = FALSE
             /\ forms[g].waits = {"confirmAction", "rejectAction"}
        /\ ~forms["requestUserCreation"].drawn
    BY <1>8 DEF Q!ConfirmationForms, Q!Form
  <2> QED
    BY <2>1, <2>2 DEF Watched
<1> QED
  BY <1>2, <1>3, <1>4, <1>5, <1>6, <1>7, <1>8, <1>9, <1>10 DEF Q!Features

\* The tab is used for one feature.
LEMMA PageStays ==
  ASSUME UNCHANGED Q!page
  PROVE  /\ forms' = forms /\ opened' = opened /\ Q!Views' = Q!Views
         /\ RequestType' = RequestType /\ EntryType' = EntryType /\ CallType' = CallType
         /\ \A g : Watched(g)' = Watched(g)
<1>1. forms' = forms /\ opened' = opened
  BY DEF Q!page
<1> QED
  BY <1>1 DEF Q!Views, Q!ViewsOf, RequestType, EntryType, CallType, Watched, Q!Idle

LEMMA EntryFields ==
  ASSUME NEW e \in EntryType
  PROVE  /\ e.data \in Nat \cup {None} /\ e.by \in Nat
         /\ e.invalid \in BOOLEAN /\ e.failed \in BOOLEAN /\ e.request \in RequestType
         /\ e = [data |-> e.data, by |-> e.by, invalid |-> e.invalid, failed |-> e.failed,
                 request |-> e.request]
BY DEF EntryType

LEMMA LoadRequests ==
  /\ Q!Idle \in RequestType /\ Q!Idle.op = "idle"
  /\ session \in Nat => Q!Sent \in RequestType
  /\ Q!Sent.op = "sent" /\ Q!Sent.by = session /\ Q!Sent # Q!Idle
  /\ \A x \in RequestType :
       /\ x.op \in {"idle", "sent", "read"}
       /\ x.op = "idle" <=> x = Q!Idle
       /\ x # Q!Idle => x.by \in Nat
       /\ x.op = "read" => x.data \in Nat
<1>1. Q!Idle.op = "idle" /\ Q!Sent.op = "sent" /\ Q!Sent.by = session
  BY DEF Q!Idle, Q!Sent
<1>2. Q!Sent # Q!Idle
  BY <1>1
<1>3. Q!Idle \in RequestType /\ (session \in Nat => Q!Sent \in RequestType)
  BY DEF RequestType, Q!Sent
<1> QED
  BY <1>1, <1>2, <1>3 DEF RequestType

LEMMA CallFields ==
  ASSUME NEW x \in CallType
  PROVE  /\ x.op \in {"idle", "sent", "done", "loading"}
         /\ x.op = "idle" <=> x = Q!Idle
         /\ x.op # "idle" =>
              x.form \in DOMAIN forms /\ x.home \in Q!Views /\ x.attached \in BOOLEAN
         /\ x.op \in {"sent", "done"} => x.user \in Users
         /\ x.op = "done" => x.at \in Nat
         /\ x.op = "loading" => x.for \subseteq Q!Views /\ x.attached
<1>1. CASE x = Q!Idle
  BY <1>1 DEF Q!Idle
<1>2. CASE x \in [op: {"sent"}, form: DOMAIN forms, home: Q!Views, user: Users, attached: BOOLEAN]
  BY <1>2 DEF Q!Idle
<1>3. CASE x \in [op: {"done"}, at: Nat, form: DOMAIN forms, home: Q!Views, user: Users,
                  attached: BOOLEAN]
  BY <1>3 DEF Q!Idle
<1>4. CASE x \in [op: {"loading"}, form: DOMAIN forms, home: Q!Views, for: SUBSET Q!Views,
                  attached: {TRUE}]
  <2>1. /\ x.op = "loading" /\ x.form \in DOMAIN forms /\ x.home \in Q!Views
        /\ x.for \in SUBSET Q!Views /\ x.attached
    BY <1>4
  <2> QED
    BY <2>1 DEF Q!Idle
<1> QED
  BY <1>1, <1>2, <1>3, <1>4 DEF CallType

LEMMA CacheFacts ==
  ASSUME CacheInv
  PROVE  /\ forms \in Q!Features /\ session \in Nat /\ writes \in Nat
         /\ \A v \in Q!Views : entry[v] \in EntryType
         /\ \A c \in Calls :
              /\ call[c] \in CallType
              /\ call[c] # Q!Idle => call[c].home = forms[call[c].form].home
         /\ \A g \in DOMAIN forms : shown[g] \in Nat
BY DEF CacheInv, CacheType

\* A request of a view that is on the screen disturbs nothing.
LEMMA RequestStarts ==
  ASSUME CacheInv, NEW v \in Q!Views, user # None,
         entry' = [entry EXCEPT ![v].request = Q!Sent], mounted' \subseteq Q!Views,
         mounted \subseteq mounted',
         UNCHANGED <<Q!page, user, session, writes, call, shown>>
  PROVE  CacheInv'
<1> USE CacheFacts, PageStays, LoadRequests
<1>1. /\ \A u \in Q!Views : u # v => entry'[u] = entry[u]
      /\ entry'[v] = [entry[v] EXCEPT !.request = Q!Sent]
      /\ entry' \in [Q!Views -> EntryType]
  <2>1. [entry[v] EXCEPT !.request = Q!Sent] \in EntryType
    BY DEF EntryType
  <2> QED
    BY <2>1 DEF CacheInv, CacheType
<1>2. /\ entry'[v].data = entry[v].data /\ entry'[v].by = entry[v].by
      /\ entry'[v].failed = entry[v].failed /\ entry'[v].request = Q!Sent
  BY <1>1, EntryFields
<1>3. CacheType'
  BY <1>1 DEF CacheInv, CacheType
<1>4. \A u \in Q!Views : OfSession(entry[u])' /\ InOrder(entry[u])'
  BY <1>1, <1>2 DEF CacheInv, OfSession, InOrder
<1>5. \A c \in Calls : FormIsOnScreen(c)' /\ (call[c].op = "done" => call[c].at <= writes)'
  <2>1. \A u \in Q!Views : entry'[u].data = entry[u].data
    BY <1>1, <1>2
  <2> QED
    BY <2>1, CallFields DEF CacheInv, FormIsOnScreen, Submitted
<1>6. \A g \in DOMAIN forms : (shown[g] <= writes)' /\ Outcome(g)'
  <2> SUFFICES ASSUME NEW g \in DOMAIN forms
               PROVE  Outcome(g)'
    BY DEF CacheInv
  <2>1. CASE forms[g].home # v
    BY <2>1, <1>1, FormFacts DEF CacheInv, Outcome, Fresh, WaitsForHome
  <2>2. CASE forms[g].home = v
    BY <2>2, <1>2, FormFacts DEF CacheInv, Outcome, Fresh, WaitsForHome
  <2> QED
    BY <2>1, <2>2
<1> QED
  BY <1>3, <1>4, <1>5, <1>6 DEF CacheInv

\* The component that submitted a form is gone.
LEMMA DetachedCall ==
  ASSUME NEW x \in CallType, x.op \in {"sent", "done"}
  PROVE  /\ [x EXCEPT !.attached = FALSE] \in CallType
         /\ [x EXCEPT !.attached = FALSE].op = x.op
         /\ [x EXCEPT !.attached = FALSE].form = x.form
         /\ [x EXCEPT !.attached = FALSE].home = x.home
         /\ [x EXCEPT !.attached = FALSE].attached = FALSE
         /\ x.op = "done" => [x EXCEPT !.attached = FALSE].at = x.at
         /\ [x EXCEPT !.attached = FALSE] # Q!Idle
<1>1. CASE x \in [op: {"sent"}, form: DOMAIN forms, home: Q!Views, user: Users, attached: BOOLEAN]
  <2>1. /\ [x EXCEPT !.attached = FALSE].op = "sent" /\ x.op = "sent"
        /\ [x EXCEPT !.attached = FALSE].form = x.form
        /\ [x EXCEPT !.attached = FALSE].home = x.home
        /\ [x EXCEPT !.attached = FALSE].attached = FALSE
        /\ [x EXCEPT !.attached = FALSE] \in CallType
    BY <1>1 DEF CallType
  <2> QED
    BY <2>1, LoadRequests
<1>2. CASE x \in [op: {"done"}, at: Nat, form: DOMAIN forms, home: Q!Views, user: Users,
                  attached: BOOLEAN]
  <2>1. /\ [x EXCEPT !.attached = FALSE].op = "done" /\ x.op = "done"
        /\ [x EXCEPT !.attached = FALSE].at = x.at
        /\ [x EXCEPT !.attached = FALSE].form = x.form
        /\ [x EXCEPT !.attached = FALSE].home = x.home
        /\ [x EXCEPT !.attached = FALSE].attached = FALSE
        /\ [x EXCEPT !.attached = FALSE] \in CallType
    BY <1>2 DEF CallType
  <2> QED
    BY <2>1, LoadRequests
<1>3. x # Q!Idle
  BY LoadRequests
<1>4. x \notin [op: {"loading"}, form: DOMAIN forms, home: Q!Views, for: SUBSET Q!Views,
                attached: {TRUE}]
  OBVIOUS
<1> QED
  BY <1>1, <1>2, <1>3, <1>4 DEF CallType

LEMMA NothingLoads ==
  ASSUME CacheInv, user # None \/ UNCHANGED mounted, mounted' \subseteq Q!Views,
         mounted \subseteq mounted',
         UNCHANGED <<Q!page, user, session, entry, writes, call, shown>>
  PROVE  CacheInv'
<1> USE CacheFacts, PageStays
<1>1. CacheType'
  BY DEF CacheInv, CacheType
<1>2. \A u \in Q!Views : OfSession(entry[u])' /\ InOrder(entry[u])'
  BY DEF CacheInv, OfSession, InOrder
<1>3. \A c \in Calls : FormIsOnScreen(c)' /\ (call[c].op = "done" => call[c].at <= writes)'
  BY DEF CacheInv, FormIsOnScreen, Submitted
<1>4. \A g \in DOMAIN forms : (shown[g] <= writes)' /\ Outcome(g)'
  BY DEF CacheInv, Outcome, Fresh, WaitsForHome
<1> QED
  BY <1>1, <1>2, <1>3, <1>4 DEF CacheInv

LEMMA MountStep ==
  ASSUME CacheInv, NEW v \in Q!Views, Q!Mount(v)
  PROVE  CacheInv'
<1>1. /\ user # None /\ mounted' = mounted \cup {v}
      /\ UNCHANGED <<Q!page, user, session, writes, call, shown>>
      /\ entry' = [entry EXCEPT ![v].request = Q!Sent] \/ UNCHANGED entry
  BY DEF Q!Mount
<1>2. mounted' \subseteq Q!Views /\ mounted \subseteq mounted'
  BY <1>1 DEF CacheInv, CacheType
<1> QED
  BY <1>1, <1>2, RequestStarts, NothingLoads

LEMMA RefetchStep ==
  ASSUME CacheInv, NEW v \in Q!Views, Q!Refetch(v)
  PROVE  CacheInv'
<1>1. /\ user # None /\ UNCHANGED <<Q!page, user, session, mounted, writes, call, shown>>
      /\ entry' = [entry EXCEPT ![v] = Q!Load(entry[v])]
  BY DEF Q!Refetch, CacheInv
<1>2. CASE entry[v].request # Q!Idle /\ entry[v].data = None
  <2>1. UNCHANGED entry
    BY <1>1, <1>2 DEF Q!Load, CacheInv, CacheType
  <2> QED
    BY <1>1, <2>1, NothingLoads DEF CacheInv, CacheType
<1>3. CASE ~(entry[v].request # Q!Idle /\ entry[v].data = None)
  <2>1. entry' = [entry EXCEPT ![v].request = Q!Sent]
    BY <1>1, <1>3 DEF Q!Load
  <2>2. mounted' \subseteq Q!Views /\ mounted \subseteq mounted'
    BY <1>1 DEF CacheInv, CacheType
  <2> QED
    BY <1>1, <2>1, <2>2, RequestStarts
<1> QED
  BY <1>2, <1>3

\* What has been read is not older than what the component has been shown.
LEMMA ReadCacheStep ==
  ASSUME CacheInv, NEW v \in Q!Views, Q!Read(v)
  PROVE  CacheInv'
<1> USE CacheFacts, PageStays, LoadRequests
<1> DEFINE request == [op |-> "read", by |-> entry[v].request.by, data |-> writes]
<1>1. /\ entry[v].request.op = "sent" /\ entry' = [entry EXCEPT ![v].request = request]
      /\ UNCHANGED <<Q!page, user, session, mounted, writes, call, shown>>
  BY DEF Q!Read
<1>2. /\ request \in RequestType /\ request # Q!Idle /\ request.op = "read"
      /\ request.by = entry[v].request.by /\ request.data = writes
  <2>1. entry[v].request \in RequestType /\ entry[v].request # Q!Idle
    BY <1>1, EntryFields
  <2>2. request \in RequestType
    BY <2>1 DEF RequestType
  <2> QED
    BY <2>2
<1> HIDE DEF request
<1>3. /\ \A u \in Q!Views : u # v => entry'[u] = entry[u]
      /\ entry'[v] = [entry[v] EXCEPT !.request = request]
      /\ entry' \in [Q!Views -> EntryType]
  <2>1. [entry[v] EXCEPT !.request = request] \in EntryType
    BY <1>2 DEF EntryType
  <2> QED
    BY <1>1, <2>1 DEF CacheInv, CacheType
<1>4. /\ entry'[v].data = entry[v].data /\ entry'[v].by = entry[v].by
      /\ entry'[v].failed = entry[v].failed /\ entry'[v].request = request
  BY <1>3, EntryFields
<1>5. CacheType'
  BY <1>1, <1>3 DEF CacheInv, CacheType
<1>6. \A u \in Q!Views : OfSession(entry[u])' /\ InOrder(entry[u])'
  <2>1. OfSession(entry[v])' /\ InOrder(entry[v])'
    BY <1>1, <1>2, <1>4, EntryFields DEF CacheInv, OfSession, InOrder
  <2> QED
    BY <2>1, <1>1, <1>3 DEF CacheInv, OfSession, InOrder
<1>7. \A c \in Calls : FormIsOnScreen(c)' /\ (call[c].op = "done" => call[c].at <= writes)'
  <2>1. \A u \in Q!Views : entry'[u].data = entry[u].data
    BY <1>3, <1>4
  <2> QED
    BY <2>1, <1>1, CallFields DEF CacheInv, FormIsOnScreen, Submitted
<1>8. \A g \in DOMAIN forms : (shown[g] <= writes)' /\ Outcome(g)'
  <2> SUFFICES ASSUME NEW g \in DOMAIN forms
               PROVE  Outcome(g)'
    BY <1>1 DEF CacheInv
  <2>1. CASE forms[g].home # v
    BY <2>1, <1>1, <1>3, FormFacts DEF CacheInv, Outcome, Fresh, WaitsForHome
  <2>2. CASE forms[g].home = v
    BY <2>2, <1>1, <1>2, <1>4, FormFacts DEF CacheInv, Outcome, Fresh, WaitsForHome
  <2> QED
    BY <2>1, <2>2
<1> QED
  BY <1>1, <1>5, <1>6, <1>7, <1>8 DEF CacheInv

LEMMA LoginStep ==
  ASSUME CacheInv, NEW u \in Users, Q!Login(u)
  PROVE  CacheInv'
<1> USE CacheFacts, PageStays
<1>1. /\ user = None /\ user' = u /\ session' = session + 1
      /\ UNCHANGED <<Q!page, entry, mounted, writes, call, shown>>
  BY DEF Q!Login
<1>2. u # None
  BY PartsAssumption
<1>3. CacheType'
  BY <1>1 DEF CacheInv, CacheType
<1>4. \A v \in Q!Views : OfSession(entry[v])' /\ InOrder(entry[v])'
  BY <1>1 DEF CacheInv, OfSession, InOrder
<1>5. \A c \in Calls : FormIsOnScreen(c)' /\ (call[c].op = "done" => call[c].at <= writes)'
  BY <1>1 DEF CacheInv, FormIsOnScreen, Submitted
<1>6. \A g \in DOMAIN forms : (shown[g] <= writes)' /\ Outcome(g)'
  BY <1>1 DEF CacheInv, Outcome, Fresh, WaitsForHome
<1> QED
  BY <1>1, <1>2, <1>3, <1>4, <1>5, <1>6 DEF CacheInv

LEMMA ClearStep ==
  ASSUME CacheInv, Q!ClearSession
  PROVE  CacheInv'
<1> USE CacheFacts, PageStays
<1>1. /\ user' = None /\ mounted' = {} /\ entry' = [v \in Q!Views |-> Q!Empty]
      /\ call' = [c \in Calls |->
           CASE call[c].op \in {"idle", "loading"} -> Q!Idle
             [] OTHER -> [call[c] EXCEPT !.attached = FALSE]]
      /\ shown' = [f \in DOMAIN forms |-> 0]
      /\ UNCHANGED <<Q!page, session, writes>>
  BY DEF Q!ClearSession, Q!Cleared
<1>2. \A c \in Calls :
        \/ call'[c] = Q!Idle
        \/ call[c].op \in {"sent", "done"} /\ call'[c] = [call[c] EXCEPT !.attached = FALSE]
  BY <1>1, CallFields
<1>3. Q!Empty \in EntryType
  BY LoadRequests DEF Q!Empty, EntryType
<1>4. \A c \in Calls :
        /\ call'[c] \in CallType
        /\ call'[c] # Q!Idle => call'[c].home = forms[call'[c].form].home
        /\ ~Submitted(c)'
        /\ call'[c].op = "done" => call'[c].at <= writes
  <2> TAKE c \in Calls
  <2>1. CASE call'[c] = Q!Idle
    BY <2>1, LoadRequests DEF Submitted, CallType
  <2>2. CASE /\ call[c].op \in {"sent", "done"}
             /\ call'[c] = [call[c] EXCEPT !.attached = FALSE]
    <3>1. call[c] # Q!Idle
      BY <2>2, CallFields
    <3> QED
      BY <2>2, <3>1, DetachedCall DEF CacheInv, Submitted
  <2> QED
    BY <1>2, <2>1, <2>2
<1>5. CacheType'
  BY <1>1, <1>3, <1>4 DEF CacheInv, CacheType
<1>6. \A v \in Q!Views : OfSession(entry[v])' /\ InOrder(entry[v])'
  <2>1. \A v \in Q!Views : entry'[v] = Q!Empty
    BY <1>1
  <2> QED
    BY <1>1, <2>1, LoadRequests DEF OfSession, InOrder, Q!Empty
<1>7. \A g \in DOMAIN forms : (shown[g] <= writes)' /\ Outcome(g)'
  BY <1>1 DEF CacheInv, Outcome
<1> QED
  BY <1>1, <1>4, <1>5, <1>6, <1>7 DEF CacheInv, FormIsOnScreen

LEMMA UnmountStep ==
  ASSUME CacheInv, NEW v \in Q!Views, Q!Unmount(v)
  PROVE  CacheInv'
<1> USE CacheFacts, PageStays
<1>1. /\ v \in mounted /\ mounted' = mounted \ {v}
      /\ UNCHANGED <<Q!page, user, session, entry, writes>>
      /\ shown' = [f \in DOMAIN forms |->
           IF forms[f].home = v /\ ~forms[f].idle THEN 0 ELSE shown[f]]
  BY DEF Q!Unmount
<1>2. \A c \in Calls :
        \/ call'[c] = Q!Idle /\ (call[c].op = "loading" => call[c].home = v)
        \/ call'[c] = call[c] /\ call[c] # Q!Idle /\ call[c].home # v
        \/ /\ call[c].op \in {"sent", "done"} /\ call[c].home = v
           /\ call'[c] = [call[c] EXCEPT !.attached = FALSE]
  <2> TAKE c \in Calls
  <2>1. call'[c] = IF call[c] = Q!Idle \/ call[c].home # v THEN call[c]
                   ELSE IF call[c].op = "loading" THEN Q!Idle
                   ELSE [call[c] EXCEPT !.attached = FALSE]
    BY DEF Q!Unmount
  <2>2. call[c].op \in {"idle", "sent", "done", "loading"} /\ (call[c].op = "idle" <=> call[c] = Q!Idle)
    BY CallFields
  <2> QED
    BY <2>1, <2>2
<1>3. \A c \in Calls :
        /\ call'[c] \in CallType
        /\ call'[c] # Q!Idle => call'[c].home = forms[call'[c].form].home
        /\ Submitted(c)' => call'[c] = call[c] /\ call[c].home # v
        /\ call'[c].op = "done" => call'[c].at <= writes
  <2> TAKE c \in Calls
  <2>1. CASE call'[c] = Q!Idle
    BY <2>1, LoadRequests DEF Submitted, CallType
  <2>2. CASE call'[c] = call[c] /\ call[c] # Q!Idle /\ call[c].home # v
    BY <2>2 DEF CacheInv, Submitted
  <2>3. CASE /\ call[c].op \in {"sent", "done"}
             /\ call'[c] = [call[c] EXCEPT !.attached = FALSE]
    <3>1. call[c] # Q!Idle
      BY <2>3, CallFields
    <3> QED
      BY <2>3, <3>1, DetachedCall DEF CacheInv, Submitted
  <2> QED
    BY <1>2, <2>1, <2>2, <2>3
<1>4. CacheType'
  <2>1. shown' \in [DOMAIN forms -> Nat]
    BY <1>1
  <2>2. call' \in [Calls -> CallType]
    BY <1>3 DEF Q!Unmount
  <2> QED
    BY <1>1, <1>3, <2>1, <2>2 DEF CacheInv, CacheType
<1>5. \A u \in Q!Views : OfSession(entry[u])' /\ InOrder(entry[u])'
  BY <1>1 DEF CacheInv, OfSession, InOrder
<1>6. \A c \in Calls : FormIsOnScreen(c)'
  BY <1>1, <1>3 DEF CacheInv, FormIsOnScreen, Submitted
<1>7. \A g \in DOMAIN forms : (shown[g] <= writes)' /\ Outcome(g)'
  <2> SUFFICES ASSUME NEW g \in DOMAIN forms, shown[g]' > 0
               PROVE  Outcome(g)'
    BY <1>1 DEF CacheInv, Outcome
  <2>1. shown'[g] = shown[g] /\ (forms[g].home # v \/ forms[g].idle)
    BY <1>1
  <2>2. \A c \in Calls : forms[g].home # v /\ WaitsForHome(g, c) => WaitsForHome(g, c)'
    <3> SUFFICES ASSUME NEW c \in Calls, forms[g].home # v, WaitsForHome(g, c)
                 PROVE  call'[c] = call[c]
      BY <1>1 DEF WaitsForHome
    <3>1. call[c] # Q!Idle /\ call[c].home = forms[g].home
      BY CallFields DEF WaitsForHome
    <3> QED
      BY <1>2, <3>1 DEF WaitsForHome
  <2> QED
    BY <1>1, <2>1, <2>2 DEF CacheInv, Outcome, Fresh
<1> QED
  BY <1>1, <1>3, <1>4, <1>5, <1>6, <1>7 DEF CacheInv

\* Who waits for a view and for nothing else is done when it has loaded.
LEMMA WaitersGo ==
  ASSUME CacheInv, NEW v \in Q!Views, call' = Q!Waited(v), UNCHANGED Q!page
  PROVE  /\ call' \in [Calls -> CallType]
         /\ \A c \in Calls :
              /\ call'[c] # Q!Idle => call'[c].home = forms[call'[c].form].home
              /\ call'[c].op \in {"sent", "done"} => call'[c] = call[c]
              /\ \A g \in DOMAIN forms :
                   forms[g].home # v /\ WaitsForHome(g, c) => WaitsForHome(g, c)'
<1> USE CacheFacts, PageStays
<1>1. \A c \in Calls :
        \/ call'[c] = call[c] /\ call[c].op # "loading"
        \/ call'[c] = Q!Idle /\ call[c].op = "loading" /\ call[c].for \subseteq {v}
        \/ call'[c] = [call[c] EXCEPT !.for = call[c].for \ {v}] /\ call[c].op = "loading"
  BY DEF Q!Waited
<1>2. \A c \in Calls :
        /\ call'[c] \in CallType
        /\ call'[c] # Q!Idle => call'[c].home = forms[call'[c].form].home
        /\ call'[c].op \in {"sent", "done"} => call'[c] = call[c]
        /\ \A g \in DOMAIN forms :
             forms[g].home # v /\ WaitsForHome(g, c) => WaitsForHome(g, c)'
  <2> TAKE c \in Calls
  <2>1. CASE call'[c] = call[c] /\ call[c].op # "loading"
    BY <2>1 DEF WaitsForHome
  <2>2. CASE call'[c] = Q!Idle /\ call[c].for \subseteq {v}
    BY <2>2, LoadRequests DEF WaitsForHome, CallType
  <2>3. CASE call'[c] = [call[c] EXCEPT !.for = call[c].for \ {v}] /\ call[c].op = "loading"
    <3>1. call[c] # Q!Idle
      BY <2>3, LoadRequests
    <3>2. call[c] \in [op: {"loading"}, form: DOMAIN forms, home: Q!Views, for: SUBSET Q!Views,
                       attached: {TRUE}]
      BY <2>3, <3>1 DEF CallType
    <3>3. /\ call'[c] \in [op: {"loading"}, form: DOMAIN forms, home: Q!Views,
                           for: SUBSET Q!Views, attached: {TRUE}]
          /\ call'[c].op = "loading" /\ call'[c].form = call[c].form
          /\ call'[c].home = call[c].home /\ call'[c].for = call[c].for \ {v}
      BY <2>3, <3>2
    <3> QED
      BY <3>1, <3>3 DEF WaitsForHome, CallType
  <2> QED
    BY <1>1, <2>1, <2>2, <2>3
<1> QED
  BY <1>2 DEF Q!Waited

LEMMA LoadDoneStep ==
  ASSUME CacheInv, NEW v \in Q!Views, Q!LoadDone(v)
  PROVE  CacheInv'
<1> USE CacheFacts, PageStays, LoadRequests
<1> DEFINE new == [data |-> entry[v].request.data, by |-> entry[v].request.by,
                   invalid |-> FALSE, failed |-> FALSE, request |-> Q!Idle]
<1>1. /\ entry[v].request.op = "read" /\ entry' = [entry EXCEPT ![v] = new]
      /\ call' = Q!Waited(v) /\ UNCHANGED <<Q!page, user, session, mounted, writes, shown>>
  BY DEF Q!LoadDone
<1>2. /\ entry[v].request \in RequestType /\ entry[v].request # Q!Idle
      /\ entry[v].request.data \in Nat
  BY <1>1, EntryFields
<1>3. /\ new \in EntryType /\ new.request = Q!Idle /\ new.data = entry[v].request.data
      /\ new.by = entry[v].request.by
  BY <1>2 DEF EntryType
<1> HIDE DEF new
<1>4. /\ \A u \in Q!Views : u # v => entry'[u] = entry[u]
      /\ entry'[v] = new /\ entry' \in [Q!Views -> EntryType]
  BY <1>1, <1>3 DEF CacheInv, CacheType
<1>5. new.data \in Nat /\ new.data # None
  BY <1>2, <1>3, PartsAssumption
<1>6. CacheType'
  BY <1>1, <1>4, WaitersGo DEF CacheInv, CacheType
<1>7. \A u \in Q!Views : OfSession(entry[u])' /\ InOrder(entry[u])'
  <2>1. OfSession(entry[v])' /\ InOrder(entry[v])'
    BY <1>1, <1>2, <1>3, <1>4 DEF CacheInv, OfSession, InOrder
  <2> QED
    BY <2>1, <1>1, <1>4 DEF CacheInv, OfSession, InOrder
<1>8. \A c \in Calls : FormIsOnScreen(c)' /\ (call[c].op = "done" => call[c].at <= writes)'
  BY <1>1, <1>4, <1>5, WaitersGo, CallFields DEF CacheInv, FormIsOnScreen, Submitted
<1>9. \A g \in DOMAIN forms : (shown[g] <= writes)' /\ Outcome(g)'
  <2> SUFFICES ASSUME NEW g \in DOMAIN forms
               PROVE  Outcome(g)'
    BY <1>1 DEF CacheInv
  <2>1. CASE forms[g].home # v
    BY <2>1, <1>1, <1>4, WaitersGo, FormFacts DEF CacheInv, Outcome, Fresh
  <2>2. CASE forms[g].home = v
    BY <2>2, <1>1, <1>2, <1>3, <1>4, <1>5, EntryFields
       DEF CacheInv, Outcome, Fresh, InOrder
  <2> QED
    BY <2>1, <2>2
<1> QED
  BY <1>1, <1>6, <1>7, <1>8, <1>9 DEF CacheInv

LEMMA FailedEntry ==
  ASSUME NEW e \in EntryType, NEW new,
         new = [e EXCEPT !.request = Q!Idle, !.failed = TRUE, !.invalid = e.data # None]
  PROVE  /\ new \in EntryType /\ new.data = e.data /\ new.by = e.by
         /\ new.failed /\ new.request = Q!Idle
BY LoadRequests DEF EntryType

LEMMA LoadFailedStep ==
  ASSUME CacheInv, NEW v \in Q!Views, Q!LoadFailed(v)
  PROVE  CacheInv'
<1> USE CacheFacts, PageStays, LoadRequests
<1>1. /\ entry' = [entry EXCEPT ![v] = [entry[v] EXCEPT !.request = Q!Idle, !.failed = TRUE,
                                                 !.invalid = entry[v].data # None]]
      /\ call' = Q!Waited(v) /\ UNCHANGED <<Q!page, user, session, mounted, writes, shown>>
  BY DEF Q!LoadFailed
<1>2. entry'[v] = [entry[v] EXCEPT !.request = Q!Idle, !.failed = TRUE,
                                  !.invalid = entry[v].data # None]
  BY <1>1 DEF CacheInv, CacheType
<1>3. /\ entry'[v] \in EntryType /\ entry'[v].data = entry[v].data /\ entry'[v].by = entry[v].by
      /\ entry'[v].failed /\ entry'[v].request = Q!Idle
  BY <1>2, FailedEntry
<1>4. /\ \A u \in Q!Views : u # v => entry'[u] = entry[u]
      /\ entry' \in [Q!Views -> EntryType]
  BY <1>1, <1>3 DEF CacheInv, CacheType
<1>5. CacheType'
  BY <1>1, <1>4, WaitersGo DEF CacheInv, CacheType
<1>6. \A u \in Q!Views : OfSession(entry[u])' /\ InOrder(entry[u])'
  BY <1>1, <1>3, <1>4 DEF CacheInv, OfSession, InOrder
<1>7. \A c \in Calls : FormIsOnScreen(c)' /\ (call[c].op = "done" => call[c].at <= writes)'
  <2>1. \A u \in Q!Views : entry'[u].data = entry[u].data
    BY <1>3, <1>4
  <2>2. \A c \in Calls : call'[c].op \in {"sent", "done"} => call'[c] = call[c] /\ call[c].home \in Q!Views
    BY <1>1, WaitersGo, CallFields
  <2>3. \A c \in Calls : (call[c].op = "done" => call[c].at <= writes)'
    BY <1>1, <2>2 DEF CacheInv
  <2>4. \A c \in Calls : Submitted(c)' => Submitted(c) /\ call'[c] = call[c]
    BY <2>2 DEF Submitted
  <2> QED
    BY <1>1, <2>1, <2>2, <2>3, <2>4 DEF CacheInv, FormIsOnScreen
<1>8. \A g \in DOMAIN forms : (shown[g] <= writes)' /\ Outcome(g)'
  <2> SUFFICES ASSUME NEW g \in DOMAIN forms
               PROVE  Outcome(g)'
    BY <1>1 DEF CacheInv
  <2>1. CASE forms[g].home # v
    BY <2>1, <1>1, <1>4, WaitersGo, FormFacts DEF CacheInv, Outcome, Fresh
  <2>2. CASE forms[g].home = v
    BY <2>2, <1>1, <1>3 DEF CacheInv, Outcome
  <2> QED
    BY <2>1, <2>2
<1> QED
  BY <1>1, <1>5, <1>6, <1>7, <1>8 DEF CacheInv

\* Of a form that nobody waits for, one call changes and nothing else.
LEMMA CallMoves ==
  ASSUME CacheInv, NEW c \in Calls, NEW x \in CallType, call' = [call EXCEPT ![c] = x],
         call[c].op # "loading", x.op # "loading",
         x # Q!Idle => x.home = forms[x.form].home,
         writes' \in Nat, writes' >= writes, x.op = "done" => x.at <= writes',
         x.op \in {"sent", "done"} /\ x.attached =>
           /\ user # None /\ x.user = user /\ x.home \in mounted
           /\ forms[x.form].drawn => entry[x.home].data # None,
         UNCHANGED <<Q!page, Q!tab, shown>>
  PROVE  CacheInv'
<1> USE CacheFacts, PageStays DEF Q!tab
<1>1. call'[c] = x /\ \A d \in Calls : d # c => call'[d] = call[d]
  BY DEF CacheInv, CacheType
<1>2. CacheType'
  BY <1>1 DEF CacheInv, CacheType
<1>3. \A v \in Q!Views : OfSession(entry[v])' /\ InOrder(entry[v])'
  BY EntryFields, LoadRequests DEF CacheInv, OfSession, InOrder
<1>4. \A d \in Calls : FormIsOnScreen(d)' /\ (call[d].op = "done" => call[d].at <= writes)'
  <2>1. FormIsOnScreen(c)' /\ (call[c].op = "done" => call[c].at <= writes)'
    BY <1>1 DEF FormIsOnScreen, Submitted
  <2>2. ASSUME NEW d \in Calls, d # c
        PROVE  FormIsOnScreen(d)' /\ (call[d].op = "done" => call[d].at <= writes)'
    BY <1>1, <2>2, CallFields DEF CacheInv, FormIsOnScreen, Submitted
  <2> QED
    BY <2>1, <2>2
<1>5. \A g \in DOMAIN forms : (shown[g] <= writes)' /\ Outcome(g)'
  <2> SUFFICES ASSUME NEW g \in DOMAIN forms
               PROVE  Outcome(g)' /\ shown[g] <= writes'
    OBVIOUS
  <2>1. shown[g] <= writes'
    BY DEF CacheInv
  <2>2. \A d \in Calls : WaitsForHome(g, d) => WaitsForHome(g, d)'
    BY <1>1 DEF WaitsForHome
  <2> QED
    BY <2>1, <2>2 DEF CacheInv, Outcome, Fresh
<1> QED
  BY <1>2, <1>3, <1>4, <1>5 DEF CacheInv

LEMMA SubmitStep ==
  ASSUME CacheInv, NEW f \in DOMAIN forms, NEW c \in Calls, Q!Submit(f, c)
  PROVE  CacheInv'
<1> DEFINE x == [op |-> "sent", form |-> f, home |-> forms[f].home, user |-> user,
                 attached |-> TRUE]
<1>1. /\ Q!Clickable(f) /\ call[c] = Q!Idle /\ call' = [call EXCEPT ![c] = x]
      /\ UNCHANGED <<Q!page, Q!tab, writes, shown>>
  BY DEF Q!Submit
<1>2. /\ user # None /\ forms[f].home \in mounted
      /\ forms[f].drawn => entry[forms[f].home].data # None
  BY <1>1 DEF Q!Clickable
<1>3. x \in CallType
  BY <1>2, CacheFacts, FormFacts DEF CallType, CacheInv, CacheType
<1>4. call[c].op # "loading"
  BY <1>1, LoadRequests
<1>5. x.op = "sent" /\ x.form = f /\ x.home = forms[f].home /\ x.user = user
  OBVIOUS
<1> HIDE DEF x
<1>6. writes' \in Nat /\ writes' >= writes
  BY <1>1, CacheFacts
<1>7. /\ x.op # "loading" /\ x.op # "done" /\ x.home = forms[x.form].home
      /\ user # None /\ x.user = user /\ x.home \in mounted
      /\ forms[x.form].drawn => entry[x.home].data # None
  BY <1>2, <1>5
<1>8. UNCHANGED <<Q!page, Q!tab, shown>>
  BY <1>1
<1> QED
  BY <1>1, <1>3, <1>4, <1>6, <1>7, <1>8, CallMoves

LEMMA ServeStep ==
  ASSUME CacheInv, NEW c \in Calls, Q!Serve(c)
  PROVE  CacheInv'
<1> DEFINE x == [op |-> "done", at |-> writes + 1, form |-> call[c].form, home |-> call[c].home,
                 user |-> call[c].user, attached |-> call[c].attached]
<1>1. /\ call[c].op = "sent" /\ writes' = writes + 1 /\ call' = [call EXCEPT ![c] = x]
      /\ UNCHANGED <<Q!page, Q!tab, shown>>
  BY DEF Q!Serve
<1>2. /\ call[c].form \in DOMAIN forms /\ call[c].home \in Q!Views
      /\ call[c].user \in Users /\ call[c].attached \in BOOLEAN
      /\ call[c].home = forms[call[c].form].home
  BY <1>1, CacheFacts, CallFields, LoadRequests
<1>3. x \in CallType
  <2>1. x \in [op: {"done"}, at: Nat, form: DOMAIN forms, home: Q!Views, user: Users,
               attached: BOOLEAN]
    BY <1>2, CacheFacts
  <2> QED
    BY <2>1 DEF CallType
<1>4. /\ x.op = "done" /\ x.at = writes + 1 /\ x.form = call[c].form /\ x.home = call[c].home
      /\ x.user = call[c].user /\ x.attached = call[c].attached
  OBVIOUS
<1> HIDE DEF x
<1>5. FormIsOnScreen(c)
  BY DEF CacheInv
<1>6. x.attached =>
        /\ user # None /\ x.user = user /\ x.home \in mounted
        /\ forms[x.form].drawn => entry[x.home].data # None
  BY <1>1, <1>4, <1>5 DEF FormIsOnScreen, Submitted
<1>7. writes' \in Nat /\ writes' >= writes /\ x.at <= writes'
  BY <1>1, <1>4, CacheFacts
<1> QED
  BY <1>1, <1>2, <1>3, <1>4, <1>6, <1>7, CallMoves

LEMMA FailCallStep ==
  ASSUME CacheInv, NEW c \in Calls, Q!Fail(c)
  PROVE  CacheInv'
<1>1. /\ call[c].op \in {"sent", "done"} /\ call' = [call EXCEPT ![c] = Q!Idle]
      /\ UNCHANGED <<Q!page, Q!tab, writes, shown>>
  BY DEF Q!Fail
<1>2. Q!Idle \in CallType /\ Q!Idle.op = "idle"
  BY LoadRequests DEF CallType
<1>3. writes' \in Nat /\ writes' >= writes
  BY <1>1, CacheFacts
<1>4. call[c].op # "loading" /\ UNCHANGED <<Q!page, Q!tab, shown>>
  BY <1>1
<1>5. Q!Idle.op # "loading" /\ Q!Idle.op # "done" /\ Q!Idle.op \notin {"sent", "done"}
  BY <1>2
<1> QED
  BY <1>1, <1>2, <1>3, <1>4, <1>5, CallMoves

\* What has been invalidated on the screen is being loaded from what is there by now.
LEMMA InvalidatedEntry ==
  ASSUME CacheInv, NEW v \in Q!Views
  PROVE  LET new == Q!Invalidated(v)
         IN /\ new \in EntryType /\ new.data = entry[v].data /\ new.by = entry[v].by
            /\ new.failed = entry[v].failed
            /\ \/ new.request = entry[v].request /\ (v \in mounted => entry[v].data = None)
               \/ new.request = Q!Sent /\ v \in mounted
<1> DEFINE old == [entry[v] EXCEPT !.invalid = entry[v].data # None]
<1>1. entry[v] \in EntryType
  BY CacheFacts
<1>2. /\ old \in EntryType /\ old.data = entry[v].data /\ old.by = entry[v].by
      /\ old.failed = entry[v].failed /\ old.request = entry[v].request
  BY <1>1 DEF EntryType
<1>3. Q!Invalidated(v) = IF v \in mounted THEN Q!Load(old) ELSE old
  BY DEF Q!Invalidated
<1> HIDE DEF old
<1>4. \/ Q!Load(old) = old /\ old.data = None
      \/ Q!Load(old) = [old EXCEPT !.request = Q!Sent]
  BY DEF Q!Load
<1>5. [old EXCEPT !.request = Q!Sent] \in EntryType
  BY <1>2, CacheFacts, LoadRequests DEF EntryType
<1>6. /\ [old EXCEPT !.request = Q!Sent].data = old.data
      /\ [old EXCEPT !.request = Q!Sent].by = old.by
      /\ [old EXCEPT !.request = Q!Sent].failed = old.failed
      /\ [old EXCEPT !.request = Q!Sent].request = Q!Sent
  BY <1>2, EntryFields
<1> QED
  BY <1>2, <1>3, <1>4, <1>5, <1>6

LEMMA SucceedStep ==
  ASSUME CacheInv, NEW c \in Calls, Q!Succeed(c)
  PROVE  CacheInv'
<1> USE CacheFacts, PageStays, LoadRequests
<1> DEFINE s == call[c]
           form == forms[s.form]
           hit == IF s.user = user \/ ~form.keyed THEN form.refreshes ELSE {}
           loading == hit \cap mounted
           next == IF s.attached /\ form.awaits /\ loading # {}
                   THEN [op |-> "loading", form |-> s.form, home |-> s.home, for |-> loading,
                         attached |-> TRUE]
                   ELSE Q!Idle
<1>1. /\ s.op = "done"
      /\ entry' = [v \in Q!Views |-> IF v \in hit THEN Q!Invalidated(v) ELSE entry[v]]
      /\ call' = [call EXCEPT ![c] = next]
      /\ shown' = IF s.attached THEN [shown EXCEPT ![s.form] = s.at] ELSE shown
      /\ UNCHANGED <<Q!page, user, session, mounted, writes>>
  BY DEF Q!Succeed
<1>2. /\ s.form \in DOMAIN forms /\ s.home = form.home /\ s.home \in Q!Views
      /\ s.at \in Nat /\ s.at <= writes /\ s.attached \in BOOLEAN
  BY <1>1, CallFields DEF CacheInv
<1>3. s.attached => /\ user # None /\ s.user = user /\ s.home \in mounted
                    /\ form.drawn => entry[s.home].data # None
  BY <1>1 DEF CacheInv, FormIsOnScreen, Submitted
<1>4. hit \subseteq Q!Views /\ (mounted # {} => user # None)
  BY <1>2, FormFacts DEF CacheInv
<1>5. \A v \in Q!Views :
        /\ entry'[v] \in EntryType /\ entry'[v].data = entry[v].data
        /\ entry'[v].by = entry[v].by /\ entry'[v].failed = entry[v].failed
        /\ \/ entry'[v].request = entry[v].request
           \/ entry'[v].request = Q!Sent /\ user # None
        /\ v \in loading /\ entry[v].data # None => entry'[v].request = Q!Sent
  <2> TAKE v \in Q!Views
  <2>1. CASE v \notin hit
    BY <1>1, <2>1
  <2>2. CASE v \in hit
    <3>1. entry'[v] = Q!Invalidated(v)
      BY <1>1, <2>2
    <3> QED
      BY <1>4, <3>1, InvalidatedEntry
  <2> QED
    BY <2>1, <2>2
<1>6. /\ next \in CallType
      /\ next # Q!Idle => next.op = "loading" /\ next.form = s.form /\ next.home = s.home
  <2>1. CASE s.attached /\ form.awaits /\ loading # {}
    BY <1>2, <1>4, <2>1 DEF CallType
  <2>2. CASE ~(s.attached /\ form.awaits /\ loading # {})
    BY <2>2 DEF CallType
  <2> QED
    BY <2>1, <2>2
<1>7. call'[c] = next /\ \A d \in Calls : d # c => call'[d] = call[d]
  BY <1>1 DEF CacheInv, CacheType
<1>8. CacheType'
  <2>1. call' \in [Calls -> CallType] /\ entry' \in [Q!Views -> EntryType]
    BY <1>1, <1>5, <1>6 DEF CacheInv, CacheType
  <2>2. shown' \in [DOMAIN forms -> Nat]
    BY <1>1, <1>2 DEF CacheInv, CacheType
  <2>3. \A d \in Calls : call'[d] # Q!Idle => call'[d].home = forms[call'[d].form].home
    BY <1>2, <1>6, <1>7
  <2> QED
    BY <1>1, <2>1, <2>2, <2>3 DEF CacheInv, CacheType
<1>9. \A v \in Q!Views : OfSession(entry[v])' /\ InOrder(entry[v])'
  <2> TAKE v \in Q!Views
  <2>1. OfSession(entry[v]) /\ InOrder(entry[v])
    BY DEF CacheInv
  <2> QED
    BY <1>1, <1>5, <2>1 DEF OfSession, InOrder
<1>10. \A d \in Calls : FormIsOnScreen(d)' /\ (call[d].op = "done" => call[d].at <= writes)'
  <2>1. FormIsOnScreen(c)' /\ (call[c].op = "done" => call[c].at <= writes)'
    BY <1>6, <1>7 DEF FormIsOnScreen, Submitted
  <2>2. ASSUME NEW d \in Calls, d # c
        PROVE  FormIsOnScreen(d)' /\ (call[d].op = "done" => call[d].at <= writes)'
    <3>1. FormIsOnScreen(d) /\ (call[d].op = "done" => call[d].at <= writes)
      BY DEF CacheInv
    <3>2. Submitted(d) => call[d].home \in Q!Views
      BY CallFields DEF Submitted
    <3> QED
      BY <1>1, <1>5, <1>7, <2>2, <3>1, <3>2 DEF FormIsOnScreen, Submitted
  <2> QED
    BY <2>1, <2>2
<1>11. \A g \in DOMAIN forms : (shown[g] <= writes)' /\ Outcome(g)'
  <2> TAKE g \in DOMAIN forms
  <2>1. shown'[g] <= writes /\ (shown'[g] # shown[g] => s.attached /\ g = s.form)
    BY <1>1, <1>2 DEF CacheInv, CacheType
  <2>4. forms' = forms /\ Watched(g)' = Watched(g)
    BY <1>1
  <2>2. CASE s.attached /\ g = s.form
    <3> SUFFICES ASSUME Watched(g)
                 PROVE  Outcome(g)'
      BY <1>1, <2>1 DEF Outcome
    <3>1. form.home \in loading /\ entry[form.home].data # None
      BY <1>2, <1>3, <2>2, FormFacts DEF Watched
    <3>2. entry'[form.home].request = Q!Sent /\ entry'[form.home].data # None
      BY <1>2, <1>5, <3>1
    <3>3. WaitsForHome(g, c)'
      BY <1>1, <1>7, <2>2, <3>1 DEF Watched, WaitsForHome
    <3>4. /\ entry'[forms[g].home].request.op = "sent"
          /\ entry'[forms[g].home].data # None
      BY <2>2, <3>2
    <3> QED
      BY <2>1, <2>4, <3>3, <3>4 DEF Outcome, Fresh
  <2>3. CASE ~(s.attached /\ g = s.form)
    <3> SUFFICES Outcome(g)'
      BY <1>1, <2>1
    <3>1. shown'[g] = shown[g] /\ Outcome(g)
      BY <2>1, <2>3 DEF CacheInv
    <3>2. \A d \in Calls : WaitsForHome(g, d) => WaitsForHome(g, d)'
      BY <1>1, <1>7 DEF WaitsForHome
    <3>3. forms[g].home \in Q!Views
      BY FormFacts
    <3> DEFINE e == entry[forms[g].home]
               new == entry'[forms[g].home]
    <3>4. /\ new.data = e.data /\ new.failed = e.failed
          /\ new.request = e.request \/ new.request = Q!Sent
      BY <1>5, <3>3
    <3>5. CASE new.request = e.request
      BY <2>4, <3>1, <3>2, <3>4, <3>5 DEF Outcome, Fresh
    <3>6. CASE new.request = Q!Sent
      BY <2>4, <3>1, <3>2, <3>4, <3>6 DEF Outcome, Fresh
    <3> QED
      BY <3>4, <3>5, <3>6
  <2> QED
    BY <1>1, <2>1, <2>2, <2>3
<1> QED
  BY <1>1, <1>8, <1>9, <1>10, <1>11 DEF CacheInv

LEMMA CacheInit == Q!Init => CacheInv
<1> SUFFICES ASSUME Q!Init PROVE CacheInv
  OBVIOUS
<1>1. /\ forms \in Q!Features /\ opened \subseteq Q!Views /\ user = None /\ session = 0
      /\ writes = 0 /\ entry = [v \in Q!Views |-> Q!Empty] /\ mounted = {}
      /\ call = [c \in Calls |-> Q!Idle] /\ shown = [f \in DOMAIN forms |-> 0]
  BY DEF Q!Init
<1>2. Q!Empty \in EntryType /\ Q!Empty.data = None /\ Q!Empty.request = Q!Idle
  BY LoadRequests DEF Q!Empty, EntryType
<1>3. Q!Idle \in CallType /\ Q!Idle.op = "idle"
  BY LoadRequests DEF CallType
<1>4. CacheType
  BY <1>1, <1>2, <1>3 DEF CacheType
<1>5. \A v \in Q!Views : OfSession(entry[v]) /\ InOrder(entry[v])
  BY <1>1, <1>2, <1>3 DEF OfSession, InOrder
<1>6. \A c \in Calls : FormIsOnScreen(c) /\ (call[c].op = "done" => call[c].at <= writes)
  BY <1>1, <1>3 DEF FormIsOnScreen, Submitted
<1>7. \A g \in DOMAIN forms : shown[g] <= writes /\ Outcome(g)
  BY <1>1 DEF Outcome
<1> QED
  BY <1>1, <1>4, <1>5, <1>6, <1>7 DEF CacheInv

LEMMA CacheStep == CacheInv /\ [Q!Next]_cacheVars => CacheInv'
<1> SUFFICES ASSUME CacheInv, [Q!Next]_cacheVars PROVE CacheInv'
  OBVIOUS
<1>1. CASE UNCHANGED cacheVars
  <2>1. UNCHANGED <<Q!page, user, session, entry, mounted, writes, call, shown>>
    BY <1>1 DEF cacheVars, Q!page
  <2> QED
    BY <2>1, NothingLoads DEF CacheInv, CacheType
<1>2. ASSUME NEW u \in Users, Q!Login(u) PROVE CacheInv'
  BY <1>2, LoginStep
<1>3. CASE Q!ClearSession
  BY <1>3, ClearStep
<1>4. ASSUME NEW v \in Q!Views,
             \/ Q!Mount(v) \/ Q!Unmount(v) \/ Q!Read(v)
             \/ Q!LoadDone(v) \/ Q!LoadFailed(v) \/ Q!Refetch(v)
      PROVE  CacheInv'
  BY <1>4, MountStep, UnmountStep, ReadCacheStep, LoadDoneStep, LoadFailedStep, RefetchStep
<1>5. ASSUME NEW f \in DOMAIN forms, NEW c \in Calls, Q!Submit(f, c) PROVE CacheInv'
  BY <1>5, SubmitStep
<1>6. ASSUME NEW c \in Calls, Q!Serve(c) \/ Q!Fail(c) \/ Q!Succeed(c) PROVE CacheInv'
  BY <1>6, ServeStep, FailCallStep, SucceedStep
<1> QED
  BY <1>1, <1>2, <1>3, <1>4, <1>5, <1>6 DEF Q!Next

LEMMA CacheHolds == PartsSpec => []CacheInv
<1>1. PartsInit => CacheInv
  BY CacheInit DEF PartsInit
<1>2. CacheInv /\ [PartsNext]_<<part, vars, cacheVars, toastVars, reportVars, figureVars>>
        => CacheInv'
  BY CacheStep DEF PartsNext, cacheVars
<1> QED
  BY <1>1, <1>2, PTL DEF PartsSpec

\* What a tab shows was read in its session, and a button that has waited for
\* its form comes back over data that show what the form did, whichever feature
\* the tab is used for and however many forms are in flight (the queries.ts of
\* the features, QueryProvider).
THEOREM CacheTellsTheTruth == PartsSpec => []CacheIsSound
<1>1. CacheInv => CacheIsSound
  <2> SUFFICES ASSUME CacheInv PROVE CacheIsSound
    OBVIOUS
  <2>1. Q!CacheIsOfSession
    BY DEF Q!CacheIsOfSession, CacheInv, OfSession
  <2>2. ASSUME NEW f \in DOMAIN forms, forms[f].drawn, forms[f].awaits, Q!Clickable(f),
               NEW g \in forms[f].waits
        PROVE  entry[forms[f].home].data >= shown[g]
    <3> DEFINE e == entry[forms[f].home]
    <3>1. /\ e.data # None /\ ~e.failed /\ ~Q!Pending(g)
          /\ forms[f].idle => e.request = Q!Idle
      BY <2>2 DEF Q!Clickable
    <3>2. /\ g \in DOMAIN forms /\ Watched(g) /\ forms[g].home = forms[f].home
          /\ forms[g].idle = forms[f].idle
      BY <2>2, CacheFacts, FormFacts DEF Watched
    <3>3. \A c \in Calls : ~WaitsForHome(g, c)
      <4> SUFFICES ASSUME NEW c \in Calls, WaitsForHome(g, c) PROVE Q!Pending(g)
        BY <3>1
      <4>1. call[c] # Q!Idle /\ call[c].attached
        BY CacheFacts, CallFields, LoadRequests DEF WaitsForHome
      <4> QED
        BY <4>1 DEF WaitsForHome, Q!Pending
    <3>4. Outcome(g) /\ shown[g] \in Nat /\ e \in EntryType
      BY <3>2, CacheFacts, FormFacts DEF CacheInv
    <3>5. e.data \in Nat
      BY <3>1, <3>4, EntryFields
    <3>6. Fresh(e, shown[g]) => e.request # Q!Idle
      BY LoadRequests DEF Fresh
    <3> QED
      BY <3>1, <3>2, <3>3, <3>4, <3>5, <3>6 DEF Outcome
  <2> QED
    BY <2>1, <2>2 DEF CacheIsSound, Q!ButtonsShowTheirOutcome
<1> QED
  BY <1>1, CacheHolds, PTL

-----------------------------------------------------------------------------
(***************************************************************************)
(* Toasts (T).  What is pushed out, or taken out, is the message whose     *)
(* timeout is stopped, and no other, because no id is given twice.         *)
(***************************************************************************)
Distinct(s) == \A i, j \in 1 .. Len(s) : s[i] = s[j] => i = j

LEMMA MembersOf ==
  ASSUME NEW s \in Seq(Nat)
  PROVE  \A x : x \in T!ToSet(s) <=> \E i \in 1 .. Len(s) : s[i] = x
<1>1. DOMAIN s = 1 .. Len(s)
  OBVIOUS
<1> QED
  BY <1>1 DEF T!ToSet

LEMMA NoMembers == T!ToSet(<< >>) = {}
<1>1. << >> \in Seq(Nat) /\ \A i \in 1 .. Len(<< >>) : FALSE
  OBVIOUS
<1> QED
  BY <1>1, MembersOf

\* Ids below n, none of them twice.
Below(s, n) == s \in Seq(Nat) /\ Distinct(s) /\ \A i \in 1 .. Len(s) : s[i] < n

LEMMA NewIsAppended ==
  ASSUME NEW n \in Nat, NEW s, Below(s, n)
  PROVE  /\ Below(Append(s, n), n + 1) /\ Len(Append(s, n)) = Len(s) + 1
         /\ \A i \in 1 .. Len(s) : Append(s, n)[i] = s[i]
         /\ Append(s, n)[Len(s) + 1] = n
<1> DEFINE q == Append(s, n)
<1>1. s \in Seq(Nat) /\ Len(s) \in Nat
  BY DEF Below
<1>2. /\ q \in Seq(Nat) /\ Len(q) = Len(s) + 1
      /\ \A i \in 1 .. Len(s) : q[i] = s[i]
      /\ q[Len(s) + 1] = n
  BY <1>1, AppendProperties
<1> HIDE DEF q
<1>3. \A i \in 1 .. Len(s) : q[i] < n /\ q[i] \in Nat
  <2> TAKE i \in 1 .. Len(s)
  <2>1. q[i] = s[i]
    BY <1>2
  <2>2. s[i] \in Nat
    BY <1>1
  <2>3. s[i] < n
    BY DEF Below
  <2> QED
    BY <2>1, <2>2, <2>3
<1>4. \A i \in 1 .. Len(q) : i \in 1 .. Len(s) \/ i = Len(s) + 1
  BY <1>1, <1>2
<1>5. \A i \in 1 .. Len(q) : q[i] < n + 1
  BY <1>2, <1>3, <1>4
<1>6. Distinct(q)
  <2> SUFFICES ASSUME NEW i \in 1 .. Len(q), NEW j \in 1 .. Len(q), q[i] = q[j]
               PROVE  i = j
    BY DEF Distinct
  <2>1. CASE i \in 1 .. Len(s) /\ j \in 1 .. Len(s)
    BY <1>2, <2>1 DEF Distinct, Below
  <2>2. CASE ~(i \in 1 .. Len(s) /\ j \in 1 .. Len(s))
    BY <1>2, <1>3, <1>4, <2>2
  <2> QED
    BY <2>1, <2>2
<1> QED
  BY <1>2, <1>5, <1>6 DEF Below, q

LEMMA OldestIsDropped ==
  ASSUME NEW n \in Nat, NEW s, Below(s, n), s # << >>
  PROVE  /\ Below(Tail(s), n)
         /\ \A x \in T!ToSet(Tail(s)) : x \in T!ToSet(s) /\ x # Head(s)
<1> DEFINE q == Tail(s)
<1>1. s \in Seq(Nat) /\ Len(s) \in Nat \ {0} /\ Head(s) = s[1]
  BY DEF Below
<1>2. /\ q \in Seq(Nat) /\ Len(q) = Len(s) - 1
      /\ \A i \in 1 .. Len(q) : q[i] = s[i + 1]
  BY <1>1, HeadTailProperties
<1> HIDE DEF q
<1>3. \A i \in 1 .. Len(q) : i + 1 \in 1 .. Len(s) /\ i + 1 # 1
  BY <1>1, <1>2
<1>4. Distinct(q) /\ \A i \in 1 .. Len(q) : q[i] < n
  <2>1. \A i \in 1 .. Len(q) : q[i] < n
    BY <1>2, <1>3 DEF Below
  <2>2. \A i, j \in 1 .. Len(q) : i + 1 = j + 1 => i = j
    BY <1>1, <1>2
  <2>3. \A i, j \in 1 .. Len(s) : s[i] = s[j] => i = j
    BY DEF Below, Distinct
  <2> QED
    BY <1>2, <1>3, <2>1, <2>2, <2>3 DEF Distinct
<1>5. ASSUME NEW x \in T!ToSet(q)
      PROVE  x \in T!ToSet(s) /\ x # Head(s)
  <2>1. PICK i \in 1 .. Len(q) : q[i] = x
    BY <1>2, MembersOf
  <2>2. s[i + 1] = x
    BY <1>2, <2>1
  <2> QED
    BY <1>1, <1>3, <2>2, MembersOf DEF Distinct, Below
<1> QED
  BY <1>2, <1>4, <1>5 DEF Below, q

LEMMA OneIsRemoved ==
  ASSUME NEW n \in Nat, NEW s, Below(s, n), NEW k \in 1 .. Len(s)
  PROVE  /\ Below(T!RemoveAt(s, k), n)
         /\ \A x \in T!ToSet(T!RemoveAt(s, k)) : x \in T!ToSet(s) /\ x # s[k]
<1> DEFINE before == SubSeq(s, 1, k - 1)
           after == SubSeq(s, k + 1, Len(s))
           q == before \o after
           At(i) == IF i < k THEN i ELSE i + 1
<1>1. s \in Seq(Nat) /\ Len(s) \in Nat /\ k \in Int /\ T!RemoveAt(s, k) = q
  BY DEF Below, T!RemoveAt
<1>2. /\ before \in Seq(Nat) /\ Len(before) = k - 1
      /\ \A i \in 1 .. k - 1 : before[i] = s[i]
  BY <1>1, SubSeqProperties
<1>3. /\ after \in Seq(Nat) /\ Len(after) = Len(s) - k
      /\ \A i \in 1 .. Len(s) - k : after[i] = s[i + k]
  BY <1>1, SubSeqProperties
<1> HIDE DEF before, after
<1>4. /\ q \in Seq(Nat) /\ Len(q) = Len(s) - 1
      /\ \A i \in 1 .. Len(s) - 1 : q[i] = IF i <= k - 1 THEN before[i] ELSE after[i - (k - 1)]
  <2>1. Len(before) + Len(after) = Len(s) - 1
    BY <1>1, <1>2, <1>3
  <2>2. /\ q \in Seq(Nat) /\ Len(q) = Len(before) + Len(after)
        /\ \A i \in 1 .. Len(before) + Len(after) :
             q[i] = IF i <= Len(before) THEN before[i] ELSE after[i - Len(before)]
    BY <1>2, <1>3, ConcatProperties
  <2> QED
    BY <1>2, <2>1, <2>2
<1> HIDE DEF q
<1>5. ASSUME NEW i \in 1 .. Len(q)
      PROVE  q[i] = s[At(i)] /\ At(i) \in 1 .. Len(s) /\ At(i) # k
  <2>1. CASE i < k
    <3>1. i <= k - 1 /\ i \in 1 .. k - 1
      BY <1>1, <2>1
    <3>2. q[i] = before[i]
      BY <1>4, <3>1
    <3> QED
      BY <1>1, <1>2, <2>1, <3>1, <3>2
  <2>2. CASE ~(i < k)
    <3>1. ~(i <= k - 1) /\ i - (k - 1) \in 1 .. Len(s) - k /\ i - (k - 1) + k = i + 1
      BY <1>1, <1>4, <2>2
    <3>2. q[i] = after[i - (k - 1)]
      BY <1>4, <3>1
    <3>3. after[i - (k - 1)] = s[i + 1]
      BY <1>3, <3>1
    <3> QED
      BY <1>1, <1>4, <2>2, <3>2, <3>3
  <2> QED
    BY <2>1, <2>2
<1>6. \A i, j \in 1 .. Len(q) : At(i) = At(j) => i = j
  <2> SUFFICES ASSUME NEW i \in 1 .. Len(q), NEW j \in 1 .. Len(q), At(i) = At(j)
               PROVE  i = j
    OBVIOUS
  <2>1. i \in Int /\ j \in Int
    BY <1>1, <1>4
  <2>2. CASE i < k /\ j < k
    BY <2>2
  <2>3. CASE i < k /\ ~(j < k)
    <3>1. i = j + 1
      BY <2>3
    <3> QED
      BY <1>1, <2>1, <2>3, <3>1
  <2>4. CASE ~(i < k) /\ j < k
    <3>1. i + 1 = j
      BY <2>4
    <3> QED
      BY <1>1, <2>1, <2>4, <3>1
  <2>5. CASE ~(i < k) /\ ~(j < k)
    <3>1. i + 1 = j + 1
      BY <2>5
    <3> QED
      BY <2>1, <3>1
  <2> QED
    BY <2>2, <2>3, <2>4, <2>5
<1> HIDE DEF At
<1>7. Distinct(q) /\ \A i \in 1 .. Len(q) : q[i] < n
  BY <1>5, <1>6 DEF Distinct, Below
<1>8. ASSUME NEW x \in T!ToSet(q)
      PROVE  x \in T!ToSet(s) /\ x # s[k]
  <2>1. PICK i \in 1 .. Len(q) : q[i] = x
    BY <1>4, MembersOf
  <2>2. s[At(i)] = x /\ At(i) \in 1 .. Len(s) /\ At(i) # k
    BY <1>5, <2>1
  <2> QED
    BY <1>1, <2>2, MembersOf DEF Distinct, Below
<1> QED
  BY <1>1, <1>4, <1>7, <1>8 DEF Below

ToastInv == nextId \in Nat /\ Below(toasts, nextId) /\ T!UnheldToastIsTimed

LEMMA ToastIsPushed ==
  ASSUME ToastInv
  PROVE  LET queue == T!PushToast(nextId)
         IN /\ Below(queue, nextId + 1)
            /\ T!ToSet(queue) \subseteq (T!ToSet(toasts) \ T!Evicted) \cup {nextId}
<1> DEFINE long == Append(toasts, nextId)
<1>1. nextId \in Nat /\ Below(toasts, nextId) /\ toasts \in Seq(Nat) /\ Len(toasts) \in Nat
  BY DEF ToastInv, Below
<1>2. /\ Below(long, nextId + 1) /\ Len(long) = Len(toasts) + 1
      /\ \A i \in 1 .. Len(toasts) : long[i] = toasts[i]
      /\ long[Len(toasts) + 1] = nextId
  BY <1>1, NewIsAppended
<1>3. T!PushToast(nextId) = IF Len(long) > 3 THEN Tail(long) ELSE long
  BY DEF T!PushToast, T!MAX_VISIBLE_TOASTS
<1>4. T!Evicted = IF Len(toasts) >= 3 THEN {Head(toasts)} ELSE {}
  BY DEF T!Evicted, T!MAX_VISIBLE_TOASTS
<1> HIDE DEF long
<1>5. long \in Seq(Nat)
  BY <1>2 DEF Below
<1>6. \A x \in T!ToSet(long) : x \in T!ToSet(toasts) \/ x = nextId
  <2> TAKE x \in T!ToSet(long)
  <2>1. PICK i \in 1 .. Len(long) : long[i] = x
    BY <1>5, MembersOf
  <2>2. i \in 1 .. Len(toasts) \/ i = Len(toasts) + 1
    BY <1>1, <1>2
  <2> QED
    BY <1>1, <1>2, <2>1, <2>2, MembersOf
<1>7. CASE Len(toasts) >= 3
  <2>1. Len(long) > 3 /\ long # << >> /\ nextId + 1 \in Nat
    BY <1>1, <1>2, <1>5, <1>7
  <2>2. Head(long) = Head(toasts)
    BY <1>1, <1>2, <1>5, <1>7, <2>1
  <2> QED
    BY <1>2, <1>3, <1>4, <1>6, <1>7, <2>1, <2>2, OldestIsDropped
<1>8. CASE ~(Len(toasts) >= 3)
  <2>1. ~(Len(long) > 3)
    BY <1>1, <1>2, <1>8
  <2> QED
    BY <1>2, <1>3, <1>4, <1>6, <1>8, <2>1
<1> QED
  BY <1>7, <1>8

LEMMA ToastIsRemoved ==
  ASSUME ToastInv, NEW id
  PROVE  LET queue == T!RemoveToast(id)
         IN Below(queue, nextId) /\ T!ToSet(queue) \subseteq T!ToSet(toasts) \ {id}
<1>1. nextId \in Nat /\ Below(toasts, nextId) /\ toasts \in Seq(Nat)
  BY DEF ToastInv, Below
<1>2. CASE ~T!Visible(id)
  BY <1>1, <1>2 DEF T!RemoveToast, T!Visible
<1>3. CASE T!Visible(id)
  <2> DEFINE k == CHOOSE i \in 1 .. Len(toasts) : toasts[i] = id
  <2>1. T!RemoveToast(id) = T!RemoveAt(toasts, k)
    BY <1>3 DEF T!RemoveToast
  <2>2. k \in 1 .. Len(toasts) /\ toasts[k] = id
    BY <1>1, <1>3, MembersOf DEF T!Visible
  <2> HIDE DEF k
  <2> QED
    BY <1>1, <2>1, <2>2, OneIsRemoved
<1> QED
  BY <1>2, <1>3

\* Who is left in the corner is timed if they were before, or held.
LEMMA Displayed ==
  ASSUME ToastInv, NEW queue, T!Display(queue), Below(queue, nextId'), nextId' \in Nat,
         \A id \in T!ToSet(queue) :
           id \in timers' \/ (id \in T!ToSet(toasts) /\ (id \in timers => id \in timers'))
  PROVE  ToastInv'
<1>1. /\ toasts' = queue
      /\ hovered \in T!ToSet(queue) => hovered' = hovered
      /\ focused \in T!ToSet(queue) => focused' = focused
  BY DEF T!Display
<1>2. ASSUME NEW id \in T!ToSet(queue)
      PROVE  T!Held(id)' \/ id \in timers'
  BY <1>1, <1>2 DEF ToastInv, T!UnheldToastIsTimed, T!Held
<1>3. T!ToSet(toasts)' = T!ToSet(queue)
  BY <1>1 DEF T!ToSet
<1> QED
  BY <1>1, <1>2, <1>3 DEF ToastInv, T!UnheldToastIsTimed

LEMMA ToastInit == T!Init => ToastInv
<1> SUFFICES ASSUME T!Init PROVE ToastInv
  OBVIOUS
<1>1. toasts = << >> /\ nextId = 1
  BY DEF T!Init
<1>2. Below(toasts, nextId)
  BY <1>1 DEF Below, Distinct
<1>3. \A x : x \notin T!ToSet(toasts)
  BY <1>1, NoMembers
<1> QED
  BY <1>1, <1>2, <1>3 DEF ToastInv, T!UnheldToastIsTimed

LEMMA ToastStep == ToastInv /\ [T!Next]_toastVars => ToastInv'
<1> SUFFICES ASSUME ToastInv, [T!Next]_toastVars PROVE ToastInv'
  OBVIOUS
<1>1. CASE UNCHANGED toastVars
  BY <1>1 DEF toastVars, ToastInv, Below, Distinct, T!UnheldToastIsTimed, T!Held, T!ToSet
<1>2. CASE T!Show
  <2>1. /\ nextId' = nextId + 1 /\ timers' = (timers \ T!Evicted) \cup {nextId}
        /\ T!Display(T!PushToast(nextId))
    BY <1>2 DEF T!Show
  <2>2. nextId' \in Nat
    BY <2>1 DEF ToastInv
  <2> QED
    BY <2>1, <2>2, ToastIsPushed, Displayed
<1>3. ASSUME NEW id, T!Dismiss(id) \/ T!Fire(id) PROVE ToastInv'
  <2>1. timers' = timers \ {id} /\ T!Display(T!RemoveToast(id)) /\ nextId' = nextId
    BY <1>3 DEF T!Dismiss, T!Fire
  <2>2. nextId' \in Nat
    BY <2>1 DEF ToastInv
  <2> QED
    BY <2>1, <2>2, ToastIsRemoved, Displayed
<1>4. ASSUME NEW id, T!MouseEnter(id) \/ T!Focus(id) PROVE ToastInv'
  <2>1. /\ timers' = timers \ {id} /\ UNCHANGED <<toasts, nextId>>
        /\ \/ hovered = None /\ hovered' = id /\ UNCHANGED focused
           \/ focused = None /\ focused' = id /\ UNCHANGED hovered
    BY <1>4 DEF T!MouseEnter, T!Focus, T!PauseToast
  <2>2. None \notin T!ToSet(toasts)
    BY PartsAssumption, MembersOf DEF ToastInv, Below
  <2>3. T!UnheldToastIsTimed'
    BY <2>1, <2>2 DEF ToastInv, T!UnheldToastIsTimed, T!Held, T!ToSet
  <2> QED
    BY <2>1, <2>3 DEF ToastInv, Below, Distinct
<1>5. CASE T!MouseLeave \/ T!Blur
  <2>1. /\ UNCHANGED <<toasts, nextId>>
        /\ \/ /\ hovered' = None /\ UNCHANGED focused
              /\ timers' = IF T!Visible(hovered) THEN timers \cup {hovered} ELSE timers
           \/ /\ focused' = None /\ UNCHANGED hovered
              /\ timers' = IF T!Visible(focused) THEN timers \cup {focused} ELSE timers
    BY <1>5 DEF T!MouseLeave, T!Blur, T!ResumeToast
  <2>2. T!UnheldToastIsTimed'
    BY <2>1 DEF ToastInv, T!UnheldToastIsTimed, T!Held, T!ToSet, T!Visible
  <2> QED
    BY <2>1, <2>2 DEF ToastInv, Below, Distinct
<1>6. CASE T!ClearAllToasts
  <2>1. T!Display(<< >>) /\ nextId' = nextId
    BY <1>6 DEF T!ClearAllToasts
  <2>2. Below(<< >>, nextId') /\ nextId' \in Nat
    BY <2>1 DEF Below, Distinct, ToastInv
  <2>3. \A x : x \notin T!ToSet(<< >>)
    BY NoMembers
  <2> QED
    BY <2>1, <2>2, <2>3, Displayed
<1> QED
  BY <1>1, <1>2, <1>3, <1>4, <1>5, <1>6 DEF T!Next

LEMMA ToastHolds == PartsSpec => []ToastInv
<1>1. PartsInit => ToastInv
  BY ToastInit DEF PartsInit
<1>2. ToastInv /\ [PartsNext]_<<part, vars, cacheVars, toastVars, reportVars, figureVars>>
        => ToastInv'
  BY ToastStep DEF PartsNext, toastVars
<1> QED
  BY <1>1, <1>2, PTL DEF PartsSpec

\* A message that nobody holds is timed, however many messages are shown and
\* pushed out meanwhile (pauseToast, resumeToast, showToast).
THEOREM UnheldIsTimed == PartsSpec => []UnheldToastIsTimed
<1>1. ToastInv => UnheldToastIsTimed
  BY DEF ToastInv, UnheldToastIsTimed
<1> QED
  BY <1>1, ToastHolds, PTL

-----------------------------------------------------------------------------
(***************************************************************************)
(* Reports (R).  Who goes on to a report for a shift has closed it: no     *)
(* other request closes it again, so what was recorded before it was       *)
(* closed is known when the aggregation begins.                            *)
(***************************************************************************)
HandlerType ==
  {R!Idle} \cup [op: {"claim"}, for: Shifts] \cup [op: {"aggregate"}, for: Shifts \cup {NULL}]
    \cup [op: {"store"}, for: Shifts \cup {NULL}, content: Nat]

HandlerInv(h) ==
  /\ h.op \in {"aggregate", "store"} /\ h.for # NULL => shift[h.for] = "closed"
  /\ h.op = "store" => h.content <= changes /\ (h.for # NULL => h.content >= closedAt[h.for])

ReportInv ==
  /\ changes \in Nat
  /\ shift \in [Shifts -> {"open", "closed"}]
  /\ closedAt \in [Shifts -> Nat] /\ \A s \in Shifts : closedAt[s] <= changes
  /\ handler \in [Requests -> HandlerType] /\ \A r \in Requests : HandlerInv(handler[r])
  /\ cause # NULL =>
       /\ cause \in Shifts /\ shift[cause] = "closed"
       /\ report.sourceShiftId = cause /\ report.content \in Nat
       /\ report.content >= closedAt[cause]

LEMMA HandlerFields ==
  ASSUME NEW h \in HandlerType
  PROVE  /\ h.op = "claim" => h.for \in Shifts
         /\ h.op \in {"aggregate", "store"} => h.for \in Shifts \cup {NULL}
         /\ h.op = "store" => h.content \in Nat
BY DEF HandlerType, R!Idle

LEMMA HandlerTypes ==
  /\ R!Idle \in HandlerType /\ R!Idle.op = "idle"
  /\ \A s \in Shifts : [op |-> "claim", for |-> s] \in HandlerType
  /\ \A s \in Shifts \cup {NULL} :
       /\ [op |-> "aggregate", for |-> s] \in HandlerType
       /\ \A n \in Nat : [op |-> "store", for |-> s, content |-> n] \in HandlerType
BY DEF HandlerType, R!Idle

\* A request goes on, and nothing else happens.
LEMMA HandlerMoves ==
  ASSUME ReportInv, NEW r \in Requests, NEW h \in HandlerType, R!Goto(r, h), HandlerInv(h),
         UNCHANGED <<changes, shift, report, closedAt, cause>>
  PROVE  ReportInv'
<1>1. handler' \in [Requests -> HandlerType] /\ handler'[r] = h
      /\ \A r2 \in Requests : r2 # r => handler'[r2] = handler[r2]
  BY DEF R!Goto, ReportInv
<1>2. \A r2 \in Requests : HandlerInv(handler[r2])'
  BY <1>1 DEF ReportInv, HandlerInv
<1> QED
  BY <1>1, <1>2 DEF ReportInv

LEMMA CloseClaimStep ==
  ASSUME ReportInv, NEW r \in Requests, R!CloseClaim(r)
  PROVE  ReportInv'
<1> DEFINE s == handler[r].for
           next == [op |-> "aggregate", for |-> s]
<1>1. handler[r].op = "claim" /\ s \in Shifts /\ UNCHANGED <<changes, report, cause>>
  BY HandlerFields DEF R!CloseClaim, ReportInv
<1>2. CASE shift[s] # "open"
  <2>1. R!Goto(r, R!Idle) /\ UNCHANGED <<shift, closedAt>>
    BY <1>2 DEF R!CloseClaim
  <2>2. HandlerInv(R!Idle)
    BY HandlerTypes DEF HandlerInv
  <2> QED
    BY <1>1, <2>1, <2>2, HandlerTypes, HandlerMoves
<1>3. CASE shift[s] = "open"
  <2>1. /\ shift' = [shift EXCEPT ![s] = "closed"] /\ closedAt' = [closedAt EXCEPT ![s] = changes]
        /\ R!Goto(r, next)
    BY <1>3 DEF R!CloseClaim
  <2>2. /\ shift' \in [Shifts -> {"open", "closed"}] /\ closedAt' \in [Shifts -> Nat]
        /\ shift'[s] = "closed" /\ closedAt'[s] = changes
        /\ \A s2 \in Shifts : s2 # s => shift'[s2] = shift[s2] /\ closedAt'[s2] = closedAt[s2]
    BY <1>1, <2>1 DEF ReportInv
  <2>3. next \in HandlerType /\ next.op = "aggregate" /\ next.for = s
    BY <1>1, HandlerTypes
  <2> HIDE DEF next
  <2>4. /\ handler' \in [Requests -> HandlerType] /\ handler'[r] = next
        /\ \A r2 \in Requests : r2 # r => handler'[r2] = handler[r2]
    BY <2>1, <2>3 DEF R!Goto, ReportInv
  <2>5. HandlerInv(handler[r])'
    BY <1>1, <2>2, <2>3, <2>4 DEF HandlerInv, ReportInv
  <2>6. ASSUME NEW r2 \in Requests, r2 # r
        PROVE  HandlerInv(handler[r2])'
    <3>1. handler'[r2] = handler[r2] /\ handler[r2] \in HandlerType /\ HandlerInv(handler[r2])
      BY <2>4, <2>6 DEF ReportInv
    <3> QED
      BY <1>1, <1>3, <2>2, <3>1, HandlerFields DEF HandlerInv
  <2>7. \A r2 \in Requests : HandlerInv(handler[r2])'
    BY <2>4, <2>5, <2>6
  <2>8. \A s2 \in Shifts : closedAt'[s2] <= changes
    BY <2>2 DEF ReportInv
  <2> QED
    BY <1>1, <1>3, <2>2, <2>4, <2>7, <2>8 DEF ReportInv
<1> QED
  BY <1>2, <1>3

LEMMA StoreReportStep ==
  ASSUME ReportInv, NEW r \in Requests, R!Store(r)
  PROVE  ReportInv'
<1> DEFINE s == handler[r].for
<1>1. /\ handler[r].op = "store" /\ cause' = s
      /\ report' = [content |-> handler[r].content,
                    sourceShiftId |-> IF s = NULL THEN report.sourceShiftId ELSE s]
      /\ R!Goto(r, R!Idle) /\ UNCHANGED <<changes, shift, closedAt>>
  BY DEF R!Store
<1>2. /\ handler[r] \in HandlerType /\ HandlerInv(handler[r])
      /\ handler[r].content \in Nat /\ s \in Shifts \cup {NULL}
  BY <1>1, HandlerFields DEF ReportInv
<1>3. cause' # NULL =>
        /\ cause' \in Shifts /\ shift[cause'] = "closed"
        /\ report'.sourceShiftId = cause' /\ report'.content \in Nat
        /\ report'.content >= closedAt[cause']
  BY <1>1, <1>2 DEF HandlerInv
<1>4. /\ handler' \in [Requests -> HandlerType] /\ handler'[r] = R!Idle
      /\ \A r2 \in Requests : r2 # r => handler'[r2] = handler[r2]
  BY <1>1, HandlerTypes DEF R!Goto, ReportInv
<1>5. \A r2 \in Requests : HandlerInv(handler[r2])'
  BY <1>1, <1>4, HandlerTypes DEF ReportInv, HandlerInv
<1> QED
  BY <1>1, <1>3, <1>4, <1>5 DEF ReportInv

LEMMA ReportInit == R!Init => ReportInv
<1> SUFFICES ASSUME R!Init PROVE ReportInv
  OBVIOUS
<1>1. HandlerInv(R!Idle)
  BY HandlerTypes DEF HandlerInv
<1> QED
  BY <1>1, HandlerTypes DEF R!Init, ReportInv

LEMMA ReportStep == ReportInv /\ [R!Next]_reportVars => ReportInv'
<1> SUFFICES ASSUME ReportInv, [R!Next]_reportVars PROVE ReportInv'
  OBVIOUS
<1>1. CASE UNCHANGED reportVars
  BY <1>1 DEF reportVars, ReportInv, HandlerInv
<1>2. CASE R!Change
  <2>1. changes' = changes + 1 /\ UNCHANGED <<shift, report, handler, closedAt, cause>>
    BY <1>2 DEF R!Change
  <2>2. \A r \in Requests : HandlerInv(handler[r])'
    BY <2>1, HandlerFields DEF ReportInv, HandlerInv
  <2> QED
    BY <2>1, <2>2 DEF ReportInv
<1>3. ASSUME NEW r \in Requests, NEW s \in Shifts, R!CloseRead(r, s) PROVE ReportInv'
  <2>1. HandlerInv([op |-> "claim", for |-> s])
    BY DEF HandlerInv
  <2> QED
    BY <1>3, <2>1, HandlerTypes, HandlerMoves DEF R!CloseRead
<1>4. ASSUME NEW r \in Requests, R!Regenerate(r) PROVE ReportInv'
  <2>1. HandlerInv([op |-> "aggregate", for |-> NULL])
    BY DEF HandlerInv
  <2> QED
    BY <1>4, <2>1, HandlerTypes, HandlerMoves DEF R!Regenerate
<1>5. ASSUME NEW r \in Requests, R!Aggregate(r) PROVE ReportInv'
  <2> DEFINE h == [op |-> "store", for |-> handler[r].for, content |-> changes]
  <2>1. /\ handler[r].op = "aggregate" /\ R!Goto(r, h)
        /\ UNCHANGED <<changes, shift, report, closedAt, cause>>
    BY <1>5 DEF R!Aggregate
  <2>2. /\ handler[r].for \in Shifts \cup {NULL} /\ HandlerInv(handler[r]) /\ changes \in Nat
        /\ \A s \in Shifts : closedAt[s] \in Nat /\ closedAt[s] <= changes
    BY <2>1, HandlerFields DEF ReportInv
  <2>3. h \in HandlerType /\ h.op = "store" /\ h.for = handler[r].for /\ h.content = changes
    BY <2>2, HandlerTypes
  <2> HIDE DEF h
  <2>4. HandlerInv(h)
    BY <2>1, <2>2, <2>3 DEF HandlerInv
  <2> QED
    BY <2>1, <2>3, <2>4, HandlerMoves
<1>6. ASSUME NEW r \in Requests, R!Fail(r) PROVE ReportInv'
  <2>1. HandlerInv(R!Idle)
    BY HandlerTypes DEF HandlerInv
  <2> QED
    BY <1>6, <2>1, HandlerTypes, HandlerMoves DEF R!Fail
<1> QED
  BY <1>1, <1>2, <1>3, <1>4, <1>5, <1>6, CloseClaimStep, StoreReportStep DEF R!Next

-----------------------------------------------------------------------------
(***************************************************************************)
(* The sales report of Dashboard (D).  Who has opened a shift never loses  *)
(* it, so the statement that reads the shifts of the team finds every      *)
(* shift that was open when the request began.                             *)
(***************************************************************************)
Opened == {"open", "closed"}

SalesInv ==
  /\ "shift" \in DOMAIN table /\ table.shift \in [Users -> Opened \cup {"none", "missed"}]
  /\ early \subseteq {s \in Users : table.shift[s] \in Opened}
  /\ view = "sales" =>
       /\ "shiftsOf" \in DOMAIN got =>
            /\ "team" \in DOMAIN got
            /\ \A s \in got["team"] \cap early : got["shiftsOf"][s] \in Opened
       /\ screen = "page" => response.notOpened \cap early = {}

\* What is written leaves open what was open.
LEMMA WriteStep ==
  ASSUME SalesInv, NEW tables, D!Write(tables), "shift" \in DOMAIN tables,
         tables.shift \in [Users -> Opened \cup {"none", "missed"}],
         \A s \in Users : table.shift[s] \in Opened => tables.shift[s] \in Opened
  PROVE  SalesInv'
BY DEF SalesInv, D!Write

LEMMA RowsStep ==
  ASSUME SalesInv, NEW s \in Users, D!Sell(s) \/ D!Pay(s) \/ D!Disable(s)
  PROVE  SalesInv'
<1> DEFINE Kept(tables) == "shift" \in DOMAIN tables /\ tables.shift = table.shift
<1>1. "shift" \in DOMAIN table
  BY DEF SalesInv
<1>2. ASSUME NEW tables, D!Write(tables), Kept(tables) PROVE SalesInv'
  BY <1>2, WriteStep DEF SalesInv
<1>3. ASSUME NEW st PROVE Kept([table EXCEPT !.booking[s] = st])
  BY <1>1
<1>4. ASSUME NEW st PROVE Kept([table EXCEPT !.contract[s] = st])
  BY <1>1
<1>5. ASSUME NEW row PROVE Kept([table EXCEPT !.entry[s] = row])
  BY <1>1
<1>6. Kept([table EXCEPT !.active = table.active \ {s}])
  BY <1>1
<1> HIDE DEF Kept
<1> QED
  BY <1>2, <1>3, <1>4, <1>5, <1>6 DEF D!Sell, D!Pay, D!Disable

LEMMA AccountStep ==
  ASSUME SalesInv, NEW o \in Operations, D!Account(o)
  PROVE  SalesInv'
<1>1. PICK row : D!Write([table EXCEPT !.operation[o] = row])
  BY DEF D!Account
<1> DEFINE tables == [table EXCEPT !.operation[o] = row]
<1>2. "shift" \in DOMAIN tables /\ tables.shift = table.shift
  BY DEF SalesInv
<1> HIDE DEF tables
<1>3. D!Write(tables)
  BY <1>1 DEF tables
<1> QED
  BY <1>2, <1>3, WriteStep DEF SalesInv

LEMMA AttendStep ==
  ASSUME SalesInv, NEW s \in Users, D!Attend(s)
  PROVE  SalesInv'
<1>1. CASE \E st \in {"open", "closed", "missed"} :
             /\ table.shift[s] = "none" \/ (table.shift[s] = "open" /\ st = "closed")
             /\ D!Write([table EXCEPT !.shift[s] = st])
  <2>1. PICK st \in {"open", "closed", "missed"} :
          /\ table.shift[s] = "none" \/ (table.shift[s] = "open" /\ st = "closed")
          /\ D!Write([table EXCEPT !.shift[s] = st])
    BY <1>1
  <2> DEFINE tables == [table EXCEPT !.shift[s] = st]
  <2>2. "shift" \in DOMAIN tables /\ tables.shift = [table.shift EXCEPT ![s] = st]
    BY DEF SalesInv
  <2> HIDE DEF tables
  <2>3. D!Write(tables)
    BY <2>1 DEF tables
  <2>4. tables.shift \in [Users -> Opened \cup {"none", "missed"}]
    BY <2>2 DEF SalesInv, Opened
  <2>5. \A u \in Users : table.shift[u] \in Opened => tables.shift[u] \in Opened
    BY <2>1, <2>2 DEF SalesInv, Opened
  <2> QED
    BY <2>2, <2>3, <2>4, <2>5, WriteStep
<1>2. CASE \E off \in {table.dayOff \cup {s}, table.dayOff \ {s}} :
             D!Write([table EXCEPT !.dayOff = off])
  <2>1. PICK off : D!Write([table EXCEPT !.dayOff = off])
    BY <1>2
  <2> DEFINE tables == [table EXCEPT !.dayOff = off]
  <2>2. "shift" \in DOMAIN tables /\ tables.shift = table.shift
    BY DEF SalesInv
  <2> HIDE DEF tables
  <2>3. D!Write(tables)
    BY <2>1 DEF tables
  <2> QED
    BY <2>2, <2>3, WriteStep DEF SalesInv
<1> QED
  BY <1>1, <1>2 DEF D!Attend

LEMMA FindStep ==
  ASSUME SalesInv, NEW q \in D!Statements, D!Find(q)
  PROVE  SalesInv'
<1>1. /\ q \notin DOMAIN got /\ D!After(q) \subseteq DOMAIN got
      /\ got' = [p \in DOMAIN got \cup {q} |-> IF p = q THEN D!Found(q) ELSE got[p]]
      /\ UNCHANGED <<view, table, screen, response, edits, early>>
  BY DEF D!Find
<1> SUFFICES ASSUME view = "sales"
             PROVE  "shiftsOf" \in DOMAIN got' =>
                      /\ "team" \in DOMAIN got'
                      /\ \A s \in got'["team"] \cap early : got'["shiftsOf"][s] \in Opened
  BY <1>1 DEF SalesInv
<1>2. CASE q = "team"
  BY <1>1, <1>2 DEF SalesInv
<1>3. CASE q = "shiftsOf"
  <2>1. D!Found(q) = [s \in got["team"] |-> table.shift[s]] /\ D!After(q) = {"team"}
    BY <1>3 DEF D!Found, D!After, D!Members
  <2> QED
    BY <1>1, <1>3, <2>1 DEF SalesInv
<1>4. CASE q \notin {"team", "shiftsOf"}
  BY <1>1, <1>4 DEF SalesInv
<1> QED
  BY <1>2, <1>3, <1>4

LEMMA ShowReportStep ==
  ASSUME SalesInv, D!Show
  PROVE  SalesInv'
<1>1. /\ DOMAIN got = D!Statements /\ UNCHANGED <<view, table, got, edits, early>>
      /\ \/ screen' = "page" /\ response' = D!Answer
         \/ screen' = "refused"
  BY DEF D!Show
<1> SUFFICES ASSUME view = "sales", response' = D!Answer
             PROVE  response'.notOpened \cap early = {}
  BY <1>1 DEF SalesInv
<1>2. "team" \in DOMAIN got /\ "shiftsOf" \in DOMAIN got
  BY <1>1 DEF D!Statements
<1>3. D!Answer = D!SalesContent
  BY DEF D!Answer
<1>4. D!SalesContent.notOpened \subseteq
        {s \in got["team"] : got["shiftsOf"][s] \in {"none", "missed"}}
  BY DEF D!SalesContent
<1> QED
  BY <1>2, <1>3, <1>4 DEF SalesInv, Opened

LEMMA SalesInit == D!Init => SalesInv
BY DEF D!Init, SalesInv, Opened, D!Nothing

LEMMA SalesStep == SalesInv /\ [D!Next]_figureVars => SalesInv'
<1> SUFFICES ASSUME SalesInv, [D!Next]_figureVars PROVE SalesInv'
  OBVIOUS
<1>1. CASE UNCHANGED figureVars
  BY <1>1 DEF figureVars, SalesInv
<1>2. CASE D!Fail
  BY <1>2 DEF D!Fail, SalesInv
<1>3. CASE D!Refetch
  BY <1>3 DEF D!Refetch, D!Nothing, D!OpenedBy, D!OpenedShift, SalesInv, Opened
<1> QED
  BY <1>1, <1>2, <1>3, RowsStep, AttendStep, AccountStep, ShowReportStep, FindStep DEF D!Next

LEMMA ReportsHold == PartsSpec => [](ReportInv /\ SalesInv)
<1>1. PartsInit => ReportInv /\ SalesInv
  BY ReportInit, SalesInit DEF PartsInit
<1>2. [PartsNext]_<<part, vars, cacheVars, toastVars, reportVars, figureVars>>
        => [R!Next]_reportVars /\ [D!Next]_figureVars
  BY DEF PartsNext
<1> QED
  BY <1>1, <1>2, ReportStep, SalesStep, PTL DEF PartsSpec

\* A report stored by the closing of a shift holds what was recorded before,
\* and nobody who had opened a shift is reported for not having opened one,
\* however many requests close, regenerate and read (ShiftsService.close,
\* ReportsService.generate, salesContent).
THEOREM ReportsTellTheTruth == PartsSpec => []ReportsAreSound
<1>1. ReportInv /\ SalesInv => ReportsAreSound
  BY DEF ReportInv, SalesInv, ReportsAreSound, R!ReportCoversItsShift, D!NotOpenedIsTrue
<1> QED
  BY <1>1, ReportsHold, PTL

-----------------------------------------------------------------------------
(***************************************************************************)
(* Sums over finite sets, by induction: the sets a fact holds of are a set *)
(* P, so that the induction of the library needs no operator as parameter. *)
(***************************************************************************)
\* What holds of a finite set if it holds of all its proper subsets, for the set
\* P of what it holds of.
LEMMA SmallerFirst ==
  ASSUME NEW S, IsFiniteSet(S), NEW P,
         \A A \in SUBSET S : (SUBSET A) \ {A} \subseteq P => A \in P
  PROVE  S \in P
<1> DEFINE Less == StrictSubsetOrdering(S)
           F == FiniteSubsetsOf(S)
           Others == (SUBSET S) \ P
<1>1. IsWellFoundedOn(Less, F)
  BY FS_StrictSubsetOrderingWellFounded
<1>2. F = SUBSET S
  BY FS_FiniteSubsetsOfFinite
<1>3. SUFFICES ASSUME Others # {} PROVE FALSE
  BY DEF Others
<1>4. PICK A \in Others : \A B \in Others : <<B, A>> \notin Less
  <2>1. Others \subseteq F
    BY <1>2
  <2> HIDE DEF Less, F, Others
  <2> QED
    BY <1>1, <1>3, <2>1, WFMin
<1>5. (SUBSET A) \ {A} \subseteq P
  BY <1>4 DEF StrictSubsetOrdering
<1> QED
  BY <1>4, <1>5

\* Induction over a finite set, for the set P of the subsets it holds of.
LEMMA OneByOne ==
  ASSUME NEW S, IsFiniteSet(S), NEW P, {} \in P,
         \A A \in SUBSET S : \A x \in S \ A : A \in P => A \cup {x} \in P
  PROVE  S \in P
<1>1. ASSUME NEW A \in SUBSET S, (SUBSET A) \ {A} \subseteq P PROVE A \in P
  <2>1. CASE A = {}
    BY <2>1
  <2>2. ASSUME NEW x \in A PROVE A \in P
    <3>1. A \ {x} \in P /\ x \in S \ (A \ {x}) /\ (A \ {x}) \cup {x} = A /\ A \ {x} \in SUBSET S
      BY <1>1
    <3> QED
      BY <3>1
  <2> QED
    BY <2>1, <2>2
<1> QED
  BY <1>1, SmallerFirst

\* The element FoldFunctionOnSet takes first.
Pick(s) == CHOOSE x \in s : TRUE

\* g has the sums of f over the subsets of S.
IsSum(g, f, S) ==
  g = [s \in SUBSET S |-> IF s = {} THEN 0 ELSE f[Pick(s)] + g[s \ {Pick(s)}]]

\* A sum of the library is the value of such a function, if there is one.
LEMMA SumDef ==
  ASSUME NEW f, NEW S
  PROVE  SumFunctionOnSet(f, S) = (CHOOSE g : IsSum(g, f, S))[S]
BY DEF SumFunctionOnSet, FoldFunctionOnSet, MapThenFoldSet, IsSum, Pick

\* Such functions on two sets agree where both are defined.
LEMMA SumsAgree ==
  ASSUME NEW f, NEW A, IsFiniteSet(A), NEW S, NEW U, A \subseteq S, A \subseteq U,
         NEW g, IsSum(g, f, S), NEW h, IsSum(h, f, U)
  PROVE  g[A] = h[A]
<1> DEFINE P == {B \in SUBSET A : g[B] = h[B]}
<1>1. ASSUME NEW B \in SUBSET A, (SUBSET B) \ {B} \subseteq P PROVE B \in P
  <2>1. g[B] = IF B = {} THEN 0 ELSE f[Pick(B)] + g[B \ {Pick(B)}]
    BY DEF IsSum
  <2>2. h[B] = IF B = {} THEN 0 ELSE f[Pick(B)] + h[B \ {Pick(B)}]
    BY DEF IsSum
  <2>3. B # {} => B \ {Pick(B)} \in P
    <3>1. B # {} => Pick(B) \in B
      BY DEF Pick
    <3> HIDE DEF P
    <3> QED
      BY <1>1, <3>1
  <2> QED
    BY <2>1, <2>2, <2>3
<1> HIDE DEF P
<1>2. A \in P
  BY <1>1, SmallerFirst
<1> QED
  BY <1>2 DEF P

LEMMA SumsAgreeHere ==
  ASSUME NEW f, NEW A, IsFiniteSet(A), NEW S, A \subseteq S,
         NEW g, IsSum(g, f, S), NEW h, IsSum(h, f, A)
  PROVE  g[A] = h[A]
<1>1. A \subseteq A
  OBVIOUS
<1>2. \A U : A \subseteq U /\ IsSum(h, f, U) => g[A] = h[A]
  BY SumsAgree
<1> QED
  BY <1>1, <1>2

\* There is one for every finite set.
LEMMA SumExists ==
  ASSUME NEW f, NEW S, IsFiniteSet(S)
  PROVE  \E g : IsSum(g, f, S)
<1> DEFINE P == {A \in SUBSET S : \E g : IsSum(g, f, A)}
<1>1. ASSUME NEW A \in SUBSET S, (SUBSET A) \ {A} \subseteq P PROVE A \in P
  <2> DEFINE G(s) == CHOOSE g : IsSum(g, f, s)
             Less(s) == s \ {Pick(s)}
             h == [s \in SUBSET A |-> IF s = {} THEN 0 ELSE f[Pick(s)] + G(Less(s))[Less(s)]]
  <2>1. ASSUME NEW s \in SUBSET A, s # {}
        PROVE  Less(s) \in SUBSET A /\ IsSum(G(Less(s)), f, Less(s))
    <3>1. Pick(s) \in s
      BY <2>1 DEF Pick
    <3>2. Less(s) \in SUBSET A /\ Less(s) # A
      BY <3>1
    <3> QED
      BY <1>1, <3>2
  <2>2. ASSUME NEW s \in SUBSET A, s # {} PROVE h[Less(s)] = G(Less(s))[Less(s)]
    <3> DEFINE t == Less(s)
    <3>1. t \in SUBSET A /\ IsSum(G(t), f, t)
      BY <2>1, <2>2
    <3>2. G(t)[t] = IF t = {} THEN 0 ELSE f[Pick(t)] + G(t)[Less(t)]
      BY <3>1 DEF IsSum
    <3>3. CASE t = {}
      BY <3>1, <3>2, <3>3
    <3>4. CASE t # {}
      <4>1. Less(t) \in SUBSET A /\ IsSum(G(Less(t)), f, Less(t))
        BY <2>1, <3>1, <3>4
      <4>2. IsFiniteSet(Less(t)) /\ Less(t) \subseteq t
        BY <4>1, FS_Subset
      <4>3. G(t)[Less(t)] = G(Less(t))[Less(t)]
        <5> HIDE DEF t, G, Less
        <5> QED
          BY <3>1, <4>1, <4>2, SumsAgree
      <4> QED
        BY <3>1, <3>2, <3>4, <4>3
    <3> QED
      BY <3>3, <3>4
  <2>3. h = [s \in SUBSET A |-> IF s = {} THEN 0 ELSE f[Pick(s)] + h[Less(s)]]
    <3> HIDE DEF G, Less
    <3> QED
      BY <2>2
  <2>4. IsSum(h, f, A)
    <3> HIDE DEF h
    <3> QED
      BY <2>3 DEF IsSum
  <2> HIDE DEF h
  <2> QED
    BY <2>4
<1> HIDE DEF P
<1>2. S \in P
  BY <1>1, SmallerFirst
<1> QED
  BY <1>2 DEF P

LEMMA SumOfNothing ==
  ASSUME NEW f
  PROVE  SumFunctionOnSet(f, {}) = 0
<1>1. IsSum(CHOOSE g : IsSum(g, f, {}), f, {})
  BY FS_EmptySet, SumExists
<1> QED
  BY <1>1, SumDef DEF IsSum

\* What a sum is by its definition: the picked element and the rest.
LEMMA SumOfPicked ==
  ASSUME NEW f, NEW S, IsFiniteSet(S), S # {}
  PROVE  SumFunctionOnSet(f, S) = f[Pick(S)] + SumFunctionOnSet(f, S \ {Pick(S)})
<1> DEFINE G(s) == CHOOSE g : IsSum(g, f, s)
           U == S \ {Pick(S)}
<1>1. IsFiniteSet(U) /\ U \subseteq S
  BY FS_RemoveElement
<1>2. IsSum(G(S), f, S) /\ IsSum(G(U), f, U)
  BY <1>1, SumExists
<1>3. G(S)[S] = f[Pick(S)] + G(S)[U]
  BY <1>2 DEF IsSum
<1>4. G(S)[U] = G(U)[U]
  <2>1. ASSUME NEW A, A = U, NEW g, IsSum(g, f, S), NEW h, IsSum(h, f, A) PROVE g[A] = h[A]
    BY <1>1, <2>1, SumsAgreeHere
  <2> QED
    BY <1>2, <2>1
<1> QED
  BY <1>3, <1>4, SumDef

LEMMA SumIsInt ==
  ASSUME NEW f, NEW S, IsFiniteSet(S), \A x \in S : f[x] \in Int
  PROVE  SumFunctionOnSet(f, S) \in Int
<1> DEFINE P == {A \in SUBSET S : SumFunctionOnSet(f, A) \in Int}
<1>1. ASSUME NEW A \in SUBSET S, (SUBSET A) \ {A} \subseteq P PROVE A \in P
  <2>1. CASE A = {}
    BY <2>1, SumOfNothing
  <2>2. CASE A # {}
    <3>1. Pick(A) \in A
      BY <2>2 DEF Pick
    <3>2. A \ {Pick(A)} \in P
      <4> HIDE DEF P
      <4> QED
        BY <1>1, <3>1
    <3> QED
      BY <2>2, <3>1, <3>2, SumOfPicked, FS_Subset
  <2> QED
    BY <2>1, <2>2
<1> HIDE DEF P
<1>2. S \in P
  BY <1>1, SmallerFirst
<1> QED
  BY <1>2 DEF P

\* Any element may be taken out first.
\* Any element may be taken out first.
LEMMA SumWithout ==
  ASSUME NEW f, NEW S, IsFiniteSet(S), \A x \in S : f[x] \in Int, NEW e \in S
  PROVE  SumFunctionOnSet(f, S) = f[e] + SumFunctionOnSet(f, S \ {e})
<1> DEFINE Sum(A) == SumFunctionOnSet(f, A)
           P == {A \in SUBSET S : \A x \in A : Sum(A) = f[x] + Sum(A \ {x})}
<1>0. ASSUME NEW A \in SUBSET S PROVE IsFiniteSet(A) /\ Sum(A) \in Int
  BY FS_Subset, SumIsInt
<1>1. ASSUME NEW A \in SUBSET S, (SUBSET A) \ {A} \subseteq P PROVE A \in P
  <2> SUFFICES ASSUME NEW x \in A PROVE Sum(A) = f[x] + Sum(A \ {x})
    OBVIOUS
  <2> DEFINE c == Pick(A)
  <2>1. c \in A /\ Sum(A) = f[c] + Sum(A \ {c})
    BY <1>0, SumOfPicked DEF Pick
  <2>2. CASE x = c
    BY <2>1, <2>2
  <2>3. CASE x # c
    <3>1. A \ {c} \in P /\ A \ {x} \in P
      <4> HIDE DEF P, c
      <4> QED
        BY <1>1, <2>1
    <3>2. Sum(A \ {c}) = f[x] + Sum(A \ {c, x})
      <4>1. x \in A \ {c} /\ (A \ {c}) \ {x} = A \ {c, x}
        BY <2>3
      <4> QED
        BY <3>1, <4>1
    <3>3. Sum(A \ {x}) = f[c] + Sum(A \ {c, x})
      <4>1. c \in A \ {x} /\ (A \ {x}) \ {c} = A \ {c, x}
        BY <2>1, <2>3
      <4> QED
        BY <3>1, <4>1
    <3>4. f[x] \in Int /\ f[c] \in Int /\ Sum(A \ {c, x}) \in Int
      BY <1>0, <2>1
    <3> HIDE DEF c, Sum
    <3> QED
      BY <2>1, <3>2, <3>3, <3>4
  <2> QED
    BY <2>2, <2>3
<1> HIDE DEF P
<1>2. S \in P
  BY <1>1, SmallerFirst
<1> QED
  BY <1>2 DEF P

LEMMA SumIsNat ==
  ASSUME NEW f, NEW S, IsFiniteSet(S), \A x \in S : f[x] \in Nat
  PROVE  SumFunctionOnSet(f, S) \in Nat
<1> DEFINE P == {A \in SUBSET S : SumFunctionOnSet(f, A) \in Nat}
<1>1. {} \in P
  BY SumOfNothing
<1>2. ASSUME NEW A \in SUBSET S, NEW x \in S \ A, A \in P PROVE A \cup {x} \in P
  <2>1. IsFiniteSet(A \cup {x}) /\ (A \cup {x}) \ {x} = A
    BY FS_Subset
  <2>2. SumFunctionOnSet(f, A \cup {x}) = f[x] + SumFunctionOnSet(f, A)
    BY <2>1, SumWithout
  <2> QED
    BY <1>2, <2>2
<1> HIDE DEF P
<1>3. S \in P
  BY <1>1, <1>2, OneByOne
<1> QED
  BY <1>3 DEF P

LEMMA SumOfDisjoint ==
  ASSUME NEW f, NEW S, IsFiniteSet(S), NEW U, IsFiniteSet(U), S \cap U = {},
         \A x \in S \cup U : f[x] \in Int
  PROVE  SumFunctionOnSet(f, S \cup U) = SumFunctionOnSet(f, S) + SumFunctionOnSet(f, U)
<1> DEFINE Sum(A) == SumFunctionOnSet(f, A)
           P == {A \in SUBSET S : Sum(A \cup U) = Sum(A) + Sum(U)}
<1>1. {} \in P
  BY SumOfNothing, SumIsInt
<1>2. ASSUME NEW A \in SUBSET S, NEW x \in S \ A, A \in P PROVE A \cup {x} \in P
  <2>1. IsFiniteSet(A) /\ IsFiniteSet(A \cup {x}) /\ IsFiniteSet(A \cup {x} \cup U)
    BY FS_Subset, FS_Union
  <2>2. (A \cup {x}) \ {x} = A /\ (A \cup {x} \cup U) \ {x} = A \cup U
    OBVIOUS
  <2>3. Sum(A \cup {x}) = f[x] + Sum(A)
    BY <2>1, <2>2, SumWithout
  <2>4. Sum(A \cup {x} \cup U) = f[x] + Sum(A \cup U)
    BY <2>1, <2>2, SumWithout
  <2>5. f[x] \in Int /\ Sum(A) \in Int /\ Sum(U) \in Int
    BY <2>1, SumIsInt
  <2> HIDE DEF Sum
  <2> QED
    BY <1>2, <2>3, <2>4, <2>5
<1> HIDE DEF P
<1>3. S \in P
  BY <1>1, <1>2, OneByOne
<1> QED
  BY <1>3 DEF P

\* A sum of ones counts.
LEMMA SumOfOnes ==
  ASSUME NEW f, NEW S, IsFiniteSet(S), NEW U \in SUBSET S,
         \A x \in S : f[x] = IF x \in U THEN 1 ELSE 0
  PROVE  SumFunctionOnSet(f, S) = Cardinality(U)
<1> DEFINE P == {A \in SUBSET S : SumFunctionOnSet(f, A) = Cardinality(A \cap U)}
<1>1. {} \in P
  BY SumOfNothing, FS_EmptySet
<1>2. ASSUME NEW A \in SUBSET S, NEW x \in S \ A, A \in P PROVE A \cup {x} \in P
  <2>1. IsFiniteSet(A \cup {x}) /\ (A \cup {x}) \ {x} = A /\ IsFiniteSet(A \cap U)
    BY FS_Subset
  <2>2. SumFunctionOnSet(f, A \cup {x}) = f[x] + SumFunctionOnSet(f, A)
    BY <2>1, SumWithout
  <2>3. Cardinality(A \cap U) \in Nat
    BY <2>1, FS_CardinalityType
  <2>4. CASE x \in U
    <3>1. (A \cup {x}) \cap U = (A \cap U) \cup {x} /\ x \notin A \cap U
      BY <2>4
    <3>2. Cardinality((A \cup {x}) \cap U) = Cardinality(A \cap U) + 1
      BY <2>1, <3>1, FS_AddElement
    <3> QED
      BY <1>2, <2>2, <2>3, <2>4, <3>2
  <2>5. CASE x \notin U
    <3>1. (A \cup {x}) \cap U = A \cap U /\ f[x] = 0
      BY <2>5
    <3>2. SumFunctionOnSet(f, A) = Cardinality(A \cap U)
      BY <1>2
    <3>3. SumFunctionOnSet(f, A \cup {x}) = Cardinality(A \cap U)
      BY <2>2, <2>3, <3>1, <3>2
    <3> QED
      BY <3>1, <3>3
  <2> QED
    BY <2>4, <2>5
<1> HIDE DEF P
<1>3. S \in P
  BY <1>1, <1>2, OneByOne
<1>4. S \cap U = U
  OBVIOUS
<1> QED
  BY <1>3, <1>4 DEF P

\* A sum does not depend on how its elements are named.
LEMMA SumRenamed ==
  ASSUME NEW I, IsFiniteSet(I), NEW g, NEW f, NEW h,
         \A i, j \in I : g[i] = g[j] => i = j,
         \A i \in I : f[g[i]] \in Int /\ h[i] = f[g[i]]
  PROVE  SumFunctionOnSet(h, I) = SumFunctionOnSet(f, {g[i] : i \in I})
<1> DEFINE Named(A) == {g[i] : i \in A}
           P == {A \in SUBSET I : /\ IsFiniteSet(Named(A))
                                  /\ SumFunctionOnSet(h, A) = SumFunctionOnSet(f, Named(A))}
<1>1. {} \in P
  <2>1. Named({}) = {}
    OBVIOUS
  <2> QED
    BY <2>1, SumOfNothing, FS_EmptySet
<1>2. ASSUME NEW A \in SUBSET I, NEW x \in I \ A, A \in P PROVE A \cup {x} \in P
  <2>1. IsFiniteSet(A \cup {x}) /\ (A \cup {x}) \ {x} = A
    BY FS_Subset
  <2>2. Named(A \cup {x}) = Named(A) \cup {g[x]} /\ g[x] \notin Named(A)
    OBVIOUS
  <2>3. IsFiniteSet(Named(A \cup {x})) /\ Named(A \cup {x}) \ {g[x]} = Named(A)
    <3>1. IsFiniteSet(Named(A))
      BY <1>2
    <3> HIDE DEF Named
    <3>2. IsFiniteSet(Named(A) \cup {g[x]})
      BY <3>1, FS_AddElement
    <3> QED
      BY <2>2, <3>2
  <2>4. \A y \in Named(A \cup {x}) : f[y] \in Int
    OBVIOUS
  <2>5. g[x] \in Named(A \cup {x})
    OBVIOUS
  <2>6. SumFunctionOnSet(f, Named(A \cup {x})) = f[g[x]] + SumFunctionOnSet(f, Named(A))
    <3> HIDE DEF Named
    <3> SUFFICES ASSUME NEW B, B = Named(A \cup {x})
                 PROVE  SumFunctionOnSet(f, B) = f[g[x]] + SumFunctionOnSet(f, B \ {g[x]})
      BY <2>3
    <3>1. IsFiniteSet(B) /\ g[x] \in B /\ \A y \in B : f[y] \in Int
      BY <2>3, <2>4, <2>5
    <3> QED
      BY <3>1, SumWithout
  <2>7. SumFunctionOnSet(h, A \cup {x}) = h[x] + SumFunctionOnSet(h, A)
    BY <2>1, SumWithout
  <2> HIDE DEF Named
  <2> QED
    BY <1>2, <2>3, <2>6, <2>7
<1> HIDE DEF P
<1>3. I \in P
  BY <1>1, <1>2, OneByOne
<1> QED
  BY <1>3 DEF P

LEMMA SmallestExists ==
  ASSUME NEW S, IsFiniteSet(S), S # {}, NEW f, \A x \in S : f[x] \in Int
  PROVE  \E x \in S : \A y \in S : f[x] <= f[y]
<1> DEFINE P == {A \in SUBSET S : A # {} => \E x \in A : \A y \in A : f[x] <= f[y]}
<1>1. {} \in P
  OBVIOUS
<1>2. ASSUME NEW A \in SUBSET S, NEW e \in S \ A, A \in P PROVE A \cup {e} \in P
  <2>1. CASE A = {}
    BY <2>1
  <2>2. CASE A # {}
    <3>1. PICK x \in A : \A y \in A : f[x] <= f[y]
      BY <1>2, <2>2
    <3>2. CASE f[x] <= f[e]
      BY <3>1, <3>2
    <3>3. CASE f[e] < f[x]
      BY <3>1, <3>3
    <3> QED
      BY <3>2, <3>3
  <2> QED
    BY <2>1, <2>2
<1> HIDE DEF P
<1>3. S \in P
  BY <1>1, <1>2, OneByOne
<1> QED
  BY <1>3 DEF P

\* The operators of the instance of Dashboard are those of the library.
LEMMA CardinalityOfInstance ==
  ASSUME NEW S
  PROVE  D!Cardinality(S) = Cardinality(S)
BY DEF D!Cardinality, Cardinality

LEMMA SumOfInstance ==
  ASSUME NEW f, NEW S
  PROVE  D!SumFunctionOnSet(f, S) = SumFunctionOnSet(f, S)
BY DEF D!SumFunctionOnSet, D!FoldFunctionOnSet, D!MapThenFoldSet,
   SumFunctionOnSet, FoldFunctionOnSet, MapThenFoldSet

\* What a list of categories by amount is.
LEMMA ByAmount ==
  ASSUME NEW bars, NEW S, NEW amount
  PROVE  D!IsByAmount(bars, S, amount) <=>
           /\ bars \in [1 .. Cardinality(S) -> S]
           /\ \A i, j \in 1 .. Cardinality(S) : bars[i] = bars[j] => i = j
           /\ \A i, j \in 1 .. Cardinality(S) : i < j => amount[bars[i]] >= amount[bars[j]]
BY CardinalityOfInstance DEF D!IsByAmount, D!IsInjective

\* Every finite set can be listed by amount, ...
LEMMA ListExists ==
  ASSUME NEW S, IsFiniteSet(S), NEW amount, \A x \in S : amount[x] \in Int
  PROVE  \E bars : D!IsByAmount(bars, S, amount)
<1> DEFINE P == {A \in SUBSET S : \E bars : D!IsByAmount(bars, A, amount)}
<1>1. ASSUME NEW A \in SUBSET S, (SUBSET A) \ {A} \subseteq P PROVE A \in P
  <2>1. CASE A = {}
    <3> DEFINE bars == [i \in 1 .. 0 |-> i]
    <3>1. Cardinality(A) = 0
      BY <2>1, FS_EmptySet
    <3>2. 1 .. 0 = {}
      OBVIOUS
    <3>3. bars \in [1 .. Cardinality(A) -> A]
      BY <2>1, <3>1, <3>2
    <3> HIDE DEF bars
    <3>4. D!IsByAmount(bars, A, amount)
      BY <3>1, <3>2, <3>3, ByAmount
    <3> QED
      BY <3>4
  <2>2. CASE A # {}
    <3>1. PICK x \in A : \A y \in A : amount[x] <= amount[y]
      <4>1. IsFiniteSet(A)
        BY FS_Subset
      <4> QED
        BY <2>2, <4>1, SmallestExists
    <3> DEFINE B == A \ {x}
               n == Cardinality(B)
    <3>2. PICK b : D!IsByAmount(b, B, amount)
      <4>1. B \in P
        <5> HIDE DEF P
        <5> QED
          BY <1>1
      <4> QED
        BY <4>1
    <3>3. n \in Nat /\ Cardinality(A) = n + 1
      <4>1. IsFiniteSet(A) /\ Cardinality(A) \in Nat /\ IsFiniteSet(B) /\ n \in Nat
        BY FS_Subset, FS_CardinalityType
      <4>2. n = Cardinality(A) - 1
        BY <4>1, FS_RemoveElement
      <4> QED
        BY <4>1, <4>2
    <3>4. b \in [1 .. n -> B] /\ \A i, j \in 1 .. n : b[i] = b[j] => i = j
      BY <3>2, ByAmount
    <3>5. \A i, j \in 1 .. n : i < j => amount[b[i]] >= amount[b[j]]
      BY <3>2, ByAmount
    <3> DEFINE bars == [i \in 1 .. n + 1 |-> IF i = n + 1 THEN x ELSE b[i]]
    <3> HIDE DEF n
    <3>6. bars \in [1 .. n + 1 -> A]
      BY <3>3, <3>4
    <3>7. \A i, j \in 1 .. n + 1 : bars[i] = bars[j] => i = j
      BY <3>3, <3>4
    <3>8. ASSUME NEW i \in 1 .. n + 1, NEW j \in 1 .. n + 1, i < j
          PROVE  amount[bars[i]] >= amount[bars[j]]
      <4>1. i \in 1 .. n /\ bars[i] = b[i]
        BY <3>3, <3>8
      <4>2. CASE j = n + 1
        BY <3>1, <3>4, <4>1, <4>2
      <4>3. CASE j # n + 1
        <5>1. j \in 1 .. n /\ bars[j] = b[j]
          BY <3>3, <4>3
        <5> QED
          BY <3>5, <3>8, <4>1, <5>1
      <4> QED
        BY <4>2, <4>3
    <3>9. D!IsByAmount(bars, A, amount)
      <4> HIDE DEF bars
      <4> QED
        BY <3>3, <3>6, <3>7, <3>8, ByAmount
    <3> QED
      BY <3>9
  <2> QED
    BY <2>1, <2>2
<1> HIDE DEF P
<1>2. S \in P
  BY <1>1, SmallerFirst
<1> QED
  BY <1>2 DEF P

\* ... and a list by amount names every element once.
LEMMA ListIsWhole ==
  ASSUME NEW S, IsFiniteSet(S), NEW amount, NEW bars, D!IsByAmount(bars, S, amount)
  PROVE  /\ Cardinality(S) \in Nat
         /\ \A i, j \in 1 .. Cardinality(S) : bars[i] = bars[j] => i = j
         /\ \A x \in S : \E i \in 1 .. Cardinality(S) : bars[i] = x
<1> DEFINE n == Cardinality(S)
<1>1. n \in Nat /\ IsFiniteSet(1 .. n) /\ Cardinality(1 .. n) = n
  BY FS_CardinalityType, FS_Interval
<1>2. bars \in Injection(1 .. n, S)
  BY ByAmount DEF IsInjective, Injection
<1>3. bars \in Surjection(1 .. n, S)
  BY <1>1, <1>2, FS_Injection
<1>4. \A x \in S : \E i \in 1 .. n : bars[i] = x
  BY <1>3 DEF Surjection
<1> QED
  BY <1>1, <1>4, ByAmount

-----------------------------------------------------------------------------
(***************************************************************************)
(* The figures of Dashboard (D).                                           *)
(***************************************************************************)
OperationRow == D!OperationRows \cup {D!NoOperation}
EntryRow == D!EntryRows \cup {[status |-> "none", final |-> 0]}

\* A summary of the accounting that adds up.
AddsUp(a) ==
  LET amount(c) == a.byCategory[c].amount
  IN /\ \A c \in D!Categories :
          /\ a.byCategory[c].type = D!CategoryType(c)
          /\ amount(c) \in Nat /\ a.byCategory[c].count \in Nat
          /\ a.byCategory[c].count = 0 => amount(c) = 0
     /\ a.income = amount("sale_deposit") + amount("other_income")
     /\ a.expense = amount("payroll")
     /\ a.net = a.income - a.expense

\* The rows the statements read.
TablesInv ==
  /\ view \in {"summary", "analytics", "sales"}
  /\ {"operation", "entry", "active"} \subseteq DOMAIN table
  /\ table.operation \in [Operations -> OperationRow]
  /\ table.entry \in [Users -> EntryRow]
  /\ table.active \subseteq Users

\* What the statements of a summary found: each adds up on its own.
SummaryInv ==
  /\ "accounting" \in DOMAIN got => AddsUp(got["accounting"])
  /\ "deposits" \in DOMAIN got => got["deposits"] \in Nat
  /\ "payroll" \in DOMAIN got => got["payroll"] \in Int

\* What the statements of the analytics found is about the sellers found first.
AnalyticsInv ==
  \A q \in DOMAIN got :
    /\ "sellers" \in DOMAIN got /\ got["sellers"] \subseteq Users
    /\ q = "users" => got[q] = got["sellers"]
    /\ q \in {"bookingsOf", "signedOf"} => got[q] \subseteq got["sellers"]

\* The invariant of the figures.
FiguresInv ==
  /\ TablesInv
  /\ view = "summary" => SummaryInv
  /\ view = "analytics" => AnalyticsInv
  /\ D!FiguresAgree
  /\ D!OnlyDebtIsRefused

LEMMA SumOfZeros ==
  ASSUME NEW f, NEW S, IsFiniteSet(S), \A x \in S : f[x] = 0
  PROVE  SumFunctionOnSet(f, S) = 0
BY SumOfOnes, FS_EmptySet

LEMMA SumOfOne ==
  ASSUME NEW f, NEW a, f[a] \in Int
  PROVE  SumFunctionOnSet(f, {a}) = f[a]
<1>1. IsFiniteSet({a}) /\ {a} \ {a} = {}
  BY FS_Singleton
<1>2. SumFunctionOnSet(f, {a}) = f[a] + SumFunctionOnSet(f, {a} \ {a})
  BY <1>1, SumWithout
<1> QED
  BY <1>1, <1>2, SumOfNothing

LEMMA SumOfTwo ==
  ASSUME NEW f, NEW a, NEW b, a # b, f[a] \in Int, f[b] \in Int
  PROVE  SumFunctionOnSet(f, {a, b}) = f[a] + f[b]
<1>1. IsFiniteSet({a}) /\ IsFiniteSet({b}) /\ {a, b} = {a} \cup {b}
  BY FS_Singleton
<1>2. {a} \cap {b} = {} /\ \A x \in {a} \cup {b} : f[x] \in Int
  OBVIOUS
<1>3. SumFunctionOnSet(f, {a} \cup {b}) = SumFunctionOnSet(f, {a}) + SumFunctionOnSet(f, {b})
  BY <1>1, <1>2, SumOfDisjoint
<1> QED
  BY <1>1, <1>3, SumOfOne

\* What the server sends adds up.
LEMMA AccountingAddsUp == TablesInv => AddsUp(D!AccountingSummary)
<1> SUFFICES ASSUME TablesInv PROVE AddsUp(D!AccountingSummary)
  OBVIOUS
<1> DEFINE amount == [o \in Operations |-> table.operation[o].amount]
           OfType(type) == {o \in Operations : table.operation[o].type = type}
           OfCategory(c) == {o \in Operations : table.operation[o].category = c}
           Sum(S) == SumFunctionOnSet(amount, S)
           a == D!AccountingSummary
<1>1. /\ \A o \in Operations : amount[o] \in Nat
      /\ OfType("income") = OfCategory("sale_deposit") \cup OfCategory("other_income")
      /\ OfType("expense") = OfCategory("payroll")
  <2>1. ASSUME NEW row \in OperationRow
        PROVE  /\ row.amount \in Nat
               /\ row.type = "income" <=> row.category \in {"sale_deposit", "other_income"}
               /\ row.type = "expense" <=> row.category = "payroll"
    <3>1. CASE row = D!NoOperation
      BY <3>1 DEF D!NoOperation
    <3>2. CASE row \in D!OperationRows
      <4>1. /\ row.type \in {"income", "expense"} /\ row.amount \in Nat
            /\ row.category \in {"sale_deposit", "other_income", "payroll"}
        BY <3>2, FiguresAssumption DEF D!OperationRows, D!Categories
      <4>2. row.type = IF row.category = "payroll" THEN "expense" ELSE "income"
        BY <3>2 DEF D!OperationRows, D!OperationAccepted, D!CategoryType
      <4> QED
        BY <4>1, <4>2
    <3> QED
      BY <3>1, <3>2 DEF OperationRow
  <2>2. \A o \in Operations : table.operation[o] \in OperationRow
    BY DEF TablesInv
  <2>3. \A o \in Operations : amount[o] \in Nat
    BY <2>1, <2>2
  <2>4. \A o \in Operations :
          /\ o \in OfType("income") <=> o \in OfCategory("sale_deposit") \cup OfCategory("other_income")
          /\ o \in OfType("expense") <=> o \in OfCategory("payroll")
    BY <2>1, <2>2
  <2>5. \A x : OfType(x) \subseteq Operations /\ OfCategory(x) \subseteq Operations
    OBVIOUS
  <2> HIDE DEF OfType, OfCategory, amount
  <2> QED
    BY <2>3, <2>4, <2>5
<1>2. ASSUME NEW S \in SUBSET Operations PROVE IsFiniteSet(S) /\ Sum(S) \in Nat
  <2>1. IsFiniteSet(S)
    BY FiguresAssumption, FS_Subset
  <2> HIDE DEF amount
  <2> QED
    BY <1>1, <2>1, SumIsNat
<1>3. /\ a.income = Sum(OfType("income")) /\ a.expense = Sum(OfType("expense"))
      /\ a.net = Sum(OfType("income")) - Sum(OfType("expense"))
      /\ \A c \in D!Categories :
           /\ a.byCategory[c].type = D!CategoryType(c)
           /\ a.byCategory[c].count = Cardinality(OfCategory(c))
           /\ a.byCategory[c].amount = Sum(OfCategory(c))
  BY SumOfInstance, CardinalityOfInstance DEF D!AccountingSummary
<1>4. Sum(OfType("income")) = Sum(OfCategory("sale_deposit")) + Sum(OfCategory("other_income"))
  <2>1. OfCategory("sale_deposit") \cap OfCategory("other_income") = {}
    OBVIOUS
  <2>2. \A x \in OfCategory("sale_deposit") \cup OfCategory("other_income") : amount[x] \in Int
    BY <1>1
  <2> HIDE DEF amount, OfCategory, OfType
  <2>3. OfCategory("sale_deposit") \in SUBSET Operations /\ OfCategory("other_income") \in SUBSET Operations
    BY DEF OfCategory
  <2> QED
    BY <1>1, <1>2, <2>1, <2>2, <2>3, SumOfDisjoint
<1>5. ASSUME NEW c \in D!Categories
      PROVE  /\ Cardinality(OfCategory(c)) \in Nat /\ Sum(OfCategory(c)) \in Nat
             /\ Cardinality(OfCategory(c)) = 0 => Sum(OfCategory(c)) = 0
  <2>1. OfCategory(c) \in SUBSET Operations
    OBVIOUS
  <2> HIDE DEF amount, OfCategory
  <2> QED
    BY <1>2, <2>1, FS_CardinalityType, FS_EmptySet, SumOfNothing
<1> HIDE DEF a, Sum, OfType, OfCategory
<1>6. {"sale_deposit", "other_income", "payroll"} = D!Categories
  BY DEF D!Categories
<1> QED
  BY <1>1, <1>3, <1>4, <1>5, <1>6 DEF AddsUp, a

\* What is drawn is what was sent: every category that occurs has one bar.
LEMMA BarsAddUp ==
  ASSUME NEW a, AddsUp(a)
  PROVE  LET bars == D!CategoryBars(a.byCategory)
             Drawn(type) ==
               D!SumFunctionOnSet([i \in DOMAIN bars |-> a.byCategory[bars[i]].amount],
                                {i \in DOMAIN bars : a.byCategory[bars[i]].type = type})
         IN /\ a.income = Drawn("income") /\ a.expense = Drawn("expense")
            /\ \A i, j \in DOMAIN bars :
                 i < j => a.byCategory[bars[i]].amount >= a.byCategory[bars[j]].amount
<1> DEFINE by == a.byCategory
           occurring == {c \in D!Categories : by[c].count > 0}
           amount == [c \in occurring |-> by[c].amount]
           bars == D!CategoryBars(by)
           n == Cardinality(occurring)
           h == [i \in DOMAIN bars |-> by[bars[i]].amount]
           Of(type) == {i \in DOMAIN bars : by[bars[i]].type = type}
           all == [c \in D!Categories |-> by[c].amount]
<1>1. IsFiniteSet(D!Categories) /\ IsFiniteSet(occurring)
  <2>1. D!Categories = {"sale_deposit"} \cup {"other_income"} \cup {"payroll"}
    BY DEF D!Categories
  <2>2. IsFiniteSet(D!Categories)
    BY <2>1, FS_Singleton, FS_Union
  <2> QED
    BY <2>2, FS_Subset
<1>2. \A c \in D!Categories : by[c].amount \in Nat /\ by[c].count \in Nat
                              /\ (by[c].count = 0 => by[c].amount = 0)
                              /\ by[c].type = D!CategoryType(c)
  BY DEF AddsUp
<1>3. D!IsByAmount(bars, occurring, amount)
  <2>1. \E b : D!IsByAmount(b, occurring, amount)
    <3>1. \A c \in occurring : amount[c] \in Int
      BY <1>2
    <3> HIDE DEF occurring, amount
    <3> QED
      BY <1>1, <3>1, ListExists
  <2>2. \E b \in [1 .. n -> occurring] : D!IsByAmount(b, occurring, amount)
    <3> HIDE DEF occurring, amount
    <3> QED
      BY <2>1, ByAmount
  <2>3. bars = CHOOSE b \in [1 .. n -> occurring] : D!IsByAmount(b, occurring, amount)
    BY CardinalityOfInstance DEF D!CategoryBars
  <2> HIDE DEF n, occurring, amount, bars
  <2> QED
    BY <2>2, <2>3
<1>4. /\ n \in Nat /\ DOMAIN bars = 1 .. n /\ \A i \in 1 .. n : bars[i] \in occurring
      /\ \A i, j \in 1 .. n : bars[i] = bars[j] => i = j
      /\ \A c \in occurring : \E i \in 1 .. n : bars[i] = c
      /\ \A i, j \in 1 .. n : i < j => amount[bars[i]] >= amount[bars[j]]
  <2> HIDE DEF occurring, amount, bars
  <2> QED
    BY <1>1, <1>3, ListIsWhole, ByAmount
<1>5. \A i, j \in DOMAIN bars : i < j => by[bars[i]].amount >= by[bars[j]].amount
  <2> HIDE DEF bars, n
  <2> QED
    BY <1>4
<1>6. ASSUME NEW type
      PROVE  SumFunctionOnSet(h, Of(type))
             = SumFunctionOnSet(all, {c \in D!Categories : D!CategoryType(c) = type})
  <2> DEFINE Drawn == {c \in occurring : D!CategoryType(c) = type}
             Hidden == {c \in D!Categories \ occurring : D!CategoryType(c) = type}
  <2>1. {bars[i] : i \in Of(type)} = Drawn
    <3> HIDE DEF bars, n
    <3> QED
      BY <1>2, <1>4
  <2>2. SumFunctionOnSet(h, Of(type)) = SumFunctionOnSet(all, Drawn)
    <3>1. IsFiniteSet(Of(type))
      <4> HIDE DEF bars, n
      <4> QED
        BY <1>4, FS_Interval, FS_Subset
    <3>2. \A i, j \in Of(type) : bars[i] = bars[j] => i = j
      <4> HIDE DEF bars, n
      <4> QED
        BY <1>4
    <3>3. \A i \in Of(type) : all[bars[i]] \in Int /\ h[i] = all[bars[i]]
      <4> HIDE DEF bars, n
      <4> QED
        BY <1>2, <1>4
    <3>4. SumFunctionOnSet(h, Of(type)) = SumFunctionOnSet(all, {bars[i] : i \in Of(type)})
      <4> HIDE DEF bars, Of, h, all
      <4> QED
        BY <3>1, <3>2, <3>3, SumRenamed
    <3> QED
      BY <2>1, <3>4
  <2>3. IsFiniteSet(Drawn) /\ IsFiniteSet(Hidden)
    BY <1>1, FS_Subset
  <2>4. SumFunctionOnSet(all, Hidden) = 0
    <3>1. \A c \in Hidden : all[c] = 0
      BY <1>2
    <3> HIDE DEF Hidden, all
    <3> QED
      BY <2>3, <3>1, SumOfZeros
  <2>5. SumFunctionOnSet(all, Drawn \cup Hidden) = SumFunctionOnSet(all, Drawn) + SumFunctionOnSet(all, Hidden)
    <3>1. Drawn \cap Hidden = {} /\ \A c \in Drawn \cup Hidden : all[c] \in Int
      BY <1>2
    <3> HIDE DEF Drawn, Hidden, all
    <3> QED
      BY <2>3, <3>1, SumOfDisjoint
  <2>6. SumFunctionOnSet(all, Drawn) \in Int
    <3>1. \A c \in Drawn : all[c] \in Int
      BY <1>2
    <3> HIDE DEF Drawn, all
    <3> QED
      BY <2>3, <3>1, SumIsInt
  <2>7. Drawn \cup Hidden = {c \in D!Categories : D!CategoryType(c) = type}
    OBVIOUS
  <2>8. SumFunctionOnSet(all, Drawn \cup Hidden) = SumFunctionOnSet(h, Of(type))
    <3> HIDE DEF Drawn, Hidden, all, h, Of
    <3> QED
      BY <2>2, <2>4, <2>5, <2>6
  <2> QED
    BY <2>7, <2>8, Zenon
<1>7. /\ {c \in D!Categories : D!CategoryType(c) = "income"} = {"sale_deposit", "other_income"}
      /\ {c \in D!Categories : D!CategoryType(c) = "expense"} = {"payroll"}
  BY DEF D!Categories, D!CategoryType
<1>8. /\ all["sale_deposit"] = by["sale_deposit"].amount /\ all["sale_deposit"] \in Int
      /\ all["other_income"] = by["other_income"].amount /\ all["other_income"] \in Int
      /\ all["payroll"] = by["payroll"].amount /\ all["payroll"] \in Int
  BY <1>2 DEF D!Categories
<1>9. /\ a.income = SumFunctionOnSet(h, Of("income"))
      /\ a.expense = SumFunctionOnSet(h, Of("expense"))
  <2>1. a.income = all["sale_deposit"] + all["other_income"] /\ a.expense = all["payroll"]
    BY <1>8 DEF AddsUp
  <2> HIDE DEF all, h, Of
  <2>2. /\ SumFunctionOnSet(h, Of("income")) = SumFunctionOnSet(all, {"sale_deposit", "other_income"})
        /\ SumFunctionOnSet(h, Of("expense")) = SumFunctionOnSet(all, {"payroll"})
    <3>1. SumFunctionOnSet(h, Of("income"))
          = SumFunctionOnSet(all, {c \in D!Categories : D!CategoryType(c) = "income"})
      BY <1>6
    <3>2. SumFunctionOnSet(h, Of("expense"))
          = SumFunctionOnSet(all, {c \in D!Categories : D!CategoryType(c) = "expense"})
      BY <1>6
    <3> QED
      BY <1>7, <3>1, <3>2, Zenon
  <2>3. SumFunctionOnSet(all, {"payroll"}) = all["payroll"]
    BY <1>8, SumOfOne
  <2>4. SumFunctionOnSet(all, {"sale_deposit", "other_income"}) = all["sale_deposit"] + all["other_income"]
    BY <1>8, SumOfTwo
  <2> QED
    BY <2>1, <2>2, <2>3, <2>4
<1> QED
  BY <1>5, <1>9, SumOfInstance

\* The short form of an amount is cut off.
LEMMA ShortFormIsCut ==
  ASSUME NEW amount \in Int
  PROVE  LET short == D!FormatCompactSom(amount)
         IN short # D!NoShortForm =>
              amount * short.sign * 10 \in short.tenths * short.unit .. (short.tenths + 1) * short.unit - 1
<1> DEFINE size == IF amount < 0 THEN -amount ELSE amount
           units == {u \in {Thousand, Thousand * Thousand, Thousand * Thousand * Thousand} : u <= size}
           unit == D!Max(units)
           sign == IF amount < 0 THEN -1 ELSE 1
           short == D!FormatCompactSom(amount)
<1> SUFFICES ASSUME units # {}
             PROVE  amount * short.sign * 10
                      \in short.tenths * short.unit .. (short.tenths + 1) * short.unit - 1
  BY DEF D!FormatCompactSom
<1>1. \A u \in units : u \in Nat \ {0}
  <2>1. Thousand \in Nat \ {0} /\ Thousand * Thousand \in Nat \ {0}
    BY FiguresAssumption, Z3
  <2>2. Thousand * Thousand * Thousand \in Nat \ {0}
    BY <2>1, Z3
  <2> QED
    BY <2>1, <2>2
<1>2. unit \in units
  <2>1. IsFiniteSet(units)
    <3>1. IsFiniteSet({Thousand} \cup {Thousand * Thousand} \cup {Thousand * Thousand * Thousand})
      BY FS_Singleton, FS_Union
    <3>2. units \in SUBSET ({Thousand} \cup {Thousand * Thousand} \cup {Thousand * Thousand * Thousand})
      OBVIOUS
    <3> HIDE DEF units
    <3> QED
      BY <3>1, <3>2, FS_Subset
  <2> DEFINE minus == [u \in units |-> -u]
  <2>2. \A u \in units : minus[u] \in Int
    BY <1>1
  <2>3. \E u \in units : \A v \in units : minus[u] <= minus[v]
    <3> HIDE DEF units, minus
    <3> QED
      BY <2>1, <2>2, SmallestExists
  <2>4. \E u \in units : \A v \in units : u >= v
    <3> HIDE DEF units
    <3> QED
      BY <1>1, <2>3
  <2> HIDE DEF units
  <2> QED
    BY <2>4 DEF D!Max
<1>3. short = [sign |-> sign, tenths |-> (size * 10) \div unit, unit |-> unit]
  BY DEF D!FormatCompactSom
<1>4. amount * sign = size /\ size \in Nat
  OBVIOUS
<1>5. unit \in Nat \ {0}
  BY <1>1, <1>2
<1> DEFINE tenths == (size * 10) \div unit
<1> HIDE DEF unit, size, sign
<1>6. tenths \in Int /\ tenths * unit <= size * 10 /\ size * 10 < (tenths + 1) * unit
  BY <1>4, <1>5, Z3
<1>7. amount * sign * 10 = size * 10
  BY <1>4
<1> HIDE DEF tenths
<1> QED
  BY <1>3, <1>4, <1>5, <1>6, <1>7 DEF tenths

\* What is on the screen is as it was as long as nothing of it changes.
LEMMA FiguresKept ==
  ASSUME D!FiguresAgree, D!OnlyDebtIsRefused, UNCHANGED <<view, got, screen, response>>
  PROVE  D!FiguresAgree' /\ D!OnlyDebtIsRefused'
BY DEF D!FiguresAgree, D!OnlyDebtIsRefused

\* A write to the tables changes nothing that has been read or drawn.
LEMMA FiguresWriteStep ==
  ASSUME FiguresInv, NEW tables, D!Write(tables), {"operation", "entry", "active"} \subseteq DOMAIN tables,
         tables.operation \in [Operations -> OperationRow], tables.entry \in [Users -> EntryRow],
         tables.active \subseteq Users
  PROVE  FiguresInv'
<1>1. UNCHANGED <<view, got, screen, response>> /\ TablesInv'
  BY DEF D!Write, TablesInv, FiguresInv
<1>2. (view = "summary" => SummaryInv)' /\ (view = "analytics" => AnalyticsInv)'
  BY <1>1 DEF FiguresInv, SummaryInv, AnalyticsInv
<1> QED
  BY <1>1, <1>2, FiguresKept DEF FiguresInv

LEMMA FiguresRowsStep ==
  ASSUME FiguresInv, NEW s \in Users, D!Sell(s) \/ D!Pay(s) \/ D!Attend(s) \/ D!Disable(s)
  PROVE  FiguresInv'
<1> DEFINE Sound(tables) ==
             /\ {"operation", "entry", "active"} \subseteq DOMAIN tables
             /\ tables.operation \in [Operations -> OperationRow] /\ tables.entry \in [Users -> EntryRow]
             /\ tables.active \subseteq Users
<1>1. Sound(table)
  BY DEF FiguresInv, TablesInv
<1>2. ASSUME NEW tables, D!Write(tables), Sound(tables) PROVE FiguresInv'
  BY <1>2, FiguresWriteStep
<1>3. ASSUME NEW x PROVE Sound([table EXCEPT !.booking[s] = x])
  BY <1>1
<1>4. ASSUME NEW x PROVE Sound([table EXCEPT !.contract[s] = x])
  BY <1>1
<1>5. ASSUME NEW x PROVE Sound([table EXCEPT !.shift[s] = x])
  BY <1>1
<1>6. ASSUME NEW x PROVE Sound([table EXCEPT !.dayOff = x])
  BY <1>1
<1>7. ASSUME NEW x \in D!EntryRows PROVE Sound([table EXCEPT !.entry[s] = x])
  BY <1>1, <1>7 DEF EntryRow
<1>8. Sound([table EXCEPT !.active = table.active \ {s}])
  BY <1>1
<1> HIDE DEF Sound
<1>9. D!Sell(s) => FiguresInv'
  BY <1>2, <1>3, <1>4 DEF D!Sell
<1>10. D!Pay(s) => FiguresInv'
  BY <1>2, <1>7 DEF D!Pay
<1>11. D!Attend(s) => FiguresInv'
  BY <1>2, <1>5, <1>6 DEF D!Attend
<1>12. D!Disable(s) => FiguresInv'
  BY <1>2, <1>8 DEF D!Disable
<1> QED
  BY <1>9, <1>10, <1>11, <1>12

LEMMA FiguresAccountStep ==
  ASSUME FiguresInv, NEW o \in Operations, D!Account(o)
  PROVE  FiguresInv'
<1>1. PICK row \in OperationRow : D!Write([table EXCEPT !.operation[o] = row])
  BY DEF D!Account, OperationRow
<1> DEFINE tables == [table EXCEPT !.operation[o] = row]
<1>2. /\ {"operation", "entry", "active"} \subseteq DOMAIN tables
      /\ tables.operation \in [Operations -> OperationRow] /\ tables.entry \in [Users -> EntryRow]
      /\ tables.active \subseteq Users
  BY DEF FiguresInv, TablesInv
<1>3. D!Write(tables)
  BY <1>1
<1> HIDE DEF tables
<1> QED
  BY <1>2, <1>3, FiguresWriteStep

LEMMA FiguresFindStep ==
  ASSUME FiguresInv, NEW q \in D!Statements, D!Find(q)
  PROVE  FiguresInv'
<1>1. /\ screen = "pending" /\ q \notin DOMAIN got /\ D!After(q) \subseteq DOMAIN got
      /\ got' = [p \in DOMAIN got \cup {q} |-> IF p = q THEN D!Found(q) ELSE got[p]]
      /\ UNCHANGED <<view, table, screen, response>>
  BY DEF D!Find
<1>2. TablesInv' /\ D!FiguresAgree' /\ D!OnlyDebtIsRefused'
  BY <1>1 DEF FiguresInv, TablesInv, D!FiguresAgree, D!OnlyDebtIsRefused
<1>3. ASSUME view = "summary" PROVE SummaryInv'
  <2>1. q = "accounting" => AddsUp(D!Found(q))
    BY AccountingAddsUp DEF D!Found, FiguresInv
  <2>2. q = "deposits" => D!Found(q) \in Nat
    <3> DEFINE paid == {s \in Users : table.contract[s] \in {"deposit_paid", "signed"}}
    <3>1. IsFiniteSet(paid)
      BY FiguresAssumption, FS_Subset
    <3>2. Cardinality(paid) \in Nat
      <4> HIDE DEF paid
      <4> QED
        BY <3>1, FS_CardinalityType
    <3> QED
      BY <3>2, CardinalityOfInstance DEF D!Found
  <2>3. q = "payroll" => D!Found(q) \in Int
    <3> DEFINE final == [s \in Users |-> table.entry[s].final]
               paid == {s \in Users : table.entry[s].status = "confirmed"}
    <3>1. \A s \in Users : final[s] \in Int
      BY FiguresAssumption DEF FiguresInv, TablesInv, EntryRow, D!EntryRows, D!FinalAmount
    <3>2. IsFiniteSet(paid) /\ \A s \in paid : final[s] \in Int
      BY <3>1, FiguresAssumption, FS_Subset
    <3>3. SumFunctionOnSet(final, paid) \in Int
      <4> HIDE DEF final, paid
      <4> QED
        BY <3>2, SumIsInt
    <3> QED
      BY <3>3, SumOfInstance DEF D!Found
  <2> QED
    BY <1>1, <1>3, <2>1, <2>2, <2>3 DEF FiguresInv, SummaryInv
<1>4. ASSUME view = "analytics" PROVE AnalyticsInv'
  <2>1. q # "sellers" => "sellers" \in DOMAIN got /\ got["sellers"] \subseteq Users
    BY <1>1, <1>4 DEF D!After, FiguresInv, AnalyticsInv
  <2>2. q = "sellers" => D!Found(q) \subseteq Users
    BY DEF D!Found, FiguresInv, TablesInv
  <2>3. q = "users" => D!Found(q) = got["sellers"]
    BY <1>4 DEF D!Found, D!FindUsers, D!Members
  <2>4. q \in {"bookingsOf", "signedOf"} => D!Found(q) \subseteq got["sellers"]
    BY <1>4 DEF D!Found, D!Members
  <2>5. q = "sellers" => DOMAIN got = {}
    BY <1>1, <1>4 DEF FiguresInv, AnalyticsInv
  <2> QED
    BY <1>1, <1>4, <2>1, <2>2, <2>3, <2>4, <2>5 DEF FiguresInv, AnalyticsInv
<1> QED
  BY <1>1, <1>2, <1>3, <1>4 DEF FiguresInv

LEMMA ShowSummaryStep ==
  ASSUME FiguresInv, D!Show, view = "summary"
  PROVE  D!FiguresAgree' /\ D!OnlyDebtIsRefused'
<1>1. /\ DOMAIN got = D!Statements /\ UNCHANGED <<view, table, got>>
      /\ IF D!Accepts(D!Answer) THEN screen' = "page" /\ response' = D!Answer
                                ELSE screen' = "refused" /\ UNCHANGED response
  BY DEF D!Show
<1>2. {"accounting", "deposits", "payroll"} \subseteq DOMAIN got
  BY <1>1 DEF D!Statements
<1>3. /\ AddsUp(got["accounting"]) /\ got["deposits"] \in Nat /\ got["payroll"] \in Int
  BY <1>2 DEF FiguresInv, SummaryInv
<1>4. D!Answer = D!Summary /\ D!Answer.accounting = got["accounting"]
      /\ D!Answer.deposits = got["deposits"] /\ D!Answer.payroll = got["payroll"]
  BY DEF D!Answer, D!Summary
<1> DEFINE a == got["accounting"]
<1>5. CASE D!Accepts(D!Answer)
  <2>1. screen' = "page" /\ response'.accounting = a /\ view' = "summary"
    BY <1>1, <1>4, <1>5
  <2>2. D!OnlyDebtIsRefused'
    BY <2>1 DEF D!OnlyDebtIsRefused
  <2>3. a.net \in Int /\ a.net = a.income - a.expense
    BY <1>3 DEF AddsUp, D!Categories
  <2>4. ASSUME NEW r, r.accounting = a
        PROVE  LET donut == D!Donut(r)
                   byCategory == r.accounting.byCategory
                   bars == D!CategoryBars(byCategory)
                   Drawn(type) ==
                     D!SumFunctionOnSet([i \in DOMAIN bars |-> byCategory[bars[i]].amount],
                                        {i \in DOMAIN bars : byCategory[bars[i]].type = type})
                   short == donut.compact
               IN /\ donut.income = Drawn("income") /\ donut.expense = Drawn("expense")
                  /\ donut.net = Drawn("income") - Drawn("expense")
                  /\ \A i, j \in DOMAIN bars :
                       i < j => byCategory[bars[i]].amount >= byCategory[bars[j]].amount
                  /\ short # D!NoShortForm =>
                       LET exact == donut.net * short.sign * 10
                       IN exact \in short.tenths * short.unit .. (short.tenths + 1) * short.unit - 1
    <3>1. AddsUp(r.accounting) /\ r.accounting.net \in Int
          /\ r.accounting.net = r.accounting.income - r.accounting.expense
      BY <1>3, <2>3, <2>4
    <3>2. /\ D!Donut(r).income = r.accounting.income /\ D!Donut(r).expense = r.accounting.expense
          /\ D!Donut(r).net = r.accounting.net
          /\ D!Donut(r).compact = D!FormatCompactSom(r.accounting.net)
      BY DEF D!Donut
    <3> QED
      BY <3>1, <3>2, BarsAddUp, ShortFormIsCut
  <2>6. D!FiguresAgree'
    <3> HIDE DEF a
    <3> QED
      BY <2>1, <2>4 DEF D!FiguresAgree
  <2> QED
    BY <2>2, <2>6
<1>6. CASE ~D!Accepts(D!Answer)
  <2>1. screen' = "refused"
    BY <1>1, <1>6
  <2>2. /\ a.income >= 0 /\ a.expense >= 0 /\ got["deposits"] >= 0
        /\ \A c \in D!Categories : a.byCategory[c].amount >= 0
    BY <1>3 DEF AddsUp, D!Categories
  <2>3. got["payroll"] < 0
    BY <1>3, <1>4, <1>6, <2>2 DEF D!Accepts, D!AcceptsSummary, D!AcceptsAccounting, D!Money
  <2> QED
    BY <1>1, <2>1, <2>3 DEF D!FiguresAgree, D!OnlyDebtIsRefused
<1> QED
  BY <1>5, <1>6

LEMMA ShowAnalyticsStep ==
  ASSUME FiguresInv, D!Show, view = "analytics"
  PROVE  D!FiguresAgree' /\ D!OnlyDebtIsRefused'
<1>1. /\ DOMAIN got = D!Statements /\ UNCHANGED <<view, table, got>>
      /\ D!Accepts(D!Answer) /\ screen' = "page" /\ response' = D!Answer
  BY DEF D!Show, D!Accepts
<1>2. {"sellers", "users", "bookingsOf", "signedOf"} \subseteq DOMAIN got
  BY <1>1 DEF D!Statements
<1>3. /\ got["users"] \subseteq Users /\ got["bookingsOf"] \in SUBSET got["users"]
      /\ got["signedOf"] \in SUBSET got["users"]
  BY <1>2 DEF FiguresInv, AnalyticsInv
<1>4. IsFiniteSet(got["users"])
  BY <1>3, FiguresAssumption, FS_Subset
<1> DEFINE rows == D!Answer.perManager
           booked == [s \in DOMAIN rows |-> rows[s].bookings]
           sold == [s \in DOMAIN rows |-> rows[s].signed]
<1>5. D!Answer = D!SalesAnalytics
  BY DEF D!Answer
<1>6. /\ DOMAIN booked = got["users"] /\ DOMAIN sold = got["users"]
      /\ \A s \in got["users"] : /\ booked[s] = IF s \in got["bookingsOf"] THEN 1 ELSE 0
                                 /\ sold[s] = IF s \in got["signedOf"] THEN 1 ELSE 0
      /\ D!Answer.totals.booked = Cardinality(got["bookingsOf"])
      /\ D!Answer.totals.sold = Cardinality(got["signedOf"])
  BY <1>5, CardinalityOfInstance DEF D!SalesAnalytics
<1>7. D!Answer.totals.booked = D!SumFunction(booked) /\ D!Answer.totals.sold = D!SumFunction(sold)
  <2> HIDE DEF booked, sold
  <2>1. SumFunctionOnSet(booked, got["users"]) = Cardinality(got["bookingsOf"])
    BY <1>3, <1>4, <1>6, SumOfOnes
  <2>2. SumFunctionOnSet(sold, got["users"]) = Cardinality(got["signedOf"])
    BY <1>3, <1>4, <1>6, SumOfOnes
  <2> QED
    BY <1>6, <2>1, <2>2, SumOfInstance DEF D!SumFunction
<1>8. D!FiguresAgree'
  BY <1>1, <1>7 DEF D!FiguresAgree
<1> QED
  BY <1>1, <1>8 DEF D!OnlyDebtIsRefused

LEMMA FiguresShowStep ==
  ASSUME FiguresInv, D!Show
  PROVE  FiguresInv'
<1>1. UNCHANGED <<view, table, got>>
  BY DEF D!Show
<1>2. TablesInv' /\ (view = "summary" => SummaryInv)' /\ (view = "analytics" => AnalyticsInv)'
  BY <1>1 DEF FiguresInv, TablesInv, SummaryInv, AnalyticsInv
<1>3. CASE view \notin {"summary", "analytics"}
  <2>1. view' = "sales" /\ screen' = "page"
    BY <1>1, <1>3 DEF FiguresInv, TablesInv, D!Show, D!Accepts
  <2>2. D!FiguresAgree' /\ D!OnlyDebtIsRefused'
    BY <2>1 DEF D!FiguresAgree, D!OnlyDebtIsRefused
  <2> QED
    BY <1>2, <2>2 DEF FiguresInv
<1> QED
  BY <1>2, <1>3, ShowSummaryStep, ShowAnalyticsStep DEF FiguresInv

LEMMA FiguresInit == D!Init => FiguresInv
BY DEF D!Init, D!Nothing, D!NoOperation, FiguresInv, TablesInv, SummaryInv, AnalyticsInv,
   OperationRow, EntryRow, D!FiguresAgree, D!OnlyDebtIsRefused

LEMMA FiguresStep == FiguresInv /\ [D!Next]_figureVars => FiguresInv'
<1> SUFFICES ASSUME FiguresInv, [D!Next]_figureVars PROVE FiguresInv'
  OBVIOUS
<1>1. CASE UNCHANGED figureVars
  <2>1. UNCHANGED <<view, table, got, screen, response>>
    BY <1>1 DEF figureVars
  <2>2. TablesInv' /\ (view = "summary" => SummaryInv)' /\ (view = "analytics" => AnalyticsInv)'
    BY <2>1 DEF FiguresInv, TablesInv, SummaryInv, AnalyticsInv
  <2> QED
    BY <2>1, <2>2, FiguresKept DEF FiguresInv
<1>2. CASE D!Fail \/ D!Refetch
  BY <1>2 DEF D!Fail, D!Refetch, D!Nothing, FiguresInv, TablesInv, SummaryInv, AnalyticsInv,
     D!FiguresAgree, D!OnlyDebtIsRefused
<1> QED
  BY <1>1, <1>2, FiguresRowsStep, FiguresAccountStep, FiguresShowStep, FiguresFindStep DEF D!Next

\* What is drawn together agrees, whatever is written between the statements of
\* a request, for any number of people and rows and any amounts, and nothing but
\* negative pay makes the parser refuse a summary (DashboardService.summary,
\* salesAnalytics, dashboardCharts.ts, readDashboard).
THEOREM FiguresAreTrue == PartsSpec => []FiguresAreSound
<1>1. PartsInit => FiguresInv
  BY FiguresInit DEF PartsInit
<1>2. [PartsNext]_<<part, vars, cacheVars, toastVars, reportVars, figureVars>>
        => [D!Next]_figureVars
  BY DEF PartsNext
<1>3. FiguresInv => FiguresAreSound
  BY DEF FiguresInv, FiguresAreSound
<1> QED
  BY <1>1, <1>2, <1>3, FiguresStep, PTL DEF PartsSpec
=============================================================================
