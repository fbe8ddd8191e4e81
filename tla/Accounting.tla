----------------------------- MODULE Accounting -----------------------------
(***************************************************************************)
(* AccountingService: transactions, their attachments, and the closing of  *)
(* a month.  A handler checks that the month is open and that the          *)
(* transaction is the accountant's own, and later writes by id; an         *)
(* attachment is stored and removed in steps of its own (FileStorage).     *)
(*                                                                         *)
(* A closed month stays closed, so the checks of a handler, several        *)
(* statements in the code, are one action with its read: what passes later *)
(* would have passed then.  Dates are months, amounts and comments values. *)
(***************************************************************************)
EXTENDS Naturals, FileStorage

CONSTANTS
  Accountants,   \* users with UserRole.accountant
  Transactions,  \* identifiers of transactions, all unborn at first
  Values,        \* what a transaction says besides its date
  Requests,      \* slots of handlers in flight; their number is a bound
  LastMonth,     \* bound: the clock stops in this month
  None

ASSUME AccountingAssumption ==
  /\ LastMonth \in Nat \ {0}
  /\ None \notin Accountants \cup Values \cup Files

VARIABLES
  month,   \* periodOf(today)
  closed,  \* table AccountingPeriod
  tx,      \* table Transaction
  req,     \* what each handler in flight goes on to do
  settled  \* history: the months at whose closing, or later, no handler was in
           \* flight for a moment

vars == <<month, closed, tx, req, settled, file>>

Months == 1 .. LastMonth

Row ==
       [state: {"unborn", "deleted"}]
  \cup [state: {"present"}, owner: Accountants, month: Months, value: Values,
        file: Files \cup {None}]

Idle == [op |-> "idle"]

Request ==
       {Idle}
  \cup [op: {"create"}, actor: Accountants, month: Months, value: Values]
  \cup [op: {"update"}, id: Transactions, month: Months \cup {None},
        value: Values \cup {None}]
  \cup [op: {"remove", "attach"}, id: Transactions, old: Files \cup {None}]
  \cup [op: {"store", "install"}, id: Transactions, old: Files \cup {None}, new: Files]
  \cup [op: {"removeFile", "removeBytes"}, target: Files]

\* Types, and the dates: no transaction is dated in a month that has not begun,
\* and only months that are over are closed (assertNotFuture, closePeriod).
TypeOK ==
  /\ month \in Months
  /\ closed \subseteq Months
  /\ tx \in [Transactions -> Row]
  /\ req \in [Requests -> Request]
  /\ settled \subseteq closed
  /\ file \in [Files -> FileState]
  /\ \A t \in Transactions : tx[t].state = "present" => tx[t].month <= month
  /\ \A m \in closed : m < month

Init ==
  /\ month = 1
  /\ closed = {}
  /\ tx = [t \in Transactions |-> [state |-> "unborn"]]
  /\ req = [r \in Requests |-> Idle]
  /\ settled = {}
  /\ FileInit

Present(t) == tx[t].state = "present"

GoOn(r, request) == req' = [req EXCEPT ![r] = request]
End(r) == GoOn(r, Idle)

\* A handler has done its reads and its checks.
Begin(r, request) ==
  /\ req[r] = Idle
  /\ GoOn(r, request)
  /\ UNCHANGED <<month, closed, tx, file>>

\* FileStorageService.remove, as the last thing a handler does.
RemoveThenEnd(r, f) ==
  IF f = None THEN End(r) ELSE GoOn(r, [op |-> "removeFile", target |-> f])

\* The process dies, or a later check of the handler refuses the request.
Abandon(r) ==
  /\ req[r] # Idle
  /\ End(r)
  /\ UNCHANGED <<month, closed, tx, file>>

-----------------------------------------------------------------------------
NewMonth ==
  /\ month < LastMonth
  /\ month' = month + 1
  /\ UNCHANGED <<closed, tx, req, file>>

ClosePeriod(m) ==
  /\ m < month
  /\ m \notin closed
  /\ closed' = closed \cup {m}
  /\ UNCHANGED <<month, tx, req, file>>

\* assertNotFuture and assertPeriodOpen.
MayBeDated(m) == m <= month /\ m \notin closed

\* Mutant: the month is not checked.
OwnedOnly(a, t) == Present(t) /\ tx[t].owner = a

EditableByAccountant(a, t) ==
  /\ Present(t)
  /\ tx[t].owner = a
  /\ tx[t].month \notin closed

CreateRead(r, a, m, v) ==
  /\ MayBeDated(m)
  /\ Begin(r, [op |-> "create", actor |-> a, month |-> m, value |-> v])

CreateWrite(r, t) ==
  /\ req[r].op = "create"
  /\ tx[t].state = "unborn"
  /\ tx' = [tx EXCEPT ![t] =
       [state |-> "present", owner |-> req[r].actor, month |-> req[r].month,
        value |-> req[r].value, file |-> None]]
  /\ End(r)
  /\ UNCHANGED <<month, closed, file>>

\* None: the field is not in the body and keeps its value.
EditedRow(row, q) ==
  [row EXCEPT !.month = IF q.month = None THEN row.month ELSE q.month,
              !.value = IF q.value = None THEN row.value ELSE q.value]

UpdateRead(r, a, t, m, v) ==
  /\ EditableByAccountant(a, t)
  /\ m # None => MayBeDated(m)
  /\ Begin(r, [op |-> "update", id |-> t, month |-> m, value |-> v])

\* A row that is gone fails the update.
UpdateWrite(r) ==
  /\ req[r].op = "update"
  /\ LET q == req[r]
     IN tx' = [tx EXCEPT ![q.id] = IF Present(q.id) THEN EditedRow(tx[q.id], q) ELSE @]
  /\ End(r)
  /\ UNCHANGED <<month, closed, file>>

RemoveRead(r, a, t) ==
  /\ EditableByAccountant(a, t)
  /\ Begin(r, [op |-> "remove", id |-> t, old |-> tx[t].file])

\* The file removed is the one that was read, not the one of the deleted row.
RemoveWrite(r) ==
  /\ req[r].op = "remove"
  /\ LET t == req[r].id IN
       IF Present(t)
       THEN /\ tx' = [tx EXCEPT ![t] = [state |-> "deleted"]]
            /\ RemoveThenEnd(r, req[r].old)
       ELSE UNCHANGED tx /\ End(r)
  /\ UNCHANGED <<month, closed, file>>

-----------------------------------------------------------------------------
AttachRead(r, a, t) ==
  /\ EditableByAccountant(a, t)
  /\ Begin(r, [op |-> "attach", id |-> t, old |-> tx[t].file])

StoreBytes(r, f) ==
  /\ req[r].op = "attach"
  /\ WriteBytes(f)
  /\ GoOn(r, [op |-> "store", id |-> req[r].id, old |-> req[r].old, new |-> f])
  /\ UNCHANGED <<month, closed, tx>>

StoreRow(r) ==
  /\ req[r].op = "store"
  /\ CreateRow(req[r].new)
  /\ GoOn(r, [req[r] EXCEPT !.op = "install"])
  /\ UNCHANGED <<month, closed, tx>>

StoreFails(r) ==
  /\ req[r].op = "store"
  /\ DropBytes(req[r].new)
  /\ End(r)
  /\ UNCHANGED <<month, closed, tx>>

\* Mutant: somebody else's attachment in the row is taken for a failure.
SupersededIfSame(t, old, new) == IF Present(t) /\ tx[t].file = old THEN old ELSE new

\* The file to remove after the update: the replaced one, or the new one if
\* the transaction is gone.
Superseded(t, old, new) == IF Present(t) THEN old ELSE new

Install(r) ==
  /\ req[r].op = "install"
  /\ LET t == req[r].id
         new == req[r].new
     IN /\ tx' = [tx EXCEPT ![t] = IF Present(t) THEN [@ EXCEPT !.file = new] ELSE @]
        /\ RemoveThenEnd(r, Superseded(t, req[r].old, new))
  /\ UNCHANGED <<month, closed, file>>

\* A transaction that points to the deleted row loses the pointer (ON DELETE
\* SET NULL).  A row that is gone is not removed again.
RemoveFileRow(r) ==
  /\ req[r].op = "removeFile"
  /\ LET f == req[r].target IN
       IF file[f] = "stored"
       THEN /\ DeleteRow(f)
            /\ tx' = [t \in Transactions |->
                 IF Present(t) /\ tx[t].file = f THEN [tx[t] EXCEPT !.file = None] ELSE tx[t]]
            /\ GoOn(r, [op |-> "removeBytes", target |-> f])
       ELSE UNCHANGED <<file, tx>> /\ End(r)
  /\ UNCHANGED <<month, closed>>

RemoveFileBytes(r) ==
  /\ req[r].op = "removeBytes"
  /\ RemoveBytes(req[r].target)
  /\ End(r)
  /\ UNCHANGED <<month, closed, tx>>

-----------------------------------------------------------------------------
EditStep(r) ==
  \/ \E a \in Accountants, m \in Months, v \in Values : CreateRead(r, a, m, v)
  \/ \E t \in Transactions : CreateWrite(r, t)
  \/ \E a \in Accountants, t \in Transactions,
        m \in Months \cup {None}, v \in Values \cup {None} : UpdateRead(r, a, t, m, v)
  \/ UpdateWrite(r)
  \/ \E a \in Accountants, t \in Transactions : RemoveRead(r, a, t)
  \/ RemoveWrite(r)

AttachStep(r) ==
  \/ \E a \in Accountants, t \in Transactions : AttachRead(r, a, t)
  \/ \E f \in Files : StoreBytes(r, f)
  \/ StoreRow(r) \/ StoreFails(r) \/ Install(r)
  \/ RemoveFileRow(r) \/ RemoveFileBytes(r)

Quiet == \A r \in Requests : req[r] = Idle

Step ==
  \/ NewMonth
  \/ \E m \in Months : ClosePeriod(m)
  \/ \E r \in Requests : EditStep(r) \/ AttachStep(r) \/ Abandon(r)

Next == Step /\ settled' = IF Quiet THEN closed ELSE settled

Spec == Init /\ [][Next]_vars

-----------------------------------------------------------------------------
(***************************************************************************)
(* Properties                                                              *)
(***************************************************************************)

Of(m) == {t \in Transactions : Present(t) /\ tx[t].month = m}

\* The books of a closed month settle.  Handlers that passed their checks before
\* the closing, and handlers that overlap with these, may still write; once
\* there has been a moment without a handler in flight nothing enters, leaves
\* or changes in that month (create, update, remove, attach, closePeriod).
ClosedMonthSettles ==
  [][\A m \in settled : Of(m)' = Of(m) /\ \A t \in Of(m) : tx'[t] = tx[t]]_vars

\* An attachment is only ever replaced by another one that can be read, row and
\* bytes, or goes with its transaction, whatever replacements, removals and
\* crashes overlap (attach, remove, FileStorageService.remove).
AttachmentIsNeverLost ==
  [][\A t \in Transactions :
       Present(t) /\ tx[t].file # None /\ tx'[t].state = "present" =>
         tx'[t].file # None /\ file'[tx'[t].file] = "stored"]_vars
=============================================================================
