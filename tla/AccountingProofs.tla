-------------------------- MODULE AccountingProofs --------------------------
(***************************************************************************)
(* Proofs about Accounting, Backups and Users, for any number of           *)
(* accountants, transactions, uploads, months, archives, restores,         *)
(* accounts, addresses and handlers in flight.                             *)
(***************************************************************************)
EXTENDS Backups, MCUsers, FiniteSets, FiniteSetTheorems, TLAPS

-----------------------------------------------------------------------------
(***************************************************************************)
(* Types and dates                                                         *)
(***************************************************************************)

\* What a handler in flight remembers, by the statement it is about to issue.
LEMMA RequestFields ==
  ASSUME NEW x \in Request
  PROVE  /\ x.op = "create" =>
              x.actor \in Accountants /\ x.month \in Months /\ x.value \in Values
         /\ x.op = "update" =>
              /\ x.id \in Transactions
              /\ x.month \in Months \cup {None} /\ x.value \in Values \cup {None}
         /\ x.op \in {"remove", "attach", "store", "install"} =>
              x.id \in Transactions /\ x.old \in Files \cup {None}
         /\ x.op \in {"store", "install"} => x.new \in Files
         /\ x.op \in {"removeFile", "removeBytes"} => x.target \in Files
BY DEF Request, Idle

PresentRow ==
  [state: {"present"}, owner: Accountants, month: Months, value: Values,
   file: Files \cup {None}]

LEMMA RowFields ==
  ASSUME NEW row \in Row, row.state = "present"
  PROVE  row \in PresentRow
BY DEF Row, PresentRow

LEMMA PresentIsARow == PresentRow \subseteq Row
BY DEF Row, PresentRow

\* A date that a handler has accepted is not in the future.
RequestIsDated(x) ==
  /\ x.op = "create" => x.month <= month
  /\ x.op = "update" /\ x.month # None => x.month <= month

RowIsDated(row) == row.state = "present" => row.month <= month

TypeInv ==
  /\ TypeOK
  /\ \A r \in Requests : RequestIsDated(req[r])

LEMMA IdleIsARequest == Idle \in Request /\ RequestIsDated(Idle)
BY DEF Request, RequestIsDated, Idle

\* A statement of a handler: the calendar and the closed months stay.
LEMMA HandlerStep ==
  ASSUME TypeInv, UNCHANGED <<month, closed>>, settled' \in {closed, settled},
         NEW r \in Requests, NEW x \in Request, GoOn(r, x), RequestIsDated(x),
         tx' \in [Transactions -> Row], \A t \in Transactions : RowIsDated(tx'[t]),
         file' \in [Files -> FileState]
  PROVE  TypeInv'
<1>1. req' \in [Requests -> Request] /\ \A s \in Requests : RequestIsDated(req'[s])
  BY DEF GoOn, TypeInv, TypeOK
<1>2. TypeOK'
  BY <1>1 DEF TypeInv, TypeOK, RowIsDated
<1>3. (\A s \in Requests : RequestIsDated(req[s]))'
  BY <1>1 DEF RequestIsDated
<1>4. QED
  BY <1>2, <1>3 DEF TypeInv

\* The same without a row written.
LEMMA ReadingStep ==
  ASSUME TypeInv, UNCHANGED <<month, closed, tx>>, settled' \in {closed, settled},
         NEW r \in Requests, NEW x \in Request, GoOn(r, x), RequestIsDated(x),
         file' \in [Files -> FileState]
  PROVE  TypeInv'
BY HandlerStep DEF TypeInv, TypeOK, RowIsDated

\* The same with one row written.
LEMMA WritingStep ==
  ASSUME TypeInv, UNCHANGED <<month, closed>>, settled' \in {closed, settled},
         NEW r \in Requests, NEW x \in Request, GoOn(r, x), RequestIsDated(x),
         NEW t \in Transactions, NEW row \in Row, tx' = [tx EXCEPT ![t] = row],
         RowIsDated(row), file' \in [Files -> FileState]
  PROVE  TypeInv'
<1>1. tx' \in [Transactions -> Row]
  BY DEF TypeInv, TypeOK
<1>2. \A u \in Transactions : RowIsDated(tx'[u])
  BY DEF TypeInv, TypeOK, RowIsDated
<1>3. QED
  BY <1>1, <1>2, HandlerStep

LEMMA RemoveThenEndGoesOn ==
  ASSUME NEW r \in Requests, NEW f \in Files \cup {None}, RemoveThenEnd(r, f)
  PROVE  \E x \in Request : GoOn(r, x) /\ RequestIsDated(x)
<1>1. CASE f = None
  BY <1>1, IdleIsARequest DEF RemoveThenEnd, End
<1>2. CASE f # None
  <2> DEFINE x == [op |-> "removeFile", target |-> f]
  <2>1. x \in Request /\ RequestIsDated(x)
    BY <1>2 DEF Request, RequestIsDated
  <2>2. GoOn(r, x)
    BY <1>2 DEF RemoveThenEnd
  <2>3. QED
    BY <2>1, <2>2
<1>3. QED
  BY <1>1, <1>2

LEMMA SettledGrows == Next => settled' \in {closed, settled}
BY DEF Next

\* What CreateWrite puts into the table.
NewRow(q) ==
  [state |-> "present", owner |-> q.actor, month |-> q.month, value |-> q.value,
   file |-> None]

LEMMA EditedRowType ==
  ASSUME NEW row \in PresentRow, NEW q \in Request, q.op = "update"
  PROVE  /\ EditedRow(row, q) \in PresentRow
         /\ EditedRow(row, q).file = row.file
         /\ EditedRow(row, q).month = IF q.month = None THEN row.month ELSE q.month
<1> DEFINE m == IF q.month = None THEN row.month ELSE q.month
           v == IF q.value = None THEN row.value ELSE q.value
<1>1. m \in Months /\ v \in Values
  BY RequestFields DEF PresentRow
<1>2. EditedRow(row, q) = [row EXCEPT !.month = m, !.value = v]
  BY DEF EditedRow
<1> HIDE DEF m, v
<1>3. /\ EditedRow(row, q) \in PresentRow
      /\ EditedRow(row, q).file = row.file /\ EditedRow(row, q).month = m
  BY <1>1, <1>2 DEF PresentRow
<1>4. QED
  BY <1>3 DEF m

LEMMA UpdateWrites ==
  ASSUME TypeInv, NEW r \in Requests, UpdateWrite(r)
  PROVE  LET t == req[r].id
         IN /\ t \in Transactions
            /\ \/ ~Present(t) /\ tx' = tx
               \/ /\ Present(t)
                  /\ EditedRow(tx[t], req[r]) \in PresentRow
                  /\ tx' = [tx EXCEPT ![t] = EditedRow(tx[t], req[r])]
<1>1. PICK q \in Request : q = req[r] /\ q.op = "update"
  BY DEF UpdateWrite, TypeInv, TypeOK
<1>2. q.id \in Transactions
  BY <1>1, RequestFields
<1>3. CASE ~Present(q.id)
  BY <1>1, <1>2, <1>3 DEF UpdateWrite, TypeInv, TypeOK
<1>4. CASE Present(q.id)
  <2>1. tx[q.id] \in PresentRow
    BY <1>2, <1>4, RowFields DEF Present, TypeInv, TypeOK
  <2>2. EditedRow(tx[q.id], q) \in PresentRow
    BY <1>1, <2>1, EditedRowType
  <2>3. tx' = [tx EXCEPT ![q.id] = EditedRow(tx[q.id], q)]
    BY <1>1, <1>2, <1>4 DEF UpdateWrite, TypeInv, TypeOK
  <2>4. QED
    BY <1>1, <1>2, <1>4, <2>2, <2>3
<1>5. QED
  BY <1>3, <1>4

LEMMA InstallWrites ==
  ASSUME TypeInv, NEW r \in Requests, Install(r)
  PROVE  LET t == req[r].id
             new == req[r].new
             gone == Superseded(t, req[r].old, new)
         IN /\ t \in Transactions /\ new \in Files
            /\ gone \in Files \cup {None} /\ RemoveThenEnd(r, gone)
            /\ \/ ~Present(t) /\ tx' = tx /\ gone = new
               \/ /\ Present(t) /\ gone = req[r].old
                  /\ tx' = [tx EXCEPT ![t] = [tx[t] EXCEPT !.file = new]]
                  /\ [tx[t] EXCEPT !.file = new] \in PresentRow
                  /\ [tx[t] EXCEPT !.file = new].month = tx[t].month
                  /\ [tx[t] EXCEPT !.file = new].file = new
<1>1. PICK q \in Request : q = req[r] /\ q.op = "install"
  BY DEF Install, TypeInv, TypeOK
<1>2. q.id \in Transactions /\ q.old \in Files \cup {None} /\ q.new \in Files
  BY <1>1, RequestFields
<1> DEFINE gone == Superseded(q.id, q.old, q.new)
<1>3. gone \in Files \cup {None} /\ (Present(q.id) => gone = q.old)
      /\ (~Present(q.id) => gone = q.new)
  BY <1>2 DEF Superseded
<1>4. RemoveThenEnd(r, gone)
  BY <1>1 DEF Install
<1>5. CASE ~Present(q.id)
  <2>1. tx' = tx
    BY <1>1, <1>2, <1>5 DEF Install, TypeInv, TypeOK
  <2>2. QED
    BY <1>1, <1>2, <1>3, <1>4, <1>5, <2>1
<1>6. CASE Present(q.id)
  <2> DEFINE row == [tx[q.id] EXCEPT !.file = q.new]
  <2>1. tx[q.id] \in PresentRow
    BY <1>2, <1>6, RowFields DEF Present, TypeInv, TypeOK
  <2>2. row \in PresentRow /\ row.month = tx[q.id].month /\ row.file = q.new
    BY <1>2, <2>1 DEF PresentRow
  <2>3. tx' = [tx EXCEPT ![q.id] = row]
    BY <1>1, <1>2, <1>6 DEF Install, TypeInv, TypeOK
  <2> HIDE DEF gone
  <2>4. QED
    BY <1>1, <1>2, <1>3, <1>4, <1>6, <2>2, <2>3 DEF gone
<1>7. QED
  BY <1>5, <1>6

LEMMA DetachedRowType ==
  ASSUME NEW row \in PresentRow
  PROVE  /\ [row EXCEPT !.file = None] \in PresentRow
         /\ [row EXCEPT !.file = None].month = row.month
BY DEF PresentRow

LEMMA TypeInit == Init => TypeInv
<1> SUFFICES ASSUME Init PROVE TypeInv
  OBVIOUS
<1>1. 1 \in Months /\ [state |-> "unborn"] \in Row
  BY AccountingAssumption DEF Months, Row
<1>2. QED
  BY <1>1, IdleIsARequest DEF Init, TypeInv, TypeOK, FileInit, FileState, RequestIsDated, Idle

LEMMA TypeStep == TypeInv /\ [Next]_vars => TypeInv'
<1> SUFFICES ASSUME TypeInv, [Next]_vars PROVE TypeInv'
  OBVIOUS
<1>1. CASE UNCHANGED vars
  BY <1>1 DEF vars, TypeInv, TypeOK, RequestIsDated
<1>2. Next => settled' \in {closed, settled}
  BY SettledGrows
<1>3. ASSUME Next, NewMonth PROVE TypeInv'
  <2>1. month' \in Months /\ month <= month' /\ month \in Nat
    BY <1>3, AccountingAssumption DEF NewMonth, TypeInv, TypeOK, Months
  <2>2. \A t \in Transactions : tx[t].state = "present" => tx[t].month \in Nat
    BY RowFields DEF TypeInv, TypeOK, PresentRow, Months
  <2>3. \A r \in Requests : RequestIsDated(req[r])'
    <3>1. TAKE r \in Requests
    <3>2. /\ req[r].op = "create" => req[r].month \in Nat
          /\ req[r].op = "update" /\ req[r].month # None => req[r].month \in Nat
      BY RequestFields DEF TypeInv, TypeOK, Months
    <3>3. req'[r] = req[r]
      BY <1>3 DEF NewMonth
    <3>4. ASSUME NEW n \in Nat, n <= month PROVE n <= month'
      BY <2>1, <3>4 DEF Months
    <3>5. RequestIsDated(req[r])
      BY DEF TypeInv
    <3>6. /\ req[r].op = "create" => req[r].month <= month'
          /\ req[r].op = "update" /\ req[r].month # None => req[r].month <= month'
      BY <3>2, <3>4, <3>5, Zenon DEF RequestIsDated
    <3>7. QED
      BY <3>3, <3>6 DEF RequestIsDated
  <2>4. \A t \in Transactions : tx[t].state = "present" => tx[t].month <= month'
    BY <2>1, <2>2 DEF TypeInv, TypeOK
  <2>5. \A m \in closed : m < month'
    BY <2>1 DEF TypeInv, TypeOK, Months
  <2>6. TypeOK'
    BY <1>2, <1>3, <2>1, <2>4, <2>5 DEF NewMonth, TypeInv, TypeOK
  <2>7. QED
    BY <2>3, <2>6 DEF TypeInv
<1>4. ASSUME Next, NEW m \in Months, ClosePeriod(m) PROVE TypeInv'
  <2>1. TypeOK'
    BY <1>2, <1>4 DEF ClosePeriod, TypeInv, TypeOK
  <2>2. QED
    BY <1>4, <2>1 DEF ClosePeriod, TypeInv, RequestIsDated
<1>5. ASSUME Next, NEW r \in Requests, NEW x \in Request, GoOn(r, x), RequestIsDated(x),
             UNCHANGED <<month, closed, tx>>, file' \in [Files -> FileState]
      PROVE  TypeInv'
  BY <1>2, <1>5, ReadingStep
<1>6. file \in [Files -> FileState]
  BY DEF TypeInv, TypeOK
<1>7. ASSUME Next, NEW r \in Requests, EditStep(r) PROVE TypeInv'
  <2>1. ASSUME NEW a \in Accountants, NEW m \in Months, NEW v \in Values,
               CreateRead(r, a, m, v)
        PROVE  TypeInv'
    <3> DEFINE x == [op |-> "create", actor |-> a, month |-> m, value |-> v]
    <3>1. x \in Request
      BY DEF Request
    <3>2. RequestIsDated(x) /\ GoOn(r, x) /\ UNCHANGED <<month, closed, tx, file>>
      BY <2>1 DEF CreateRead, Begin, MayBeDated, RequestIsDated
    <3> HIDE DEF x
    <3>3. QED
      BY <1>5, <1>6, <1>7, <3>1, <3>2
  <2>2. ASSUME NEW t \in Transactions, CreateWrite(r, t) PROVE TypeInv'
    <3>1. PICK q \in Request : q = req[r] /\ q.op = "create"
      BY <2>2 DEF CreateWrite, TypeInv, TypeOK
    <3>2. q.actor \in Accountants /\ q.month \in Months /\ q.value \in Values
      BY <3>1, RequestFields
    <3>3. NewRow(q) \in PresentRow /\ NewRow(q).month = q.month
      BY <3>2 DEF NewRow, PresentRow
    <3>4. q.month <= month
      BY <3>1 DEF TypeInv, RequestIsDated
    <3>5. tx' = [tx EXCEPT ![t] = NewRow(q)] /\ GoOn(r, Idle)
          /\ UNCHANGED <<month, closed, file>>
      BY <2>2, <3>1 DEF CreateWrite, NewRow, End
    <3>6. RowIsDated(NewRow(q))
      BY <3>3, <3>4 DEF RowIsDated
    <3>7. QED
      BY <1>2, <1>6, <1>7, <3>3, <3>5, <3>6, PresentIsARow, IdleIsARequest, WritingStep
  <2>3. ASSUME NEW a \in Accountants, NEW t \in Transactions, NEW m \in Months \cup {None},
               NEW v \in Values \cup {None}, UpdateRead(r, a, t, m, v)
        PROVE  TypeInv'
    <3> DEFINE x == [op |-> "update", id |-> t, month |-> m, value |-> v]
    <3>1. x \in Request
      BY DEF Request
    <3>2. RequestIsDated(x) /\ GoOn(r, x) /\ UNCHANGED <<month, closed, tx, file>>
      BY <2>3 DEF UpdateRead, Begin, MayBeDated, RequestIsDated
    <3> HIDE DEF x
    <3>3. QED
      BY <1>5, <1>6, <1>7, <3>1, <3>2
  <2>4. CASE UpdateWrite(r)
    <3>1. PICK q \in Request : q = req[r] /\ q.op = "update"
      BY <2>4 DEF UpdateWrite, TypeInv, TypeOK
    <3>2. GoOn(r, Idle) /\ UNCHANGED <<month, closed, file>>
      BY <2>4 DEF UpdateWrite, End
    <3>3. CASE tx' = tx
      BY <1>5, <1>6, <1>7, <3>2, <3>3, IdleIsARequest
    <3>4. CASE /\ Present(q.id)
               /\ EditedRow(tx[q.id], q) \in PresentRow
               /\ tx' = [tx EXCEPT ![q.id] = EditedRow(tx[q.id], q)]
      <4>1. q.id \in Transactions /\ (q.month # None => q.month <= month)
        BY <3>1, RequestFields DEF TypeInv, RequestIsDated
      <4>2. tx[q.id] \in PresentRow /\ tx[q.id].month <= month
        BY <3>4, <4>1, RowFields DEF Present, TypeInv, TypeOK
      <4>3. EditedRow(tx[q.id], q).month = IF q.month = None THEN tx[q.id].month ELSE q.month
        BY <3>1, <4>2, EditedRowType
      <4>4. RowIsDated(EditedRow(tx[q.id], q))
        BY <4>1, <4>2, <4>3 DEF RowIsDated
      <4>5. QED
        BY <1>2, <1>6, <1>7, <3>2, <3>4, <4>1, <4>4, PresentIsARow, IdleIsARequest, WritingStep
    <3>5. QED
      BY <2>4, <3>1, <3>3, <3>4, UpdateWrites
  <2>5. ASSUME NEW a \in Accountants, NEW t \in Transactions, RemoveRead(r, a, t)
        PROVE  TypeInv'
    <3> DEFINE x == [op |-> "remove", id |-> t, old |-> tx[t].file]
    <3>1. tx[t].file \in Files \cup {None}
      BY <2>5, RowFields DEF RemoveRead, EditableByAccountant, Present, TypeInv, TypeOK, PresentRow
    <3>2. x \in Request /\ RequestIsDated(x)
      BY <3>1 DEF Request, RequestIsDated
    <3>3. GoOn(r, x) /\ UNCHANGED <<month, closed, tx, file>>
      BY <2>5 DEF RemoveRead, Begin
    <3> HIDE DEF x
    <3>4. QED
      BY <1>5, <1>6, <1>7, <3>2, <3>3
  <2>6. CASE RemoveWrite(r)
    <3>1. /\ req[r].id \in Transactions /\ req[r].old \in Files \cup {None}
          /\ UNCHANGED <<month, closed, file>>
      BY <2>6, RequestFields DEF RemoveWrite, TypeInv, TypeOK
    <3>2. CASE Present(req[r].id)
      <4>1. /\ tx' = [tx EXCEPT ![req[r].id] = [state |-> "deleted"]]
            /\ RemoveThenEnd(r, req[r].old)
        BY <2>6, <3>2 DEF RemoveWrite
      <4>2. PICK x \in Request : GoOn(r, x) /\ RequestIsDated(x)
        BY <3>1, <4>1, RemoveThenEndGoesOn
      <4>3. [state |-> "deleted"] \in Row /\ RowIsDated([state |-> "deleted"])
        BY DEF Row, RowIsDated
      <4>4. QED
        BY <1>2, <1>6, <1>7, <3>1, <4>1, <4>2, <4>3, WritingStep
    <3>3. CASE ~Present(req[r].id)
      <4>1. UNCHANGED tx /\ GoOn(r, Idle)
        BY <2>6, <3>3 DEF RemoveWrite, End
      <4>2. QED
        BY <1>5, <1>6, <1>7, <3>1, <4>1, IdleIsARequest
    <3>4. QED
      BY <3>2, <3>3
  <2>7. QED
    BY <1>7, <2>1, <2>2, <2>3, <2>4, <2>5, <2>6 DEF EditStep
<1>8. ASSUME Next, NEW r \in Requests, AttachStep(r) PROVE TypeInv'
  <2>1. ASSUME NEW a \in Accountants, NEW t \in Transactions, AttachRead(r, a, t)
        PROVE  TypeInv'
    <3> DEFINE x == [op |-> "attach", id |-> t, old |-> tx[t].file]
    <3>1. tx[t].file \in Files \cup {None}
      BY <2>1, RowFields DEF AttachRead, EditableByAccountant, Present, TypeInv, TypeOK, PresentRow
    <3>2. x \in Request /\ RequestIsDated(x)
      BY <3>1 DEF Request, RequestIsDated
    <3>3. GoOn(r, x) /\ UNCHANGED <<month, closed, tx, file>>
      BY <2>1 DEF AttachRead, Begin
    <3> HIDE DEF x
    <3>4. QED
      BY <1>5, <1>6, <1>8, <3>2, <3>3
  <2>2. ASSUME NEW f \in Files, StoreBytes(r, f) PROVE TypeInv'
    <3> DEFINE x == [op |-> "store", id |-> req[r].id, old |-> req[r].old, new |-> f]
    <3>1. req[r].id \in Transactions /\ req[r].old \in Files \cup {None}
      BY <2>2, RequestFields DEF StoreBytes, TypeInv, TypeOK
    <3>2. x \in Request /\ RequestIsDated(x)
      BY <3>1 DEF Request, RequestIsDated
    <3>3. GoOn(r, x) /\ UNCHANGED <<month, closed, tx>> /\ file' = [file EXCEPT ![f] = "bytes"]
      BY <2>2 DEF StoreBytes, WriteBytes
    <3> HIDE DEF x
    <3>4. file' \in [Files -> FileState]
      BY <1>6, <3>3 DEF FileState
    <3>5. QED
      BY <1>5, <1>8, <3>2, <3>3, <3>4
  <2>3. CASE StoreRow(r)
    <3>1. req[r] \in [op: {"store", "install"}, id: Transactions, old: Files \cup {None},
                      new: Files]
      BY <2>3 DEF StoreRow, TypeInv, TypeOK, Request, Idle
    <3> DEFINE x == [req[r] EXCEPT !.op = "install"]
    <3>2. x \in [op: {"store", "install"}, id: Transactions, old: Files \cup {None},
                 new: Files]
          /\ x.op = "install"
      BY <3>1
    <3>3. GoOn(r, x) /\ UNCHANGED <<month, closed, tx>>
      BY <2>3 DEF StoreRow
    <3> HIDE DEF x
    <3>4. x \in Request /\ RequestIsDated(x)
      BY <3>2 DEF Request, RequestIsDated
    <3>5. file' \in [Files -> FileState]
      BY <1>6, <2>3 DEF StoreRow, CreateRow, FileState
    <3>6. QED
      BY <1>5, <1>8, <3>3, <3>4, <3>5
  <2>4. CASE StoreFails(r)
    <3>1. GoOn(r, Idle) /\ UNCHANGED <<month, closed, tx>>
      BY <2>4 DEF StoreFails, End
    <3>2. file' \in [Files -> FileState]
      BY <1>6, <2>4 DEF StoreFails, DropBytes, FileState
    <3>3. QED
      BY <1>5, <1>8, <3>1, <3>2, IdleIsARequest
  <2>5. CASE Install(r)
    <3> DEFINE t == req[r].id
               row == [tx[t] EXCEPT !.file = req[r].new]
               gone == Superseded(t, req[r].old, req[r].new)
    <3>1. /\ t \in Transactions /\ gone \in Files \cup {None} /\ RemoveThenEnd(r, gone)
          /\ \/ tx' = tx
             \/ /\ Present(t) /\ tx' = [tx EXCEPT ![t] = row]
                /\ row \in PresentRow /\ row.month = tx[t].month
      BY <2>5, InstallWrites
    <3>2. UNCHANGED <<month, closed, file>>
      BY <2>5 DEF Install
    <3> HIDE DEF t, row, gone
    <3>3. PICK x \in Request : GoOn(r, x) /\ RequestIsDated(x)
      BY <3>1, RemoveThenEndGoesOn
    <3>4. CASE tx' = tx
      BY <1>5, <1>6, <1>8, <3>2, <3>3, <3>4
    <3>5. CASE /\ Present(t) /\ tx' = [tx EXCEPT ![t] = row]
               /\ row \in PresentRow /\ row.month = tx[t].month
      <4>1. RowIsDated(row)
        BY <3>1, <3>5 DEF RowIsDated, Present, TypeInv, TypeOK
      <4>2. QED
        BY <1>2, <1>6, <1>8, <3>1, <3>2, <3>3, <3>5, <4>1, PresentIsARow, WritingStep
    <3>6. QED
      BY <3>1, <3>4, <3>5
  <2>6. CASE RemoveFileRow(r)
    <3> DEFINE f == req[r].target
               x == [op |-> "removeBytes", target |-> f]
    <3>1. f \in Files /\ UNCHANGED <<month, closed>>
      BY <2>6, RequestFields DEF RemoveFileRow, TypeInv, TypeOK
    <3>2. CASE file[f] = "stored"
      <4>1. x \in Request /\ RequestIsDated(x)
        BY <3>1 DEF Request, RequestIsDated
      <4>2. /\ GoOn(r, x)
            /\ tx' = [t \in Transactions |->
                 IF Present(t) /\ tx[t].file = f THEN [tx[t] EXCEPT !.file = None] ELSE tx[t]]
        BY <2>6, <3>2 DEF RemoveFileRow
      <4>3. file' \in [Files -> FileState]
        BY <1>6, <2>6, <3>2 DEF RemoveFileRow, DeleteRow, FileState
      <4> HIDE DEF x, f
      <4>4. ASSUME NEW t \in Transactions PROVE tx'[t] \in Row /\ RowIsDated(tx'[t])
        <5>1. CASE Present(t) /\ tx[t].file = f
          <6>1. tx[t] \in PresentRow /\ tx[t].month <= month
            BY <5>1, RowFields DEF Present, TypeInv, TypeOK
          <6>2. tx'[t] = [tx[t] EXCEPT !.file = None]
            BY <4>2, <5>1
          <6>3. QED
            BY <6>1, <6>2, DetachedRowType, PresentIsARow DEF RowIsDated
        <5>2. CASE ~(Present(t) /\ tx[t].file = f)
          BY <4>2, <5>2 DEF TypeInv, TypeOK, RowIsDated
        <5>3. QED
          BY <5>1, <5>2
      <4>5. tx' \in [Transactions -> Row] /\ \A t \in Transactions : RowIsDated(tx'[t])
        BY <4>2, <4>4
      <4>6. QED
        BY <1>2, <1>8, <3>1, <4>1, <4>2, <4>3, <4>5, HandlerStep
    <3>3. CASE file[f] # "stored"
      <4>1. UNCHANGED <<file, tx>> /\ GoOn(r, Idle)
        BY <2>6, <3>3 DEF RemoveFileRow, End
      <4>2. QED
        BY <1>5, <1>6, <1>8, <3>1, <4>1, IdleIsARequest
    <3>4. QED
      BY <3>2, <3>3
  <2>7. CASE RemoveFileBytes(r)
    <3>1. GoOn(r, Idle) /\ UNCHANGED <<month, closed, tx>>
      BY <2>7 DEF RemoveFileBytes, End
    <3>2. file' \in [Files -> FileState]
      BY <1>6, <2>7 DEF RemoveFileBytes, RemoveBytes, FileState
    <3>3. QED
      BY <1>5, <1>8, <3>1, <3>2, IdleIsARequest
  <2>8. QED
    BY <1>8, <2>1, <2>2, <2>3, <2>4, <2>5, <2>6, <2>7 DEF AttachStep
<1>9. ASSUME Next, NEW r \in Requests, Abandon(r) PROVE TypeInv'
  BY <1>5, <1>6, <1>9, IdleIsARequest DEF Abandon, End
<1>10. QED
  BY <1>1, <1>3, <1>4, <1>7, <1>8, <1>9 DEF Next, Step

\* Rows and handlers keep their types, no transaction is dated ahead and only months
\* that are over are closed, also where a handler writes a date that it checked in an
\* earlier month (assertNotFuture, closePeriod).
THEOREM TypeCorrect == Spec => []TypeOK
<1>1. TypeInv => TypeOK
  BY DEF TypeInv
<1>2. QED
  BY <1>1, TypeInit, TypeStep, PTL DEF Spec

-----------------------------------------------------------------------------
(***************************************************************************)
(* Why no attachment is lost.  As in ContractsProofs the invariant follows *)
(* an upload through the handlers: while one stores and installs it,       *)
(* nobody else knows of it; a file that a handler will replace or remove   *)
(* is no other transaction's; a file about to be removed is nobody's.      *)
(***************************************************************************)
Attached(t) == IF Present(t) THEN tx[t].file ELSE None

Uploading(r) == req[r].op \in {"store", "install"}
Replacing(r) == req[r].op \in {"attach", "store", "install", "remove"}
Written == {"stored", "rowless", "gone"}

FileHasOneOwner ==
  \A t, u \in Transactions : Attached(t) # None /\ Attached(t) = Attached(u) => t = u

AttachedIsStored ==
  \A t \in Transactions : Attached(t) # None => file[Attached(t)] = "stored"

UploadIsUnknown ==
  \A r \in Requests : Uploading(r) =>
    /\ req[r].op = "store" => file[req[r].new] = "bytes"
    /\ req[r].op = "install" => file[req[r].new] = "stored"
    /\ \A t \in Transactions : Attached(t) # req[r].new
    /\ \A s \in Requests : Uploading(s) /\ req[s].new = req[r].new => s = r

ReplacedIsNoOthers ==
  \A r \in Requests : Replacing(r) /\ req[r].old # None =>
    /\ file[req[r].old] \in Written
    /\ \A s \in Requests : Uploading(s) => req[s].new # req[r].old
    /\ \A t \in Transactions : Attached(t) = req[r].old => t = req[r].id

DoomedIsNobodys ==
  \A r \in Requests : req[r].op = "removeFile" =>
    /\ file[req[r].target] \in Written
    /\ \A s \in Requests : Uploading(s) => req[s].new # req[r].target
    /\ \A t \in Transactions : Attached(t) # req[r].target

FilesInv ==
  /\ TypeInv
  /\ FileHasOneOwner
  /\ AttachedIsStored
  /\ UploadIsUnknown
  /\ ReplacedIsNoOthers
  /\ DoomedIsNobodys

\* What the types say of the files that somebody has in mind.
LEMMA FileTypes ==
  ASSUME TypeInv
  PROVE  /\ None \notin Files
         /\ \A t \in Transactions : Attached(t) \in Files \cup {None}
         /\ \A s \in Requests :
              /\ Uploading(s) => req[s].new \in Files
              /\ Replacing(s) => req[s].old \in Files \cup {None}
              /\ req[s].op = "removeFile" => req[s].target \in Files
<1>1. \A t \in Transactions : Attached(t) \in Files \cup {None}
  BY RowFields DEF TypeInv, TypeOK, Attached, Present, PresentRow
<1>2. QED
  BY <1>1, RequestFields, AccountingAssumption DEF TypeInv, TypeOK, Uploading, Replacing

\* Steps that touch no file and no pointer to one, but for deleting pointers,
\* and after which their handler has no file in mind.
LEMMA QuietStep ==
  ASSUME FilesInv, TypeInv', file' = file,
         \A t \in Transactions : Attached(t)' \in {Attached(t), None},
         \A s \in Requests : req'[s] = req[s] \/ req'[s].op \in
           {"idle", "create", "update", "removeBytes"}
  PROVE  FilesInv'
<1>1. \A s \in Requests : req'[s].op \in {"store", "install", "attach", "remove", "removeFile"}
        => req'[s] = req[s]
  OBVIOUS
<1>2. \A s \in Requests : /\ Uploading(s) => req[s].new # None
                          /\ req[s].op = "removeFile" => req[s].target # None
  BY FileTypes DEF FilesInv
<1>3. FileHasOneOwner'
  BY DEF FilesInv, FileHasOneOwner
<1>4. AttachedIsStored'
  BY DEF FilesInv, AttachedIsStored
<1>5. UploadIsUnknown'
  BY <1>1, <1>2 DEF FilesInv, UploadIsUnknown, Uploading
<1>6. ReplacedIsNoOthers'
  BY <1>1 DEF FilesInv, ReplacedIsNoOthers, Uploading, Replacing
<1>7. DoomedIsNobodys'
  BY <1>1, <1>2 DEF FilesInv, DoomedIsNobodys, Uploading
<1>8. QED
  BY <1>3, <1>4, <1>5, <1>6, <1>7 DEF FilesInv

\* A handler that has read its transaction remembers the attachment of it.
LEMMA RememberingStep ==
  ASSUME FilesInv, TypeInv', UNCHANGED <<tx, file>>,
         NEW r \in Requests, NEW t \in Transactions, NEW x, GoOn(r, x),
         x.op \in {"attach", "remove"}, x.id = t, x.old = Attached(t)
  PROVE  FilesInv'
<1>1. \A s \in Requests : req'[s] = IF s = r THEN x ELSE req[s]
  BY DEF GoOn, FilesInv, TypeInv, TypeOK
<1>2. \A s \in Requests : Uploading(s)' => s # r /\ Uploading(s) /\ req'[s] = req[s]
  BY <1>1 DEF Uploading
<1>3. \A u \in Transactions : Attached(u)' = Attached(u)
  BY DEF Attached, Present
<1>4. UploadIsUnknown'
  BY <1>1, <1>2, <1>3 DEF FilesInv, UploadIsUnknown, Uploading
<1>5. ReplacedIsNoOthers'
  <2>1. ASSUME x.old # None
        PROVE  /\ file[x.old] \in Written
               /\ \A s \in Requests : Uploading(s) => req[s].new # x.old
               /\ \A u \in Transactions : Attached(u) = x.old => u = t
    BY <2>1 DEF FilesInv, AttachedIsStored, UploadIsUnknown, FileHasOneOwner, Written
  <2>2. QED
    BY <1>1, <1>2, <1>3, <2>1 DEF FilesInv, ReplacedIsNoOthers, Replacing, Uploading
<1>6. DoomedIsNobodys'
  BY <1>1, <1>2, <1>3 DEF FilesInv, DoomedIsNobodys
<1>7. FileHasOneOwner' /\ AttachedIsStored'
  BY <1>3 DEF FilesInv, FileHasOneOwner, AttachedIsStored
<1>8. QED
  BY <1>4, <1>5, <1>6, <1>7 DEF FilesInv

LEMMA StoreBytesStep ==
  ASSUME FilesInv, TypeInv', NEW r \in Requests, NEW f \in Files, StoreBytes(r, f)
  PROVE  FilesInv'
<1> DEFINE x == [op |-> "store", id |-> req[r].id, old |-> req[r].old, new |-> f]
<1>1. \A s \in Requests : req'[s] = IF s = r THEN x ELSE req[s]
  BY DEF StoreBytes, GoOn, FilesInv, TypeInv, TypeOK
<1>2. file[f] = "unused" /\ \A g : g \in Files => file'[g] = IF g = f THEN "bytes" ELSE file[g]
  BY DEF StoreBytes, WriteBytes, FilesInv, TypeInv, TypeOK
<1>3. tx' = tx /\ req[r].op = "attach"
  BY DEF StoreBytes
<1>4. \A t \in Transactions : Attached(t)' = Attached(t)
  BY <1>3 DEF Attached, Present
<1>5. /\ None \notin Files
      /\ \A t \in Transactions : Attached(t) \in Files \cup {None}
      /\ \A s \in Requests :
           /\ Uploading(s) => req[s].new \in Files
           /\ Replacing(s) => req[s].old \in Files \cup {None}
           /\ req[s].op = "removeFile" => req[s].target \in Files
  BY FileTypes DEF FilesInv
<1>6. \A s \in Requests : Uploading(s)' => s = r \/ (Uploading(s) /\ req'[s] = req[s])
  BY <1>1 DEF Uploading
<1>7. \A s \in Requests : Uploading(s) => req[s].new # f
  BY <1>2 DEF FilesInv, UploadIsUnknown, Uploading
<1>8. AttachedIsStored'
  BY <1>2, <1>4, <1>5 DEF FilesInv, AttachedIsStored
<1>9. UploadIsUnknown'
  <2>1. \A t \in Transactions : Attached(t) # f
    BY <1>2, <1>5 DEF FilesInv, AttachedIsStored
  <2>2. QED
    BY <1>1, <1>2, <1>4, <1>5, <1>6, <1>7, <2>1 DEF FilesInv, UploadIsUnknown, Uploading
<1>10. ReplacedIsNoOthers'
  <2>1. \A s \in Requests : Replacing(s) /\ req[s].old # None => req[s].old # f
    BY <1>2 DEF FilesInv, ReplacedIsNoOthers, Written
  <2>2. \A s \in Requests : Replacing(s)' =>
          Replacing(s) /\ req'[s].old = req[s].old /\ req'[s].id = req[s].id
    BY <1>1, <1>3 DEF Replacing
  <2>3. ASSUME NEW s \in Requests, Replacing(s)', req'[s].old # None
        PROVE  /\ file'[req'[s].old] \in Written
               /\ \A q \in Requests : Uploading(q)' => req'[q].new # req'[s].old
               /\ \A t \in Transactions : Attached(t)' = req'[s].old => t = req'[s].id
    <3>1. Replacing(s) /\ req'[s].old = req[s].old /\ req'[s].id = req[s].id
      BY <2>2, <2>3
    <3>2. file'[req'[s].old] \in Written
      BY <1>2, <1>5, <2>1, <2>3, <3>1 DEF FilesInv, ReplacedIsNoOthers
    <3>3. \A q \in Requests : Uploading(q)' => req'[q].new # req'[s].old
      BY <1>1, <1>6, <2>1, <2>3, <3>1 DEF FilesInv, ReplacedIsNoOthers
    <3>4. \A t \in Transactions : Attached(t)' = req'[s].old => t = req'[s].id
      BY <1>4, <2>3, <3>1 DEF FilesInv, ReplacedIsNoOthers
    <3>5. QED
      BY <3>2, <3>3, <3>4
  <2>4. QED
    BY <2>3 DEF ReplacedIsNoOthers
<1>11. DoomedIsNobodys'
  <2>1. \A s \in Requests : req'[s].op = "removeFile" => req'[s] = req[s]
    BY <1>1
  <2>2. QED
    BY <1>1, <1>2, <1>4, <1>5, <1>6, <2>1 DEF FilesInv, DoomedIsNobodys, Written
<1>12. FileHasOneOwner'
  BY <1>4 DEF FilesInv, FileHasOneOwner
<1>13. QED
  BY <1>8, <1>9, <1>10, <1>11, <1>12 DEF FilesInv

LEMMA StoreRowStep ==
  ASSUME FilesInv, TypeInv', NEW r \in Requests, StoreRow(r)
  PROVE  FilesInv'
<1>1. /\ req[r] \in [op: {"store", "install"}, id: Transactions, old: Files \cup {None},
                     new: Files]
      /\ req[r].op = "store"
  BY DEF StoreRow, FilesInv, TypeInv, TypeOK, Request, Idle
<1> DEFINE x == [req[r] EXCEPT !.op = "install"]
<1>2. x.op = "install" /\ x.id = req[r].id /\ x.old = req[r].old /\ x.new = req[r].new
  BY <1>1
<1>3. \A s \in Requests : req'[s] = IF s = r THEN x ELSE req[s]
  BY DEF StoreRow, GoOn, FilesInv, TypeInv, TypeOK
<1> HIDE DEF x
<1>4. /\ file[req[r].new] = "bytes"
      /\ \A g \in Files : file'[g] = IF g = req[r].new THEN "stored" ELSE file[g]
  BY DEF StoreRow, CreateRow, FilesInv, TypeInv, TypeOK
<1>5. \A t \in Transactions : Attached(t)' = Attached(t)
  BY DEF StoreRow, Attached, Present
<1>6. /\ \A t \in Transactions : Attached(t) \in Files \cup {None}
      /\ \A s \in Requests :
           /\ Uploading(s) => req[s].new \in Files
           /\ Replacing(s) => req[s].old \in Files \cup {None}
           /\ req[s].op = "removeFile" => req[s].target \in Files
  BY FileTypes DEF FilesInv
<1>7. Uploading(r) /\ Replacing(r)
  BY <1>1 DEF Uploading, Replacing
<1>8. \A s \in Requests :
        /\ Uploading(s)' => Uploading(s) /\ req'[s].new = req[s].new
        /\ Replacing(s)' => Replacing(s) /\ req'[s].old = req[s].old /\ req'[s].id = req[s].id
        /\ req'[s].op = "removeFile" => req'[s] = req[s]
  BY <1>2, <1>3, <1>7 DEF Uploading, Replacing
<1>9. AttachedIsStored' /\ FileHasOneOwner'
  BY <1>4, <1>5, <1>6 DEF FilesInv, AttachedIsStored, FileHasOneOwner
<1>10. UploadIsUnknown'
  <2>1. \A s \in Requests : Uploading(s) /\ s # r => req[s].new # req[r].new
    BY <1>7 DEF FilesInv, UploadIsUnknown
  <2>2. QED
    BY <1>2, <1>3, <1>4, <1>5, <1>6, <1>8, <2>1 DEF FilesInv, UploadIsUnknown, Uploading
<1>11. ReplacedIsNoOthers'
  BY <1>4, <1>5, <1>6, <1>8 DEF FilesInv, ReplacedIsNoOthers, Written
<1>12. DoomedIsNobodys'
  BY <1>4, <1>5, <1>6, <1>8 DEF FilesInv, DoomedIsNobodys, Written
<1>13. QED
  BY <1>9, <1>10, <1>11, <1>12 DEF FilesInv

\* The bytes or the row of a file that no transaction has and nobody uploads go away.
LEMMA DiscardingStep ==
  ASSUME FilesInv, TypeInv', NEW r \in Requests, NEW f \in Files, NEW x,
         \A t \in Transactions : Attached(t)' = Attached(t),
         GoOn(r, x), x.op \in {"idle", "removeBytes"},
         \A t \in Transactions : Attached(t) # f,
         \A s \in Requests : Uploading(s) /\ s # r => req[s].new # f,
         NEW y \in Written, file' = [file EXCEPT ![f] = y]
  PROVE  FilesInv'
<1>1. \A s \in Requests : req'[s] = IF s = r THEN x ELSE req[s]
  BY DEF GoOn, FilesInv, TypeInv, TypeOK
<1>2. \A g \in Files : file'[g] = IF g = f THEN y ELSE file[g]
  BY DEF FilesInv, TypeInv, TypeOK
<1>3. /\ \A t \in Transactions : Attached(t) \in Files \cup {None}
      /\ \A s \in Requests :
           /\ Uploading(s) => req[s].new \in Files
           /\ Replacing(s) => req[s].old \in Files \cup {None}
           /\ req[s].op = "removeFile" => req[s].target \in Files
  BY FileTypes DEF FilesInv
<1>4. \A s \in Requests :
        /\ Uploading(s)' => s # r /\ Uploading(s) /\ req'[s] = req[s]
        /\ Replacing(s)' => s # r /\ Replacing(s) /\ req'[s] = req[s]
        /\ req'[s].op = "removeFile" => s # r /\ req'[s] = req[s]
  BY <1>1 DEF Uploading, Replacing
<1>5. AttachedIsStored' /\ FileHasOneOwner'
  BY <1>2, <1>3 DEF FilesInv, AttachedIsStored, FileHasOneOwner
<1>6. UploadIsUnknown'
  BY <1>2, <1>3, <1>4 DEF FilesInv, UploadIsUnknown
<1>7. ReplacedIsNoOthers'
  BY <1>2, <1>3, <1>4 DEF FilesInv, ReplacedIsNoOthers
<1>8. DoomedIsNobodys'
  BY <1>2, <1>3, <1>4 DEF FilesInv, DoomedIsNobodys
<1>9. QED
  BY <1>5, <1>6, <1>7, <1>8 DEF FilesInv

\* After it, a file is doomed that no transaction has and nobody uploads, and
\* the pointer of one transaction at most has moved, to an upload of its own.
LEMMA DoomStep ==
  ASSUME FilesInv, TypeInv', file' = file,
         NEW r \in Requests, NEW f \in Files \cup {None}, RemoveThenEnd(r, f),
         FileHasOneOwner', AttachedIsStored',
         f # None => /\ file[f] \in Written
                     /\ \A t \in Transactions : Attached(t)' # f
                     /\ \A s \in Requests : Uploading(s) /\ s # r => req[s].new # f,
         \A s \in Requests, t \in Transactions : Uploading(s) /\ s # r =>
           Attached(t)' # req[s].new,
         \A s \in Requests, t \in Transactions :
           /\ Replacing(s) /\ s # r /\ req[s].old # None
           /\ Attached(t)' = req[s].old
           => t = req[s].id,
         \A s \in Requests, t \in Transactions :
           req[s].op = "removeFile" /\ s # r => Attached(t)' # req[s].target
  PROVE  FilesInv'
<1> DEFINE x == IF f = None THEN Idle ELSE [op |-> "removeFile", target |-> f]
<1>1. \A s \in Requests : req'[s] = IF s = r THEN x ELSE req[s]
  BY DEF RemoveThenEnd, End, GoOn, FilesInv, TypeInv, TypeOK
<1>2. x.op \in {"idle", "removeFile"} /\ (x.op = "removeFile" => f # None /\ x.target = f)
  BY DEF Idle
<1> HIDE DEF x
<1>3. \A s \in Requests :
        /\ Uploading(s)' => s # r /\ Uploading(s) /\ req'[s] = req[s]
        /\ Replacing(s)' => s # r /\ Replacing(s) /\ req'[s] = req[s]
  BY <1>1, <1>2 DEF Uploading, Replacing
<1>4. UploadIsUnknown'
  BY <1>3 DEF FilesInv, UploadIsUnknown
<1>5. ReplacedIsNoOthers'
  BY <1>3 DEF FilesInv, ReplacedIsNoOthers
<1>6. DoomedIsNobodys'
  <2>1. ASSUME NEW s \in Requests, req'[s].op = "removeFile"
        PROVE  /\ file'[req'[s].target] \in Written
               /\ \A q \in Requests : Uploading(q)' => req'[q].new # req'[s].target
               /\ \A t \in Transactions : Attached(t)' # req'[s].target
    <3>1. CASE s = r
      BY <1>1, <1>2, <1>3, <2>1, <3>1
    <3>2. CASE s # r
      BY <1>1, <1>3, <2>1, <3>2 DEF FilesInv, DoomedIsNobodys
    <3>3. QED
      BY <3>1, <3>2
  <2>2. QED
    BY <2>1 DEF DoomedIsNobodys
<1>7. QED
  BY <1>4, <1>5, <1>6 DEF FilesInv

LEMMA InstallStep ==
  ASSUME FilesInv, TypeInv', NEW r \in Requests, Install(r)
  PROVE  FilesInv'
<1> DEFINE k == req[r].id
           new == req[r].new
           old == req[r].old
           gone == Superseded(k, old, new)
           row == [tx[k] EXCEPT !.file = new]
<1>1. /\ k \in Transactions /\ new \in Files
      /\ gone \in Files \cup {None} /\ RemoveThenEnd(r, gone)
      /\ \/ ~Present(k) /\ tx' = tx /\ gone = new
         \/ /\ Present(k) /\ gone = old /\ tx' = [tx EXCEPT ![k] = row]
            /\ row \in PresentRow /\ row.file = new
  BY InstallWrites DEF FilesInv
<1>2. req[r].op = "install" /\ Uploading(r) /\ Replacing(r) /\ file' = file
  BY DEF Install, Uploading, Replacing
<1>3. new # None
  BY <1>1, FileTypes DEF FilesInv
<1>4. /\ file[new] = "stored"
      /\ \A t \in Transactions : Attached(t) # new
      /\ \A s \in Requests : Uploading(s) /\ s # r => req[s].new # new
      /\ \A s \in Requests : Replacing(s) /\ req[s].old # None => req[s].old # new
      /\ \A s \in Requests : req[s].op = "removeFile" => req[s].target # new
  BY <1>2 DEF FilesInv, UploadIsUnknown, ReplacedIsNoOthers, DoomedIsNobodys
<1>5. old # None => /\ file[old] \in Written /\ old # new
                    /\ \A s \in Requests : Uploading(s) => req[s].new # old
                    /\ \A t \in Transactions : Attached(t) = old => t = k
  BY <1>2 DEF FilesInv, ReplacedIsNoOthers
<1> HIDE DEF k, new, old, row, gone
<1>6. CASE /\ Present(k) /\ gone = old /\ tx' = [tx EXCEPT ![k] = row]
           /\ row \in PresentRow /\ row.file = new
  <2>1. \A t \in Transactions : Attached(t)' = IF t = k THEN new ELSE Attached(t)
    BY <1>1, <1>6 DEF Attached, Present, PresentRow, FilesInv, TypeInv, TypeOK
  <2>2. FileHasOneOwner'
    BY <1>4, <2>1 DEF FilesInv, FileHasOneOwner
  <2>3. AttachedIsStored'
    BY <1>2, <1>4, <2>1 DEF FilesInv, AttachedIsStored
  <2>4. gone # None => /\ file[gone] \in Written
                       /\ \A t \in Transactions : Attached(t)' # gone
                       /\ \A s \in Requests : Uploading(s) /\ s # r => req[s].new # gone
    BY <1>5, <1>6, <2>1
  <2>5. \A s \in Requests, t \in Transactions : Uploading(s) /\ s # r =>
          Attached(t)' # req[s].new
    BY <1>4, <2>1 DEF FilesInv, UploadIsUnknown
  <2>6. \A s \in Requests, t \in Transactions :
          /\ Replacing(s) /\ s # r /\ req[s].old # None
          /\ Attached(t)' = req[s].old
          => t = req[s].id
    BY <1>4, <2>1 DEF FilesInv, ReplacedIsNoOthers
  <2>7. \A s \in Requests, t \in Transactions :
          req[s].op = "removeFile" /\ s # r => Attached(t)' # req[s].target
    BY <1>4, <2>1 DEF FilesInv, DoomedIsNobodys
  <2>8. QED
    BY <1>1, <1>2, <2>2, <2>3, <2>4, <2>5, <2>6, <2>7, DoomStep
<1>7. CASE tx' = tx /\ gone = new
  <2>1. \A t \in Transactions : Attached(t)' = Attached(t)
    BY <1>7 DEF Attached, Present
  <2>2. FileHasOneOwner' /\ AttachedIsStored'
    BY <1>2, <2>1 DEF FilesInv, FileHasOneOwner, AttachedIsStored
  <2>3. /\ file[gone] \in Written
        /\ \A t \in Transactions : Attached(t)' # gone
        /\ \A s \in Requests : Uploading(s) /\ s # r => req[s].new # gone
    BY <1>4, <1>7, <2>1 DEF Written
  <2>4. \A s \in Requests, t \in Transactions : Uploading(s) /\ s # r =>
          Attached(t)' # req[s].new
    BY <2>1 DEF FilesInv, UploadIsUnknown
  <2>5. \A s \in Requests, t \in Transactions :
          /\ Replacing(s) /\ s # r /\ req[s].old # None
          /\ Attached(t)' = req[s].old
          => t = req[s].id
    BY <2>1 DEF FilesInv, ReplacedIsNoOthers
  <2>6. \A s \in Requests, t \in Transactions :
          req[s].op = "removeFile" /\ s # r => Attached(t)' # req[s].target
    BY <2>1 DEF FilesInv, DoomedIsNobodys
  <2>7. QED
    BY <1>1, <1>2, <2>2, <2>3, <2>4, <2>5, <2>6, DoomStep
<1>8. QED
  BY <1>1, <1>6, <1>7

LEMMA RemoveWriteStep ==
  ASSUME FilesInv, TypeInv', NEW r \in Requests, RemoveWrite(r)
  PROVE  FilesInv'
<1> DEFINE k == req[r].id
           old == req[r].old
<1>1. /\ req[r].op = "remove" /\ Replacing(r) /\ file' = file
      /\ k \in Transactions /\ old \in Files \cup {None}
  BY RequestFields DEF RemoveWrite, Replacing, FilesInv, TypeInv, TypeOK
<1>2. CASE Present(k)
  <2>1. RemoveThenEnd(r, old) /\ tx' = [tx EXCEPT ![k] = [state |-> "deleted"]]
    BY <1>2 DEF RemoveWrite
  <2>2. \A t \in Transactions : Attached(t)' = IF t = k THEN None ELSE Attached(t)
    BY <2>1 DEF Attached, Present, FilesInv, TypeInv, TypeOK
  <2>3. \A s \in Requests : /\ Uploading(s) => req[s].new # None
                            /\ req[s].op = "removeFile" => req[s].target # None
    BY FileTypes DEF FilesInv
  <2>4. old # None => /\ file[old] \in Written
                      /\ \A s \in Requests : Uploading(s) => req[s].new # old
                      /\ \A t \in Transactions : Attached(t) = old => t = k
    BY <1>1 DEF FilesInv, ReplacedIsNoOthers
  <2> HIDE DEF k, old
  <2>5. FileHasOneOwner' /\ AttachedIsStored'
    BY <1>1, <2>2 DEF FilesInv, FileHasOneOwner, AttachedIsStored
  <2>6. old # None => /\ file[old] \in Written
                      /\ \A t \in Transactions : Attached(t)' # old
                      /\ \A s \in Requests : Uploading(s) /\ s # r => req[s].new # old
    BY <2>2, <2>4
  <2>7. \A s \in Requests, t \in Transactions : Uploading(s) /\ s # r =>
          Attached(t)' # req[s].new
    BY <2>2, <2>3 DEF FilesInv, UploadIsUnknown
  <2>8. \A s \in Requests, t \in Transactions :
          /\ Replacing(s) /\ s # r /\ req[s].old # None
          /\ Attached(t)' = req[s].old
          => t = req[s].id
    BY <2>2 DEF FilesInv, ReplacedIsNoOthers
  <2>9. \A s \in Requests, t \in Transactions :
          req[s].op = "removeFile" /\ s # r => Attached(t)' # req[s].target
    BY <2>2, <2>3 DEF FilesInv, DoomedIsNobodys
  <2>10. QED
    BY <1>1, <2>1, <2>5, <2>6, <2>7, <2>8, <2>9, DoomStep
<1>3. CASE ~Present(k)
  <2>1. tx' = tx /\ End(r)
    BY <1>3 DEF RemoveWrite
  <2>2. \A s \in Requests : req'[s] = IF s = r THEN Idle ELSE req[s]
    BY <2>1 DEF End, GoOn, FilesInv, TypeInv, TypeOK
  <2>3. \A t \in Transactions : Attached(t)' = Attached(t)
    BY <2>1 DEF Attached, Present
  <2>4. QED
    BY <1>1, <2>2, <2>3, QuietStep DEF Idle
<1>4. QED
  BY <1>2, <1>3

\* A file that is removed is in no row any more, so the foreign key has nothing to do.
LEMMA DoomedDetachesNothing ==
  ASSUME FilesInv, NEW r \in Requests, RemoveFileRow(r)
  PROVE  tx' = tx
<1>1. req[r].op = "removeFile" /\ req[r].target # None
  BY FileTypes DEF RemoveFileRow, FilesInv
<1>2. \A t \in Transactions : Attached(t) # req[r].target
  BY <1>1 DEF FilesInv, DoomedIsNobodys
<1>3. \A t \in Transactions : ~(Present(t) /\ tx[t].file = req[r].target)
  BY <1>2 DEF Attached
<1>4. CASE file[req[r].target] = "stored"
  <2>1. tx' = [t \in Transactions |->
                 IF Present(t) /\ tx[t].file = req[r].target
                 THEN [tx[t] EXCEPT !.file = None] ELSE tx[t]]
    BY <1>4 DEF RemoveFileRow
  <2>2. \A t \in Transactions : tx'[t] = tx[t]
    BY <1>3, <2>1
  <2>3. QED
    BY <2>1, <2>2 DEF FilesInv, TypeInv, TypeOK
<1>5. CASE file[req[r].target] # "stored"
  BY <1>5 DEF RemoveFileRow
<1>6. QED
  BY <1>4, <1>5

LEMMA RemoveFileRowStep ==
  ASSUME FilesInv, TypeInv', NEW r \in Requests, RemoveFileRow(r)
  PROVE  FilesInv'
<1> DEFINE f == req[r].target
           x == [op |-> "removeBytes", target |-> f]
<1>1. req[r].op = "removeFile" /\ f \in Files
  BY FileTypes DEF RemoveFileRow, FilesInv
<1>2. /\ \A t \in Transactions : Attached(t) # f
      /\ \A s \in Requests : Uploading(s) => req[s].new # f
  BY <1>1 DEF FilesInv, DoomedIsNobodys
<1>3. \A t \in Transactions : Attached(t)' = Attached(t)
  BY DoomedDetachesNothing DEF Attached, Present
<1>4. CASE file[f] = "stored"
  <2>1. file' = [file EXCEPT ![f] = "rowless"] /\ GoOn(r, x)
    BY <1>4 DEF RemoveFileRow, DeleteRow
  <2>2. x.op \in {"idle", "removeBytes"} /\ "rowless" \in Written
    BY DEF Written
  <2> HIDE DEF x, f
  <2>3. QED
    BY <1>1, <1>2, <1>3, <2>1, <2>2, DiscardingStep
<1>5. CASE file[f] # "stored"
  <2>1. file' = file /\ End(r)
    BY <1>5 DEF RemoveFileRow
  <2>2. \A s \in Requests : req'[s] = IF s = r THEN Idle ELSE req[s]
    BY <2>1 DEF End, GoOn, FilesInv, TypeInv, TypeOK
  <2>3. QED
    BY <1>3, <2>1, <2>2, QuietStep DEF Idle
<1>6. QED
  BY <1>4, <1>5

LEMMA FilesInit == Init => FilesInv
<1> SUFFICES ASSUME Init PROVE FilesInv
  OBVIOUS
<1>1. \A t \in Transactions : Attached(t) = None
  BY DEF Init, Attached, Present
<1>2. \A r \in Requests : req[r].op = "idle"
  BY DEF Init, Idle
<1>3. FileHasOneOwner /\ AttachedIsStored
  BY <1>1 DEF FileHasOneOwner, AttachedIsStored
<1>4. UploadIsUnknown /\ ReplacedIsNoOthers /\ DoomedIsNobodys
  BY <1>2 DEF UploadIsUnknown, ReplacedIsNoOthers, DoomedIsNobodys, Uploading, Replacing
<1>5. QED
  BY <1>3, <1>4, TypeInit DEF FilesInv

LEMMA FilesStep == FilesInv /\ [Next]_vars => FilesInv'
<1> SUFFICES ASSUME FilesInv, [Next]_vars PROVE FilesInv'
  OBVIOUS
<1>1. TypeInv /\ TypeInv'
  BY TypeStep DEF FilesInv
<1>2. CASE UNCHANGED <<tx, req, file>>
  <2>1. \A t \in Transactions : Attached(t)' = Attached(t)
    BY <1>2 DEF Attached, Present
  <2>2. QED
    BY <1>1, <1>2, <2>1, QuietStep
<1>3. ASSUME NEW r \in Requests, NEW x, GoOn(r, x), file' = file,
             \A t \in Transactions : Attached(t)' \in {Attached(t), None},
             x.op \in {"idle", "create", "update"}
      PROVE  FilesInv'
  <2>1. \A s \in Requests : req'[s] = IF s = r THEN x ELSE req[s]
    BY <1>1, <1>3 DEF GoOn, TypeInv, TypeOK
  <2>2. QED
    BY <1>1, <1>3, <2>1, QuietStep
<1>4. ASSUME NEW r \in Requests, NEW x, GoOn(r, x), UNCHANGED <<tx, file>>,
             x.op \in {"idle", "create", "update"}
      PROVE  FilesInv'
  <2>1. \A t \in Transactions : Attached(t)' = Attached(t)
    BY <1>4 DEF Attached, Present
  <2>2. QED
    BY <1>3, <1>4, <2>1
<1>5. ASSUME NEW r \in Requests, EditStep(r) PROVE FilesInv'
  <2>1. ASSUME NEW a \in Accountants, NEW m \in Months, NEW v \in Values,
               CreateRead(r, a, m, v)
        PROVE  FilesInv'
    BY <1>4, <2>1 DEF CreateRead, Begin
  <2>2. ASSUME NEW t \in Transactions, CreateWrite(r, t) PROVE FilesInv'
    <3>1. tx' = [tx EXCEPT ![t] = NewRow(req[r])] /\ GoOn(r, Idle) /\ file' = file
      BY <2>2 DEF CreateWrite, NewRow, End
    <3>2. \A u \in Transactions : Attached(u)' \in {Attached(u), None}
      BY <1>1, <3>1 DEF Attached, Present, NewRow, TypeInv, TypeOK
    <3>3. QED
      BY <1>3, <3>1, <3>2 DEF Idle
  <2>3. ASSUME NEW a \in Accountants, NEW t \in Transactions, NEW m \in Months \cup {None},
               NEW v \in Values \cup {None}, UpdateRead(r, a, t, m, v)
        PROVE  FilesInv'
    BY <1>4, <2>3 DEF UpdateRead, Begin
  <2>4. CASE UpdateWrite(r)
    <3>1. PICK q \in Request : q = req[r] /\ q.op = "update"
      BY <1>1, <2>4 DEF UpdateWrite, TypeInv, TypeOK
    <3>2. GoOn(r, Idle) /\ file' = file
      BY <2>4 DEF UpdateWrite, End
    <3>3. CASE tx' = tx
      BY <1>4, <3>2, <3>3 DEF Idle
    <3>4. CASE /\ Present(q.id)
               /\ tx' = [tx EXCEPT ![q.id] = EditedRow(tx[q.id], q)]
      <4>1. q.id \in Transactions
        BY <3>1, RequestFields
      <4>2. tx[q.id] \in PresentRow
        BY <1>1, <3>4, <4>1, RowFields DEF Present, TypeInv, TypeOK
      <4>3. PICK row \in PresentRow : row = EditedRow(tx[q.id], q) /\ row.file = tx[q.id].file
        BY <3>1, <4>2, EditedRowType
      <4>4. \A u \in Transactions : Attached(u)' = Attached(u)
        BY <1>1, <3>4, <4>1, <4>3 DEF Attached, Present, PresentRow, TypeInv, TypeOK
      <4>5. QED
        BY <1>3, <3>2, <4>4 DEF Idle
    <3>5. QED
      BY <1>1, <2>4, <3>1, <3>3, <3>4, UpdateWrites
  <2>5. ASSUME NEW a \in Accountants, NEW t \in Transactions, RemoveRead(r, a, t)
        PROVE  FilesInv'
    <3> DEFINE x == [op |-> "remove", id |-> t, old |-> tx[t].file]
    <3>1. GoOn(r, x) /\ UNCHANGED <<tx, file>>
      BY <2>5 DEF RemoveRead, Begin
    <3>2. x.op \in {"attach", "remove"} /\ x.id = t /\ x.old = Attached(t)
      BY <2>5 DEF RemoveRead, EditableByAccountant, Attached
    <3> HIDE DEF x
    <3>3. QED
      BY <1>1, <3>1, <3>2, RememberingStep
  <2>6. QED
    BY <1>1, <1>5, <2>1, <2>2, <2>3, <2>4, <2>5, RemoveWriteStep DEF EditStep
<1>6. ASSUME NEW r \in Requests, AttachStep(r) PROVE FilesInv'
  <2>1. ASSUME NEW a \in Accountants, NEW t \in Transactions, AttachRead(r, a, t)
        PROVE  FilesInv'
    <3> DEFINE x == [op |-> "attach", id |-> t, old |-> tx[t].file]
    <3>1. GoOn(r, x) /\ UNCHANGED <<tx, file>>
      BY <2>1 DEF AttachRead, Begin
    <3>2. x.op \in {"attach", "remove"} /\ x.id = t /\ x.old = Attached(t)
      BY <2>1 DEF AttachRead, EditableByAccountant, Attached
    <3> HIDE DEF x
    <3>3. QED
      BY <1>1, <3>1, <3>2, RememberingStep
  <2>2. CASE StoreFails(r)
    <3> DEFINE f == req[r].new
    <3>1. f \in Files /\ Uploading(r)
      BY <1>1, <2>2, FileTypes DEF StoreFails, Uploading
    <3>2. /\ \A t \in Transactions : Attached(t) # f
          /\ \A s \in Requests : Uploading(s) /\ s # r => req[s].new # f
      BY <3>1 DEF FilesInv, UploadIsUnknown
    <3>3. /\ GoOn(r, Idle) /\ Idle.op \in {"idle", "removeBytes"}
          /\ "gone" \in Written /\ file' = [file EXCEPT ![f] = "gone"]
      BY <2>2 DEF StoreFails, DropBytes, End, Idle, Written
    <3>4. \A t \in Transactions : Attached(t)' = Attached(t)
      BY <2>2 DEF StoreFails, Attached, Present
    <3> HIDE DEF f
    <3>5. QED
      BY <1>1, <3>1, <3>2, <3>3, <3>4, DiscardingStep
  <2>3. CASE RemoveFileBytes(r)
    <3> DEFINE f == req[r].target
    <3>1. f \in Files /\ file[f] = "rowless" /\ f # None
      BY <1>1, <2>3, RequestFields, AccountingAssumption
         DEF RemoveFileBytes, RemoveBytes, TypeInv, TypeOK
    <3>2. /\ \A t \in Transactions : Attached(t) # f
          /\ \A s \in Requests : Uploading(s) /\ s # r => req[s].new # f
      BY <3>1 DEF FilesInv, AttachedIsStored, UploadIsUnknown, Uploading
    <3>3. /\ GoOn(r, Idle) /\ Idle.op \in {"idle", "removeBytes"}
          /\ "gone" \in Written /\ file' = [file EXCEPT ![f] = "gone"]
      BY <2>3 DEF RemoveFileBytes, RemoveBytes, End, Idle, Written
    <3>4. \A t \in Transactions : Attached(t)' = Attached(t)
      BY <2>3 DEF RemoveFileBytes, Attached, Present
    <3> HIDE DEF f
    <3>5. QED
      BY <1>1, <3>1, <3>2, <3>3, <3>4, DiscardingStep
  <2>4. QED
    BY <1>1, <1>6, <2>1, <2>2, <2>3, StoreBytesStep, StoreRowStep, InstallStep,
       RemoveFileRowStep DEF AttachStep
<1>7. ASSUME NEW r \in Requests, Abandon(r) PROVE FilesInv'
  BY <1>4, <1>7 DEF Abandon, End, Idle
<1>8. CASE NewMonth \/ \E m \in Months : ClosePeriod(m)
  BY <1>2, <1>8 DEF NewMonth, ClosePeriod
<1>9. CASE UNCHANGED vars
  BY <1>2, <1>9 DEF vars
<1>10. QED
  BY <1>5, <1>6, <1>7, <1>8, <1>9 DEF Next, Step

\* A transaction that stays keeps an attachment.
LEMMA PointerStays ==
  ASSUME FilesInv, [Next]_vars, NEW t \in Transactions, Attached(t) # None,
         tx'[t].state = "present"
  PROVE  Attached(t)' # None
<1>1. TypeInv
  BY DEF FilesInv
<1>2. Present(t) /\ tx[t].file # None /\ tx[t] \in PresentRow
  BY <1>1, RowFields DEF Attached, Present, TypeInv, TypeOK
<1>3. CASE tx' = tx
  BY <1>2, <1>3 DEF Attached, Present
<1>4. ASSUME NEW r \in Requests, NEW u \in Transactions, CreateWrite(r, u)
      PROVE  Attached(t)' # None
  <2>1. tx' = [tx EXCEPT ![u] = NewRow(req[r])] /\ u # t
    BY <1>2, <1>4 DEF CreateWrite, NewRow, Present
  <2>2. tx'[t] = tx[t]
    BY <1>1, <2>1 DEF TypeInv, TypeOK
  <2>3. QED
    BY <1>2, <2>2 DEF Attached, Present
<1>5. ASSUME NEW r \in Requests, UpdateWrite(r) PROVE Attached(t)' # None
  <2>1. PICK q \in Request : q = req[r] /\ q.op = "update"
    BY <1>1, <1>5 DEF UpdateWrite, TypeInv, TypeOK
  <2>2. CASE tx' = [tx EXCEPT ![q.id] = EditedRow(tx[q.id], q)] /\ q.id = t
    <3>1. PICK row \in PresentRow : row = EditedRow(tx[t], q) /\ row.file = tx[t].file
      BY <1>2, <2>1, EditedRowType
    <3>2. tx'[t] = row
      BY <1>1, <2>2, <3>1 DEF TypeInv, TypeOK
    <3>3. QED
      BY <1>2, <3>1, <3>2 DEF Attached, Present
  <2>3. CASE tx'[t] = tx[t]
    BY <1>2, <2>3 DEF Attached, Present
  <2>4. tx'[t] = tx[t] \/ (tx' = [tx EXCEPT ![q.id] = EditedRow(tx[q.id], q)] /\ q.id = t)
    <3>1. \/ tx' = tx
          \/ tx' = [tx EXCEPT ![q.id] = EditedRow(tx[q.id], q)]
      BY <1>1, <1>5, <2>1, UpdateWrites
    <3>2. QED
      BY <1>1, <3>1 DEF TypeInv, TypeOK
  <2>5. QED
    BY <2>2, <2>3, <2>4
<1>6. ASSUME NEW r \in Requests, RemoveWrite(r) PROVE Attached(t)' # None
  <2>1. \/ tx' = tx
        \/ tx' = [tx EXCEPT ![req[r].id] = [state |-> "deleted"]]
    BY <1>6 DEF RemoveWrite
  <2>2. tx'[t] = tx[t]
    <3>1. [state |-> "deleted"].state # "present"
      OBVIOUS
    <3>2. QED
      BY <1>1, <2>1, <3>1 DEF TypeInv, TypeOK
  <2>3. QED
    BY <1>2, <2>2 DEF Attached, Present
<1>7. ASSUME NEW r \in Requests, Install(r) PROVE Attached(t)' # None
  <2> DEFINE k == req[r].id
             row == [tx[k] EXCEPT !.file = req[r].new]
  <2>1. /\ k \in Transactions /\ req[r].new \in Files
        /\ \/ tx' = tx
           \/ tx' = [tx EXCEPT ![k] = row] /\ row.file = req[r].new /\ row \in PresentRow
    BY <1>1, <1>7, InstallWrites
  <2>2. req[r].new # None
    BY <1>1, <2>1, FileTypes
  <2> HIDE DEF k, row
  <2>3. tx'[t] = tx[t] \/ (tx'[t] = row /\ row.file # None /\ row \in PresentRow)
    BY <1>1, <2>1, <2>2 DEF TypeInv, TypeOK
  <2>4. QED
    BY <1>2, <2>3 DEF Attached, Present, PresentRow
<1>8. ASSUME NEW r \in Requests, RemoveFileRow(r) PROVE Attached(t)' # None
  BY <1>3, <1>8, DoomedDetachesNothing
<1>9. QED
  BY <1>3, <1>4, <1>5, <1>6, <1>7, <1>8
     DEF Next, Step, vars, EditStep, AttachStep, NewMonth, ClosePeriod, Begin, CreateRead,
         UpdateRead, RemoveRead, AttachRead, StoreBytes, StoreRow, StoreFails,
         RemoveFileBytes, Abandon

\* An attachment can be read, row and bytes, for as long as its transaction has it, and
\* goes only with the transaction or for another one (attach, remove,
\* FileStorageService.remove).
THEOREM AttachmentsAreKept == Spec => AttachmentIsNeverLost
<1>1. ASSUME FilesInv, [Next]_vars
      PROVE  \A t \in Transactions :
               Present(t) /\ tx[t].file # None /\ tx'[t].state = "present" =>
                 tx'[t].file # None /\ file'[tx'[t].file] = "stored"
  <2>1. FilesInv'
    BY <1>1, FilesStep
  <2>2. ASSUME NEW t \in Transactions, Present(t), tx[t].file # None, tx'[t].state = "present"
        PROVE  tx'[t].file # None /\ file'[tx'[t].file] = "stored"
    <3>1. Attached(t) # None
      BY <2>2 DEF Attached
    <3>2. Attached(t)' # None
      BY <1>1, <2>2, <3>1, PointerStays
    <3>3. Attached(t)' = tx'[t].file
      BY <2>2 DEF Attached, Present
    <3>4. QED
      BY <2>1, <3>2, <3>3 DEF FilesInv, AttachedIsStored
  <2>3. QED
    BY <2>2
<1>2. QED
  BY <1>1, FilesInit, FilesStep, PTL DEF Spec, AttachmentIsNeverLost

-----------------------------------------------------------------------------
(***************************************************************************)
(* Why a closed month settles.  A handler in flight writes to no month     *)
(* that was closed when there was last no handler in flight: it has begun  *)
(* after that, has found its months open, and a month that is open then is *)
(* not settled before the handler ends.                                    *)
(***************************************************************************)
Follows(x) == x.op \in {"update", "remove", "attach", "store", "install"}

SparesSettled(x) ==
  /\ x.op = "create" => x.month \notin settled
  /\ x.op = "update" /\ x.month # None => x.month \notin settled
  /\ Follows(x) /\ Present(x.id) => tx[x.id].month \notin settled

BooksInv ==
  /\ FilesInv
  /\ \A r \in Requests : SparesSettled(req[r])

\* A row that changes is not in a settled month, neither before nor after.
RowsSpareSettled ==
  \A t \in Transactions :
    \/ tx'[t] = tx[t]
    \/ /\ Present(t) => tx[t].month \notin settled
       /\ Present(t)' => tx'[t].month \notin settled

LEMMA RowsStep ==
  ASSUME BooksInv, [Next]_vars PROVE RowsSpareSettled
<1>1. FilesInv /\ TypeInv
  BY DEF BooksInv, FilesInv
<1>2. CASE tx' = tx
  BY <1>2 DEF RowsSpareSettled
<1>3. ASSUME NEW r \in Requests, NEW t \in Transactions, CreateWrite(r, t)
      PROVE  RowsSpareSettled
  <2>1. /\ tx' = [tx EXCEPT ![t] = NewRow(req[r])] /\ ~Present(t)
        /\ req[r].month \notin settled
    BY <1>3 DEF CreateWrite, NewRow, Present, BooksInv, SparesSettled
  <2>2. NewRow(req[r]).month = req[r].month
    BY DEF NewRow
  <2>3. QED
    BY <1>1, <2>1, <2>2 DEF RowsSpareSettled, TypeInv, TypeOK
<1>4. ASSUME NEW r \in Requests, UpdateWrite(r) PROVE RowsSpareSettled
  <2>1. PICK q \in Request : q = req[r] /\ q.op = "update"
    BY <1>1, <1>4 DEF UpdateWrite, TypeInv, TypeOK
  <2>2. CASE /\ Present(q.id)
             /\ tx' = [tx EXCEPT ![q.id] = EditedRow(tx[q.id], q)]
    <3>1. q.id \in Transactions
      BY <2>1, RequestFields
    <3>2. tx[q.id] \in PresentRow
      BY <1>1, <2>2, <3>1, RowFields DEF Present, TypeInv, TypeOK
    <3>3. PICK row \in PresentRow :
            /\ row = EditedRow(tx[q.id], q)
            /\ row.month = IF q.month = None THEN tx[q.id].month ELSE q.month
      BY <2>1, <3>2, EditedRowType
    <3>4. tx[q.id].month \notin settled /\ (q.month # None => q.month \notin settled)
      BY <2>1, <2>2 DEF BooksInv, SparesSettled, Follows
    <3>5. QED
      BY <1>1, <2>2, <3>1, <3>3, <3>4 DEF RowsSpareSettled, TypeInv, TypeOK
  <2>3. QED
    BY <1>1, <1>2, <1>4, <2>1, <2>2, UpdateWrites
<1>5. ASSUME NEW r \in Requests, RemoveWrite(r) PROVE RowsSpareSettled
  <2>1. CASE /\ Present(req[r].id)
             /\ tx' = [tx EXCEPT ![req[r].id] = [state |-> "deleted"]]
    <3>1. tx[req[r].id].month \notin settled
      BY <1>5, <2>1 DEF RemoveWrite, BooksInv, SparesSettled, Follows
    <3>2. QED
      BY <1>1, <2>1, <3>1 DEF RowsSpareSettled, Present, TypeInv, TypeOK
  <2>2. QED
    BY <1>2, <1>5, <2>1 DEF RemoveWrite
<1>6. ASSUME NEW r \in Requests, Install(r) PROVE RowsSpareSettled
  <2> DEFINE k == req[r].id
             row == [tx[k] EXCEPT !.file = req[r].new]
  <2>1. \/ tx' = tx
        \/ Present(k) /\ tx' = [tx EXCEPT ![k] = row] /\ row.month = tx[k].month
    BY <1>1, <1>6, InstallWrites
  <2>2. Present(k) => tx[k].month \notin settled
    BY <1>6 DEF Install, BooksInv, SparesSettled, Follows
  <2> HIDE DEF k, row
  <2>3. QED
    BY <1>1, <1>2, <2>1, <2>2 DEF RowsSpareSettled, TypeInv, TypeOK
<1>7. ASSUME NEW r \in Requests, RemoveFileRow(r) PROVE RowsSpareSettled
  BY <1>1, <1>2, <1>7, DoomedDetachesNothing
<1>8. QED
  BY <1>2, <1>3, <1>4, <1>5, <1>6, <1>7
     DEF Next, Step, vars, EditStep, AttachStep, NewMonth, ClosePeriod, Begin, CreateRead,
         UpdateRead, RemoveRead, AttachRead, StoreBytes, StoreRow, StoreFails,
         RemoveFileBytes, Abandon

\* A handler that begins has found its months open.
FindsOpen(x) ==
  /\ x.op = "create" => x.month \notin closed
  /\ x.op = "update" /\ x.month # None => x.month \notin closed
  /\ Follows(x) => Present(x.id) /\ tx[x.id].month \notin closed

Ends(x) == x.op \in {"idle", "removeFile", "removeBytes"}

LEMMA RequestStep ==
  ASSUME FilesInv, Step, NEW r \in Requests
  PROVE  \/ req'[r] = req[r]
         \/ Ends(req'[r])
         \/ tx' = tx /\ FindsOpen(req'[r])
         \/ /\ tx' = tx /\ req[r].op \in {"attach", "store"}
            /\ req'[r].op \in {"store", "install"} /\ req'[r].id = req[r].id
<1> DEFINE Right == \/ req'[r] = req[r]
                    \/ Ends(req'[r])
                    \/ tx' = tx /\ FindsOpen(req'[r])
                    \/ /\ tx' = tx /\ req[r].op \in {"attach", "store"}
                       /\ req'[r].op \in {"store", "install"} /\ req'[r].id = req[r].id
<1> SUFFICES Right
  OBVIOUS
<1>1. req \in [Requests -> Request]
  BY DEF FilesInv, TypeInv, TypeOK
<1>2. ASSUME NEW s \in Requests, NEW x, GoOn(s, x)
      PROVE  req'[r] = IF r = s THEN x ELSE req[r]
  BY <1>1, <1>2 DEF GoOn
<1>3. ASSUME NEW s \in Requests, NEW f, RemoveThenEnd(s, f) PROVE Right
  <2> DEFINE x == IF f = None THEN Idle ELSE [op |-> "removeFile", target |-> f]
  <2>1. GoOn(s, x) /\ Ends(x)
    BY <1>3 DEF RemoveThenEnd, End, Ends, Idle
  <2> HIDE DEF x
  <2>2. QED
    BY <1>2, <2>1
<1>4. ASSUME NEW s \in Requests, End(s) PROVE Right
  BY <1>2, <1>4 DEF End, Ends, Idle
<1>5. ASSUME NEW s \in Requests, NEW x, Begin(s, x), FindsOpen(x) PROVE Right
  BY <1>2, <1>5 DEF Begin
<1>6. ASSUME NEW s \in Requests, EditStep(s) PROVE Right
  <2>1. ASSUME NEW a \in Accountants, NEW m \in Months, NEW v \in Values,
               CreateRead(s, a, m, v)
        PROVE  Right
    <3> DEFINE x == [op |-> "create", actor |-> a, month |-> m, value |-> v]
    <3>1. Begin(s, x) /\ FindsOpen(x)
      BY <2>1 DEF CreateRead, MayBeDated, FindsOpen, Follows
    <3> HIDE DEF x, Right
    <3>2. QED
      BY <1>5, <3>1
  <2>2. ASSUME NEW a \in Accountants, NEW t \in Transactions, NEW m \in Months \cup {None},
               NEW v \in Values \cup {None}, UpdateRead(s, a, t, m, v)
        PROVE  Right
    <3> DEFINE x == [op |-> "update", id |-> t, month |-> m, value |-> v]
    <3>1. Begin(s, x) /\ FindsOpen(x)
      BY <2>2 DEF UpdateRead, EditableByAccountant, MayBeDated, FindsOpen, Follows
    <3> HIDE DEF x, Right
    <3>2. QED
      BY <1>5, <3>1
  <2>3. ASSUME NEW a \in Accountants, NEW t \in Transactions, RemoveRead(s, a, t)
        PROVE  Right
    <3> DEFINE x == [op |-> "remove", id |-> t, old |-> tx[t].file]
    <3>1. Begin(s, x) /\ FindsOpen(x)
      BY <2>3 DEF RemoveRead, EditableByAccountant, FindsOpen, Follows
    <3> HIDE DEF x, Right
    <3>2. QED
      BY <1>5, <3>1
  <2> HIDE DEF Right
  <2>4. QED
    BY <1>3, <1>4, <1>6, <2>1, <2>2, <2>3 DEF EditStep, CreateWrite, UpdateWrite, RemoveWrite
<1>7. ASSUME NEW s \in Requests, AttachStep(s) PROVE Right
  <2>1. ASSUME NEW a \in Accountants, NEW t \in Transactions, AttachRead(s, a, t)
        PROVE  Right
    <3> DEFINE x == [op |-> "attach", id |-> t, old |-> tx[t].file]
    <3>1. Begin(s, x) /\ FindsOpen(x)
      BY <2>1 DEF AttachRead, EditableByAccountant, FindsOpen, Follows
    <3> HIDE DEF x, Right
    <3>2. QED
      BY <1>5, <3>1
  <2>2. ASSUME NEW f \in Files, StoreBytes(s, f) PROVE Right
    BY <1>2, <2>2 DEF StoreBytes
  <2>3. CASE StoreRow(s)
    <3>1. req[s] \in [op: {"store", "install"}, id: Transactions, old: Files \cup {None},
                      new: Files]
      BY <1>1, <2>3 DEF StoreRow, Request, Idle
    <3> DEFINE x == [req[s] EXCEPT !.op = "install"]
    <3>2. x.op = "install" /\ x.id = req[s].id
      BY <3>1
    <3>3. GoOn(s, x) /\ tx' = tx /\ req[s].op = "store"
      BY <2>3 DEF StoreRow
    <3> HIDE DEF x
    <3>4. QED
      BY <1>2, <3>2, <3>3
  <2>4. CASE RemoveFileRow(s)
    <3>1. End(s) \/ GoOn(s, [op |-> "removeBytes", target |-> req[s].target])
      BY <2>4 DEF RemoveFileRow
    <3>2. QED
      BY <1>2, <1>4, <3>1 DEF Ends
  <2> HIDE DEF Right
  <2>5. QED
    BY <1>3, <1>4, <1>7, <2>1, <2>2, <2>3, <2>4
       DEF AttachStep, StoreFails, Install, RemoveFileBytes
<1>8. CASE req' = req
  BY <1>8
<1> HIDE DEF Right
<1>9. QED
  BY <1>4, <1>6, <1>7, <1>8 DEF Step, NewMonth, ClosePeriod, Abandon

LEMMA BooksInit == Init => BooksInv
<1> SUFFICES ASSUME Init PROVE BooksInv
  OBVIOUS
<1>1. \A r \in Requests : req[r].op = "idle"
  BY DEF Init, Idle
<1>2. QED
  BY <1>1, FilesInit DEF BooksInv, SparesSettled, Follows

LEMMA BooksStep == BooksInv /\ [Next]_vars => BooksInv'
<1> SUFFICES ASSUME BooksInv, [Next]_vars PROVE BooksInv'
  OBVIOUS
<1>1. FilesInv /\ FilesInv'
  BY FilesStep DEF BooksInv
<1>2. CASE UNCHANGED vars
  BY <1>1, <1>2 DEF vars, BooksInv, SparesSettled, Follows, Present
<1>3. ASSUME Next, NEW r \in Requests PROVE SparesSettled(req[r])'
  <2>1. \/ req'[r] = req[r]
        \/ Ends(req'[r])
        \/ tx' = tx /\ FindsOpen(req'[r])
        \/ /\ tx' = tx /\ req[r].op \in {"attach", "store"}
           /\ req'[r].op \in {"store", "install"} /\ req'[r].id = req[r].id
    BY <1>1, <1>3, RequestStep DEF Next
  <2>2. SparesSettled(req[r])
    BY DEF BooksInv
  <2>3. settled \subseteq closed
    BY <1>1 DEF FilesInv, TypeInv, TypeOK
  <2>4. CASE Quiet
    <3>1. settled' = closed /\ req[r].op = "idle"
      BY <1>3, <2>4 DEF Next, Quiet, Idle
    <3>2. QED
      BY <2>1, <3>1 DEF SparesSettled, FindsOpen, Ends, Follows, Present
  <2>5. CASE ~Quiet
    <3>1. settled' = settled
      BY <1>3, <2>5 DEF Next
    <3>2. CASE req'[r] = req[r]
      <4>1. Follows(req[r]) => req[r].id \in Transactions
        BY <1>1, RequestFields DEF Follows, FilesInv, TypeInv, TypeOK
      <4>2. RowsSpareSettled
        BY RowsStep
      <4>3. QED
        BY <2>2, <3>1, <3>2, <4>1, <4>2 DEF SparesSettled, RowsSpareSettled, Present
    <3>3. CASE Ends(req'[r])
      BY <3>3 DEF SparesSettled, Ends, Follows
    <3>4. CASE tx' = tx /\ FindsOpen(req'[r])
      BY <2>3, <3>1, <3>4 DEF SparesSettled, FindsOpen, Follows, Present
    <3>5. CASE /\ tx' = tx /\ req[r].op \in {"attach", "store"}
               /\ req'[r].op \in {"store", "install"} /\ req'[r].id = req[r].id
      BY <2>2, <3>1, <3>5 DEF SparesSettled, Follows, Present
    <3>6. QED
      BY <2>1, <3>2, <3>3, <3>4, <3>5
  <2>6. QED
    BY <2>4, <2>5
<1>4. QED
  BY <1>1, <1>2, <1>3 DEF BooksInv

\* Whatever handlers were in flight when a month was closed, from the first moment
\* without any on its transactions stay as they are (create, update, remove, attach,
\* closePeriod).
THEOREM ClosedBooksStay == Spec => ClosedMonthSettles
<1>1. ASSUME BooksInv, [Next]_vars
      PROVE  \A m \in settled : Of(m)' = Of(m) /\ \A t \in Of(m) : tx'[t] = tx[t]
  <2>1. RowsSpareSettled
    BY <1>1, RowsStep
  <2>2. ASSUME NEW m \in settled, NEW t \in Transactions
        PROVE  /\ (t \in Of(m))' <=> t \in Of(m)
               /\ t \in Of(m) => tx'[t] = tx[t]
    BY <2>1, <2>2 DEF RowsSpareSettled, Of, Present
  <2>3. ASSUME NEW m \in settled PROVE Of(m)' = Of(m)
    <3>1. Of(m) \subseteq Transactions /\ Of(m)' \subseteq Transactions
      BY DEF Of
    <3>2. \A t \in Transactions : t \in Of(m)' <=> t \in Of(m)
      BY <2>2, <2>3
    <3>3. QED
      BY <3>1, <3>2
  <2>4. ASSUME NEW m \in settled, NEW t \in Of(m) PROVE tx'[t] = tx[t]
    BY <2>2, <2>4 DEF Of
  <2>5. QED
    BY <2>3, <2>4
<1>2. QED
  BY <1>1, BooksInit, BooksStep, PTL DEF Spec, ClosedMonthSettles

-----------------------------------------------------------------------------
(***************************************************************************)
(* Backups.  The rows of an export are of one moment, and at that moment   *)
(* every attachment has its row; the bytes follow row by row.  A file that *)
(* is listed as missing has not been read, or it is gone for good and then *)
(* no transaction has it.  The rows of the target are written once: a      *)
(* restore that has written its rows is alone with the target.             *)
(***************************************************************************)
LEMMA RowsAreNotNone == ASSUME NEW rows \in Rows PROVE rows # None
BY BackupAssumption

LEMMA RestoreFields ==
  ASSUME NEW s \in Restore, s.op # "idle"
  PROVE  /\ s.archive \in Archive
         /\ s.op \in {"check", "insert", "write", "done"}
         /\ s.op = "write" => s \in [op: {"write"}, archive: Archive, left: SUBSET Files]
BY DEF Restore, Idle

\* A file that was once described by a row.
WasStored(f) == file[f] \in Written

Gone(f) == file[f] = "gone"

ExportAccounts ==
  export # Idle =>
    /\ AttachmentsIn(export.rows) \subseteq export.left \cup export.data \cup export.missing
    /\ \A f \in export.left : WasStored(f)
    /\ \A f \in export.missing \ export.unread : Gone(f)

ArchivesAccount ==
  \A a \in archives :
    /\ AttachmentsIn(a.rows) \subseteq a.data \cup a.missing
    /\ \A f \in a.missing \ a.unread : Gone(f)

RestoresFollow ==
  \A x \in Restores : restore[x].op # "idle" =>
    /\ restore[x].archive \in archives
    /\ restore[x].op \in {"write", "done"} => targetRows = restore[x].archive.rows
    /\ restore[x].op = "write" => restore[x].archive.data \subseteq targetFiles \cup restore[x].left
    /\ restore[x].op = "done" => restore[x].archive.data \subseteq targetFiles

BackupInv ==
  /\ FilesInv
  /\ BackupTypeOK
  /\ ExportAccounts
  /\ ArchivesAccount
  /\ RestoresFollow

LEMMA BackupInitInv == BackupInit => BackupInv
<1> SUFFICES ASSUME BackupInit PROVE BackupInv
  OBVIOUS
<1>1. FilesInv
  BY FilesInit DEF BackupInit
<1>2. BackupTypeOK
  BY MaxExportsAssumption DEF BackupInit, BackupTypeOK, Export, Restore
<1>3. ExportAccounts /\ ArchivesAccount
  BY DEF BackupInit, ExportAccounts, ArchivesAccount
<1>4. RestoresFollow
  BY DEF BackupInit, RestoresFollow, Idle
<1>5. QED
  BY <1>1, <1>2, <1>3, <1>4 DEF BackupInv

\* A file that was stored stays so or goes on, and a file that is gone stays gone.
LEMMA FilesOnlyGoOn ==
  ASSUME TypeInv, [Next]_vars, NEW f \in Files
  PROVE  (WasStored(f) => WasStored(f)') /\ (Gone(f) => Gone(f)')
<1>1. file \in [Files -> FileState]
  BY DEF TypeInv, TypeOK
<1>2. CASE file' = file
  BY <1>2 DEF WasStored, Gone
<1>3. ASSUME NEW g \in Files, WriteBytes(g) \/ CreateRow(g) \/ DropBytes(g) \/ DeleteRow(g) \/ RemoveBytes(g)
      PROVE  (WasStored(f) => WasStored(f)') /\ (Gone(f) => Gone(f)')
  BY <1>1, <1>3 DEF WriteBytes, CreateRow, DropBytes, DeleteRow, RemoveBytes, WasStored, Gone, Written
<1>4. ASSUME NEW r \in Requests, AttachStep(r)
      PROVE  file' = file \/ \E g \in Files : WriteBytes(g) \/ CreateRow(g) \/ DropBytes(g) \/ DeleteRow(g) \/ RemoveBytes(g)
  <2>1. req[r] \in Request
    BY DEF TypeInv, TypeOK
  <2>2. QED
    BY <1>4, <2>1, RequestFields
       DEF AttachStep, AttachRead, Begin, StoreBytes, StoreRow, StoreFails, Install,
           RemoveFileRow, RemoveFileBytes
<1>5. ASSUME NEW r \in Requests, EditStep(r) \/ Abandon(r) PROVE file' = file
  BY <1>5 DEF EditStep, Begin, CreateRead, CreateWrite, UpdateRead, UpdateWrite, RemoveRead,
              RemoveWrite, Abandon
<1>6. QED
  BY <1>2, <1>3, <1>4, <1>5 DEF Next, Step, NewMonth, ClosePeriod, vars

\* The handlers of the application go on beside the export and the restores.
LEMMA HandlersBesideBackups ==
  ASSUME BackupInv, [Next]_vars, UNCHANGED backupVars
  PROVE  BackupInv'
<1>1. FilesInv' /\ TypeInv
  BY FilesStep DEF BackupInv, FilesInv
<1>2. UNCHANGED <<exports, export, archives, targetRows, targetFiles, restore>>
  BY DEF backupVars
<1>3. \A f \in Files : (WasStored(f) => WasStored(f)') /\ (Gone(f) => Gone(f)')
  BY <1>1, FilesOnlyGoOn
<1>4. BackupTypeOK'
  BY <1>2 DEF BackupInv, BackupTypeOK
<1>5. ExportAccounts'
  <2>1. export # Idle => export.left \subseteq Files /\ export.missing \subseteq Files
    BY DEF BackupInv, BackupTypeOK, Export
  <2>2. QED
    BY <1>2, <1>3, <2>1 DEF BackupInv, ExportAccounts, AttachmentsIn
<1>6. ArchivesAccount'
  <2>1. \A a \in archives : a.missing \subseteq Files
    BY DEF BackupInv, BackupTypeOK, Archive
  <2>2. QED
    BY <1>2, <1>3, <2>1 DEF BackupInv, ArchivesAccount, AttachmentsIn
<1>7. RestoresFollow'
  BY <1>2 DEF BackupInv, RestoresFollow
<1>8. QED
  BY <1>1, <1>4, <1>5, <1>6, <1>7 DEF BackupInv

LEMMA ExportFields ==
  ASSUME BackupTypeOK, export # Idle
  PROVE  export \in [op: {"files"}, rows: Rows, left: SUBSET Files, data: SUBSET Files,
                     missing: SUBSET Files, unread: SUBSET Files]
BY DEF BackupTypeOK, Export

\* What the transaction of an export has read.
LEMMA ExportReadStep ==
  ASSUME BackupInv, UNCHANGED vars, ExportRead PROVE BackupInv'
<1> DEFINE stored == {f \in Files : file[f] = "stored"}
           e == [op |-> "files", rows |-> [tx |-> tx, stored |-> stored],
                 left |-> stored, data |-> {}, missing |-> {}, unread |-> {}]
<1>1. /\ export' = e /\ exports' = exports + 1 /\ exports < MaxExports
      /\ UNCHANGED <<archives, targetRows, targetFiles, restore>>
  BY DEF ExportRead
<1>2. e \in Export
  BY DEF Export, Rows, BackupInv, FilesInv, TypeInv, TypeOK
<1>3. AttachmentsIn(e.rows) \subseteq stored
  <2>1. ASSUME NEW f \in AttachmentsIn(e.rows) PROVE f \in stored
    <3>1. PICK t \in Transactions : tx[t].state = "present" /\ f = tx[t].file /\ f # None
      BY <2>1 DEF AttachmentsIn
    <3>2. Attached(t) = f
      BY <3>1 DEF Attached, Present
    <3>3. f \in Files
      BY <3>1, <3>2, FileTypes DEF BackupInv, FilesInv
    <3>4. QED
      BY <3>1, <3>2, <3>3 DEF BackupInv, FilesInv, AttachedIsStored
  <2>2. QED
    BY <2>1
<1>4. (e.left = stored) /\ (e.data = {}) /\ (e.missing = {}) /\ (\A f \in stored : file[f] \in Written)
  BY DEF Written
<1> HIDE DEF e, stored
<1>5. FilesInv'
  BY FilesStep DEF BackupInv
<1>6. BackupTypeOK'
  BY <1>1, <1>2, MaxExportsAssumption DEF BackupInv, BackupTypeOK
<1>7. ExportAccounts'
  BY <1>1, <1>3, <1>4 DEF ExportAccounts, AttachmentsIn, WasStored, vars
<1>8. ArchivesAccount' /\ RestoresFollow'
  BY <1>1 DEF BackupInv, ArchivesAccount, RestoresFollow, AttachmentsIn, Gone, vars
<1>9. QED
  BY <1>5, <1>6, <1>7, <1>8 DEF BackupInv

LEMMA ExportFileStep ==
  ASSUME BackupInv, UNCHANGED vars, NEW f \in Files, ExportFile(f) PROVE BackupInv'
<1>1. /\ export # Idle /\ f \in export.left
      /\ UNCHANGED <<exports, archives, targetRows, targetFiles, restore>>
  BY DEF ExportFile
<1>2. export \in [op: {"files"}, rows: Rows, left: SUBSET Files, data: SUBSET Files,
                  missing: SUBSET Files, unread: SUBSET Files]
  BY <1>1, ExportFields DEF BackupInv
<1>3. /\ export' \in [op: {"files"}, rows: Rows, left: SUBSET Files, data: SUBSET Files,
                      missing: SUBSET Files, unread: SUBSET Files]
      /\ export'.rows = export.rows /\ export'.left = export.left \ {f}
      /\ f \in export'.data \cup export'.missing
      /\ export.data \subseteq export'.data /\ export.missing \subseteq export'.missing
      /\ export'.missing \ export'.unread
           \subseteq (export.missing \ export.unread) \cup {g \in {f} : ~OnDisk(g)}
  <2>1. CASE export' = [export EXCEPT !.left = @ \ {f}, !.data = @ \cup {f}]
    BY <1>1, <1>2, <2>1
  <2>2. CASE export' = [export EXCEPT !.left = @ \ {f}, !.missing = @ \cup {f},
                                      !.unread = IF OnDisk(f) THEN @ \cup {f} ELSE @]
    <3> DEFINE unread == IF OnDisk(f) THEN export.unread \cup {f} ELSE export.unread
    <3>1. /\ unread \in SUBSET Files /\ export.unread \subseteq unread
          /\ OnDisk(f) => f \in unread
      BY <1>2
    <3>2. export' = [export EXCEPT !.left = @ \ {f}, !.missing = @ \cup {f}, !.unread = unread]
      BY <1>2, <2>2
    <3> HIDE DEF unread
    <3>3. QED
      BY <1>1, <1>2, <3>1, <3>2
  <2>3. QED
    BY <2>1, <2>2 DEF ExportFile
<1>4. ~OnDisk(f) => Gone(f)
  BY <1>1 DEF BackupInv, ExportAccounts, WasStored, Written, OnDisk, Gone
<1>5. FilesInv'
  BY FilesStep DEF BackupInv
<1>6. BackupTypeOK'
  BY <1>1, <1>3 DEF BackupInv, BackupTypeOK, Export
<1>7. ExportAccounts'
  BY <1>1, <1>3, <1>4 DEF BackupInv, ExportAccounts, AttachmentsIn, WasStored, Gone, vars
<1>8. ArchivesAccount' /\ RestoresFollow'
  BY <1>1 DEF BackupInv, ArchivesAccount, RestoresFollow, AttachmentsIn, Gone, vars
<1>9. QED
  BY <1>5, <1>6, <1>7, <1>8 DEF BackupInv

\* A backup is handed out when no file is left, or never.
LEMMA ExportEndStep ==
  ASSUME BackupInv, UNCHANGED vars, ExportEnd \/ ExportFail PROVE BackupInv'
<1> DEFINE a == [rows |-> export.rows, data |-> export.data, missing |-> export.missing,
                 unread |-> export.unread]
<1>1. /\ export # Idle /\ export' = Idle
      /\ UNCHANGED <<exports, targetRows, targetFiles, restore>>
  BY DEF ExportEnd, ExportFail
<1>2. \/ archives' = archives
      \/ export.left = {} /\ archives' = archives \cup {a}
  BY DEF ExportEnd, ExportFail
<1>3. export \in [op: {"files"}, rows: Rows, left: SUBSET Files, data: SUBSET Files,
                  missing: SUBSET Files, unread: SUBSET Files]
  BY <1>1, ExportFields DEF BackupInv
<1>4. /\ a \in Archive
      /\ a.rows = export.rows /\ a.data = export.data /\ a.missing = export.missing
      /\ a.unread = export.unread
  BY <1>3 DEF Archive
<1> HIDE DEF a
<1>5. FilesInv'
  BY FilesStep DEF BackupInv
<1>6. BackupTypeOK'
  BY <1>1, <1>2, <1>4 DEF BackupInv, BackupTypeOK, Export
<1>7. ExportAccounts'
  BY <1>1 DEF ExportAccounts
<1>8. ArchivesAccount'
  <2>1. ASSUME NEW b \in archives'
        PROVE  /\ AttachmentsIn(b.rows) \subseteq b.data \cup b.missing
               /\ \A f \in b.missing \ b.unread : Gone(f)
    <3>1. CASE b \in archives
      BY <3>1 DEF BackupInv, ArchivesAccount
    <3>2. CASE b = a /\ export.left = {}
      BY <1>1, <1>4, <3>2 DEF BackupInv, ExportAccounts
    <3>3. QED
      BY <1>2, <2>1, <3>1, <3>2
  <2>2. QED
    BY <2>1 DEF ArchivesAccount, AttachmentsIn, Gone, vars
<1>9. RestoresFollow'
  BY <1>1, <1>2 DEF BackupInv, RestoresFollow
<1>10. QED
  BY <1>5, <1>6, <1>7, <1>8, <1>9 DEF BackupInv

\* A step of one restore: it goes on to s, and leaves to the others what they
\* have written.
LEMMA RestoringStep ==
  ASSUME BackupInv, UNCHANGED vars, UNCHANGED <<exports, export, archives>>,
         NEW x \in Restores, NEW s \in Restore, RestoreGoesOn(x, s),
         targetFiles' \in SUBSET Files, targetFiles \subseteq targetFiles',
         targetRows' \in Rows \cup {None}, targetRows # None => targetRows' = targetRows,
         s.op # "idle" =>
           /\ s.archive \in archives
           /\ s.op \in {"write", "done"} => targetRows' = s.archive.rows
           /\ s.op = "write" => s.archive.data \subseteq targetFiles' \cup s.left
           /\ s.op = "done" => s.archive.data \subseteq targetFiles'
  PROVE  BackupInv'
<1>1. FilesInv'
  BY FilesStep DEF BackupInv
<1>2. restore \in [Restores -> Restore] /\ restore' = [restore EXCEPT ![x] = s]
  BY DEF BackupInv, BackupTypeOK, RestoreGoesOn
<1>3. BackupTypeOK'
  BY <1>2 DEF BackupInv, BackupTypeOK
<1>4. ExportAccounts' /\ ArchivesAccount'
  BY DEF BackupInv, ExportAccounts, ArchivesAccount, AttachmentsIn, WasStored, Gone, vars
<1>5. RestoresFollow'
  <2>1. ASSUME NEW y \in Restores, y # x, restore[y].op # "idle"
        PROVE  /\ restore[y].archive \in archives
               /\ restore[y].op \in {"write", "done"} => targetRows' = restore[y].archive.rows
               /\ restore[y].op = "write" =>
                    restore[y].archive.data \subseteq targetFiles' \cup restore[y].left
               /\ restore[y].op = "done" => restore[y].archive.data \subseteq targetFiles'
    <3>1. restore[y].archive.rows # None
      <4>1. restore[y].archive \in Archive
        BY <1>2, <2>1, RestoreFields
      <4>2. restore[y].archive.rows \in Rows
        BY <4>1 DEF Archive
      <4>3. QED
        BY <4>2, RowsAreNotNone
    <3>2. QED
      BY <2>1, <3>1 DEF BackupInv, RestoresFollow
  <2>2. \A y \in Restores : restore'[y] = IF y = x THEN s ELSE restore[y]
    BY <1>2
  <2>3. ASSUME NEW y \in Restores, restore'[y].op # "idle"
        PROVE  /\ restore'[y].archive \in archives'
               /\ restore'[y].op \in {"write", "done"} => targetRows' = restore'[y].archive.rows
               /\ restore'[y].op = "write" =>
                    restore'[y].archive.data \subseteq targetFiles' \cup restore'[y].left
               /\ restore'[y].op = "done" => restore'[y].archive.data \subseteq targetFiles'
    <3>1. CASE y = x
      BY <2>2, <2>3, <3>1
    <3>2. CASE y # x
      BY <2>1, <2>2, <2>3, <3>2
    <3>3. QED
      BY <3>1, <3>2
  <2>4. QED
    BY <2>3 DEF RestoresFollow
<1>6. QED
  BY <1>1, <1>3, <1>4, <1>5 DEF BackupInv

LEMMA RestoreStepInv ==
  ASSUME BackupInv, UNCHANGED vars, NEW x \in Restores, RestoreStep(x) PROVE BackupInv'
<1>1. BackupTypeOK
  BY DEF BackupInv
<1>2. archives \subseteq Archive /\ restore[x] \in Restore
  BY <1>1 DEF BackupTypeOK
<1>3. Idle \in Restore /\ Idle.op = "idle"
  BY DEF Restore, Idle
<1>4. CASE RestoreStart(x)
  <2>1. PICK a \in archives : RestoreGoesOn(x, [op |-> "check", archive |-> a])
    BY <1>4 DEF RestoreStart
  <2> DEFINE s == [op |-> "check", archive |-> a]
  <2>2. s \in Restore /\ s.op = "check" /\ s.archive = a
    BY <1>2 DEF Restore
  <2> HIDE DEF s
  <2>3. RestoreGoesOn(x, s) /\ UNCHANGED <<exports, export, archives, targetRows, targetFiles>>
    BY <1>4, <2>1 DEF RestoreStart, s
  <2>4. QED
    BY <1>1, <2>2, <2>3, RestoringStep DEF BackupTypeOK
<1>5. CASE RestoreCheck(x)
  <2> DEFINE s == [op |-> "insert", archive |-> restore[x].archive]
  <2>1. restore[x].archive \in archives
    BY <1>5 DEF RestoreCheck, BackupInv, RestoresFollow
  <2>2. s \in Restore /\ s.op = "insert" /\ s.archive = restore[x].archive
    BY <1>2, <2>1 DEF Restore
  <2> HIDE DEF s
  <2>3. /\ RestoreGoesOn(x, s) \/ RestoreGoesOn(x, Idle)
        /\ UNCHANGED <<exports, export, archives, targetRows, targetFiles>>
    BY <1>5 DEF RestoreCheck, s
  <2>4. QED
    BY <1>1, <1>3, <2>1, <2>2, <2>3, RestoringStep DEF BackupTypeOK
<1>6. CASE RestoreInsert(x)
  <2> DEFINE a == restore[x].archive
             s == [op |-> "write", archive |-> a, left |-> a.data]
  <2>1. a \in archives
    BY <1>6 DEF RestoreInsert, BackupInv, RestoresFollow
  <2>2. /\ s \in Restore /\ s.op = "write" /\ s.archive = a /\ s.left = a.data
        /\ a.rows \in Rows
    BY <1>2, <2>1 DEF Restore, Archive
  <2>3. \/ targetRows = None /\ targetRows' = a.rows /\ RestoreGoesOn(x, s)
        \/ targetRows' = targetRows /\ RestoreGoesOn(x, Idle)
    BY <1>6 DEF RestoreInsert
  <2>4. UNCHANGED <<exports, export, archives, targetFiles>>
    BY <1>6 DEF RestoreInsert
  <2> HIDE DEF a, s
  <2>5. a.rows # None
    BY <2>2, RowsAreNotNone
  <2>6. CASE targetRows = None /\ targetRows' = a.rows /\ RestoreGoesOn(x, s)
    BY <1>1, <2>1, <2>2, <2>4, <2>5, <2>6, RestoringStep DEF BackupTypeOK
  <2>7. CASE targetRows' = targetRows /\ RestoreGoesOn(x, Idle)
    BY <1>1, <1>3, <2>4, <2>7, RestoringStep DEF BackupTypeOK
  <2>8. QED
    BY <2>3, <2>6, <2>7
<1>7. ASSUME NEW f \in Files, RestoreFile(x, f) PROVE BackupInv'
  <2> DEFINE s == [restore[x] EXCEPT !.left = @ \ {f}]
  <2>1. restore[x] \in [op: {"write"}, archive: Archive, left: SUBSET Files]
    BY <1>2, <1>7, RestoreFields DEF RestoreFile
  <2>2. /\ s \in Restore /\ s.op = "write" /\ s.archive = restore[x].archive
        /\ s.left = restore[x].left \ {f}
    BY <2>1 DEF Restore
  <2>3. /\ RestoreGoesOn(x, s) /\ targetFiles' = targetFiles \cup {f}
        /\ UNCHANGED <<exports, export, archives, targetRows>>
    BY <1>7 DEF RestoreFile
  <2> HIDE DEF s
  <2>4. /\ restore[x].archive \in archives /\ targetRows = restore[x].archive.rows
        /\ restore[x].archive.data \subseteq targetFiles \cup restore[x].left
    BY <2>1 DEF BackupInv, RestoresFollow
  <2>5. targetRows # None
    BY <2>1, <2>4, RowsAreNotNone DEF Archive
  <2>6. s.archive.data \subseteq targetFiles' \cup s.left
    BY <2>2, <2>3, <2>4
  <2>7. QED
    BY <1>1, <2>2, <2>3, <2>4, <2>5, <2>6, RestoringStep DEF BackupTypeOK
<1>8. CASE RestoreEnd(x)
  <2> DEFINE s == [op |-> "done", archive |-> restore[x].archive]
  <2>1. /\ restore[x].archive \in archives /\ targetRows = restore[x].archive.rows
        /\ restore[x].archive.data \subseteq targetFiles
    BY <1>8 DEF RestoreEnd, BackupInv, RestoresFollow
  <2>2. s \in Restore /\ s.op = "done" /\ s.archive = restore[x].archive
    BY <1>2, <2>1 DEF Restore
  <2>3. RestoreGoesOn(x, s) /\ UNCHANGED <<exports, export, archives, targetRows, targetFiles>>
    BY <1>8 DEF RestoreEnd
  <2> HIDE DEF s
  <2>4. QED
    BY <1>1, <2>1, <2>2, <2>3, RestoringStep DEF BackupTypeOK
<1>9. CASE RestoreFail(x)
  <2>1. RestoreGoesOn(x, Idle) /\ UNCHANGED <<exports, export, archives, targetRows, targetFiles>>
    BY <1>9 DEF RestoreFail
  <2>2. QED
    BY <1>1, <1>3, <2>1, RestoringStep DEF BackupTypeOK
<1>10. QED
  BY <1>4, <1>5, <1>6, <1>7, <1>8, <1>9 DEF RestoreStep

LEMMA BackupStepInv == BackupInv /\ [BackupNext]_<<vars, backupVars>> => BackupInv'
<1> SUFFICES ASSUME BackupInv, [BackupNext]_<<vars, backupVars>> PROVE BackupInv'
  OBVIOUS
<1>1. CASE [Next]_vars /\ UNCHANGED backupVars
  BY <1>1, HandlersBesideBackups
<1>2. CASE BackupStep /\ UNCHANGED vars
  BY <1>2, ExportReadStep, ExportFileStep, ExportEndStep, RestoreStepInv
     DEF BackupStep, ExportStep
<1>3. QED
  BY <1>1, <1>2 DEF BackupNext

LEMMA BackupsKeepInv == BackupSpec => []BackupInv
BY BackupInitInv, BackupStepInv, PTL DEF BackupSpec

\* Every backup that is handed out has each attachment of its transactions or lists
\* it as missing; of a file listed as missing either the read has failed or no
\* transaction has it any more, whatever is uploaded, replaced or removed beside the
\* export (createSnapshot).
THEOREM BackupsAreSound == BackupSpec => []BackupIsSound
<1>1. BackupInv => BackupIsSound
  <2> SUFFICES ASSUME BackupInv PROVE BackupIsSound
    OBVIOUS
  <2>1. ASSUME NEW a \in archives PROVE (a.missing \ a.unread) \cap AttachmentsIn([tx |-> tx]) = {}
    <3>1. ASSUME NEW f \in a.missing \ a.unread, f \in AttachmentsIn([tx |-> tx]) PROVE FALSE
      <4>1. PICK t \in Transactions : tx[t].state = "present" /\ f = tx[t].file /\ f # None
        BY <3>1 DEF AttachmentsIn
      <4>2. Attached(t) = f
        BY <4>1 DEF Attached, Present
      <4>3. file[f] = "stored" /\ file[f] = "gone"
        BY <3>1, <4>1, <4>2 DEF BackupInv, FilesInv, AttachedIsStored, ArchivesAccount, Gone
      <4>4. QED
        BY <4>3
    <3>2. QED
      BY <3>1
  <2>2. QED
    BY <2>1 DEF BackupInv, BackupIsSound, BackupAccountsForAttachments, ArchivesAccount
<1>2. QED
  BY <1>1, BackupsKeepInv, PTL

\* A restore that says it is done has put the rows of its backup and every
\* attachment that is not listed as missing on the target, and no other restore
\* has written rows of its own there (restoreSnapshot).
THEOREM DoneRestoresAreComplete == BackupSpec => []DoneIsRestored
<1>1. BackupInv => DoneIsRestored
  BY DEF BackupInv, DoneIsRestored, RestoresFollow, ArchivesAccount
<1>2. QED
  BY <1>1, BackupsKeepInv, PTL

-----------------------------------------------------------------------------
(***************************************************************************)
(* Accounts.  Whoever is past the lock holds it, and what it has found not *)
(* to be taken stays so until it writes.                                   *)
(***************************************************************************)
UsersTyped ==
  /\ account \in [Users -> U!Account]
  /\ pool \in PoolSizes
  /\ lock \in Handlers \cup {Nobody}
  /\ handler \in [Handlers -> U!Request]
  /\ upload \in [Avatars -> U!FileState]

Transacting == U!Stages \cup {"prepared"}

TransactionOK(r) ==
  LET q == handler[r] IN
  /\ q.op \in {"check", "write"} => lock = r
  /\ q.op = "write" => ~U!Taken(q)
  /\ q.op \in Transacting /\ q.kind = "change" => q.user \in U!Present

AccountInv ==
  /\ UsersTyped
  /\ U!EmailsAreUnique
  /\ IsFiniteSet(U!InTransaction) /\ Cardinality(U!InTransaction) <= pool
  /\ \A r \in Handlers : TransactionOK(r)

(***************************************************************************)
(* Avatars.  An upload that is to become an avatar is its handler's alone; *)
(* what a handler has read as the avatar to replace is the avatar of no    *)
(* other account, and what it removes is nobody's.                         *)
(***************************************************************************)
Showing == {"store", "look", "install"}
Removing == {"removeFile", "removeBytes"}

\* Uploads that no handler can make an avatar any more.
Settled == {"stored", "rowless", "gone"}

Shown(f) == \E u \in U!Present : account[u].avatar = f

Carries(q, f) == q.op \in Showing /\ q.new = f

Apart(q, f) ==
  /\ q.op = "install" => q.old # f
  /\ q.op \in Removing => q.target # f

\* What r is to make an avatar nobody else has, replaces or removes.
Alone(r, f) ==
  /\ ~Shown(f)
  /\ \A p \in Handlers : Apart(handler[p], f) /\ (p # r => ~Carries(handler[p], f))

AvatarOK(r) ==
  LET q == handler[r] IN
  /\ q.op \in Showing => q.user \in U!Present
  /\ q.op = "store" => upload[q.new] = "bytes"
  /\ q.op \in {"look", "install"} /\ q.new # Nobody => upload[q.new] = "stored"
  /\ q.op = "install" /\ q.old # Nobody =>
       /\ upload[q.old] \in Settled
       /\ \A u \in U!Present : account[u].avatar = q.old => u = q.user
  /\ q.op \in Removing => upload[q.target] \in Settled /\ ~Shown(q.target)

AvatarInv ==
  /\ \A r \in Handlers : AvatarOK(r)
  /\ \A r \in Handlers, f \in Avatars : Carries(handler[r], f) => Alone(r, f)
  /\ \A u \in U!Present : account[u].avatar # Nobody => upload[account[u].avatar] = "stored"
  /\ \A u, v \in U!Present :
       account[u].avatar = account[v].avatar /\ account[u].avatar # Nobody => u = v

-----------------------------------------------------------------------------
(***************************************************************************)
(* Types                                                                   *)
(***************************************************************************)

PresentAccount ==
  [state: {"present"}, username: Usernames, email: Emails,
   avatar: Avatars \cup {Nobody}]

LEMMA AccountFields ==
  ASSUME NEW x \in U!Account, x # U!Unborn
  PROVE  x \in PresentAccount
BY DEF U!Account, PresentAccount

LEMMA HandlerFields ==
  ASSUME NEW x \in U!Request
  PROVE  /\ x.op \in Transacting => x.kind \in {"create", "change"} /\ x.email \in Emails
         /\ x.op \in Transacting /\ x.kind = "create" => x.username \in Usernames
         /\ x.op \in Transacting /\ x.kind = "change" => x.user \in Users
         /\ x.op \in Showing => x.user \in Users /\ x.new \in Avatars \cup {Nobody}
         /\ x.op = "store" => x.new \in Avatars
         /\ x.op = "install" => x.old \in Avatars \cup {Nobody}
         /\ x.op \in Removing => x.target \in Avatars
         /\ x.op \in Transacting \cup Showing \cup Removing \cup {"idle"}
BY DEF U!Request, U!Idle, U!Stages, Transacting, Showing, Removing

\* A transaction goes on to another stage.
LEMMA StageMoves ==
  ASSUME NEW x \in U!Request, x.op \in Transacting, NEW o \in Transacting,
         NEW y, y = [x EXCEPT !.op = o]
  PROVE  /\ y \in U!Request /\ y.op = o /\ y.kind = x.kind /\ y.email = x.email
         /\ x.kind = "create" => y.username = x.username
         /\ x.kind = "change" => y.user = x.user
<1>1. CASE x \in [op: Transacting, kind: {"create"}, username: Usernames, email: Emails]
  BY <1>1 DEF U!Request, Transacting, U!Stages
<1>2. CASE x \in [op: Transacting, kind: {"change"}, user: Users, email: Emails]
  BY <1>2 DEF U!Request, Transacting, U!Stages
<1>3. QED
  BY <1>1, <1>2 DEF U!Request, U!Idle, Transacting, U!Stages

LEMMA IdleHandler ==
  U!Idle \in U!Request /\ U!Idle.op = "idle" /\ U!Idle.op \notin Transacting \cup Showing \cup Removing
BY DEF U!Request, U!Idle, U!Stages, Transacting, Showing, Removing

Becomes(r, x) ==
  /\ handler' \in [Handlers -> U!Request]
  /\ handler'[r] = x
  /\ \A p \in Handlers : p # r => handler'[p] = handler[p]

LEMMA GoesOn ==
  ASSUME UsersTyped, NEW r \in Handlers, NEW x \in U!Request, U!GoOn(r, x)
  PROVE  Becomes(r, x)
BY DEF UsersTyped, U!GoOn, Becomes

LEMMA GoesTo ==
  ASSUME UsersTyped, NEW r \in Handlers, handler[r].op \in Transacting,
         NEW o \in Transacting, U!Goto(r, o)
  PROVE  /\ handler' \in [Handlers -> U!Request]
         /\ \A p \in Handlers : p # r => handler'[p] = handler[p]
         /\ handler'[r].op = o /\ handler'[r].kind = handler[r].kind
         /\ handler'[r].email = handler[r].email
         /\ handler[r].kind = "create" => handler'[r].username = handler[r].username
         /\ handler[r].kind = "change" => handler'[r].user = handler[r].user
<1> DEFINE y == [handler[r] EXCEPT !.op = o]
<1>1. handler[r] \in U!Request
  BY DEF UsersTyped
<1>2. /\ y \in U!Request /\ y.op = o /\ y.kind = handler[r].kind /\ y.email = handler[r].email
      /\ handler[r].kind = "create" => y.username = handler[r].username
      /\ handler[r].kind = "change" => y.user = handler[r].user
  BY <1>1, StageMoves
<1>3. U!GoOn(r, y)
  BY DEF U!Goto
<1> HIDE DEF y
<1>4. Becomes(r, y)
  BY <1>2, <1>3, GoesOn
<1>5. QED
  BY <1>2, <1>4 DEF Becomes

-----------------------------------------------------------------------------
(***************************************************************************)
(* The connections of the pool                                             *)
(***************************************************************************)

\* The module of finite sets is the same one inside the instance.
LEMMA SameCardinality == ASSUME NEW S PROVE U!Cardinality(S) = Cardinality(S)
BY DEF U!Cardinality, Cardinality

InPool(x) == x.op \in {"lock", "check", "write"}

PoolOK == IsFiniteSet(U!InTransaction) /\ Cardinality(U!InTransaction) <= pool

\* No handler gets a connection.
LEMMA PoolKept ==
  ASSUME PoolOK, pool \in Nat, pool' = pool,
         \A p \in Handlers : InPool(handler'[p]) => InPool(handler[p])
  PROVE  PoolOK'
<1>1. U!InTransaction' \in SUBSET U!InTransaction
  BY DEF U!InTransaction, InPool
<1>2. IsFiniteSet(U!InTransaction') /\ Cardinality(U!InTransaction') <= Cardinality(U!InTransaction)
  BY <1>1, FS_Subset DEF PoolOK
<1>3. Cardinality(U!InTransaction) \in Nat /\ Cardinality(U!InTransaction') \in Nat
  BY <1>2, FS_CardinalityType DEF PoolOK
<1>4. IsFiniteSet(U!InTransaction)' /\ (Cardinality(U!InTransaction) <= pool)'
  BY <1>2, <1>3 DEF PoolOK
<1>5. QED
  BY <1>4 DEF PoolOK

LEMMA PoolTaken ==
  ASSUME PoolOK, pool \in Nat, pool' = pool, NEW r \in Handlers,
         U!FreeConnections > 0,
         ~InPool(handler[r]), InPool(handler'[r]),
         \A p \in Handlers : p # r => handler'[p] = handler[p]
  PROVE  PoolOK'
<1>1. U!InTransaction' = U!InTransaction \cup {r} /\ r \notin U!InTransaction
  BY DEF U!InTransaction, InPool
<1>2. /\ IsFiniteSet(U!InTransaction')
      /\ Cardinality(U!InTransaction') = Cardinality(U!InTransaction) + 1
  BY <1>1, FS_AddElement DEF PoolOK
<1>3. Cardinality(U!InTransaction) \in Nat
  BY FS_CardinalityType DEF PoolOK
<1>4. pool - Cardinality(U!InTransaction) > 0
  BY SameCardinality DEF U!FreeConnections
<1>5. Cardinality(U!InTransaction') <= pool
  BY <1>2, <1>3, <1>4
<1>6. IsFiniteSet(U!InTransaction)' /\ (Cardinality(U!InTransaction) <= pool)'
  BY <1>2, <1>5
<1>7. QED
  BY <1>6 DEF PoolOK

LEMMA PoolIsANumber == ASSUME UsersTyped PROVE pool \in Nat
BY UsersAssumption DEF UsersTyped

-----------------------------------------------------------------------------
(***************************************************************************)
(* What the transactions leave alone, and what the avatars do              *)
(***************************************************************************)

\* The accounts but for their avatars.
SameAccounts ==
  \A u \in Users :
    /\ (account'[u] = U!Unborn) = (account[u] = U!Unborn)
    /\ account[u] # U!Unborn => /\ account'[u].email = account[u].email
                                /\ account'[u].username = account[u].username

LEMMA SameIsTaken ==
  ASSUME SameAccounts, NEW q
  PROVE  /\ U!Present' = U!Present
         /\ U!Taken(q)' = U!Taken(q)
<1>1. U!Present' = U!Present
  BY DEF SameAccounts, U!Present
<1>2. \A u \in U!Present : account'[u].email = account[u].email /\ account'[u].username = account[u].username
  BY DEF SameAccounts, U!Present
<1>3. QED
  BY <1>1, <1>2 DEF U!Taken, U!UsernameTaken, U!EmailTaken

\* Steps of the avatars do not disturb the transactions.
LEMMA TransactionsUndisturbed ==
  ASSUME AccountInv, SameAccounts, account' \in [Users -> U!Account],
         upload' \in [Avatars -> U!FileState],
         UNCHANGED <<pool, lock>>,
         NEW r \in Handlers, handler' \in [Handlers -> U!Request],
         \A p \in Handlers : p # r => handler'[p] = handler[p],
         handler'[r].op \notin Transacting
  PROVE  AccountInv'
<1>1. UsersTyped'
  BY DEF AccountInv, UsersTyped
<1>2. U!EmailsAreUnique'
  BY SameIsTaken DEF AccountInv, U!EmailsAreUnique, SameAccounts, U!Present
<1>3. PoolOK'
  <2>1. \A p \in Handlers : InPool(handler'[p]) => InPool(handler[p])
    BY DEF InPool, Transacting, U!Stages
  <2>2. PoolOK /\ pool \in Nat
    BY PoolIsANumber DEF PoolOK, AccountInv
  <2>3. QED
    BY <2>1, <2>2, PoolKept
<1>4. ASSUME NEW p \in Handlers PROVE TransactionOK(p)'
  <2>1. CASE p = r
    BY <2>1 DEF TransactionOK, Transacting, U!Stages
  <2>2. CASE p # r
    <3>1. handler'[p] = handler[p] /\ TransactionOK(p)
      BY <2>2 DEF AccountInv
    <3>2. U!Present' = U!Present
      BY <3>1, SameIsTaken
    <3>3. ASSUME NEW q, q = handler[p], ~U!Taken(q) PROVE ~U!Taken(q)'
      BY <3>3, SameIsTaken
    <3>4. QED
      BY <3>1, <3>2, <3>3 DEF TransactionOK
  <2>3. QED
    BY <2>1, <2>2
<1>5. QED
  BY <1>1, <1>2, <1>3, <1>4 DEF AccountInv, PoolOK

\* Steps of the transactions do not disturb the avatars.
LEMMA AvatarsUndisturbed ==
  ASSUME UsersTyped, AvatarInv, upload' = upload,
         \A u \in U!Present : u \in U!Present' /\ account'[u].avatar = account[u].avatar,
         \A u \in U!Present' : u \in U!Present \/ account'[u].avatar = Nobody,
         \A p \in Handlers :
           handler'[p] = handler[p] \/ handler'[p].op \notin Showing \cup Removing
  PROVE  AvatarInv'
<1>1. \A f : f # Nobody /\ Shown(f)' => Shown(f)
  BY DEF Shown
<1> USE UsersAssumption
<1>2. ASSUME NEW r \in Handlers PROVE AvatarOK(r)'
  <2>1. CASE handler'[r] = handler[r]
    <3>1. AvatarOK(r) /\ (handler[r].op \in Removing => handler[r].target \in Avatars)
      BY HandlerFields DEF AvatarInv, UsersTyped
    <3>2. handler[r].op \in Removing => ~Shown(handler[r].target)'
      BY <1>1, <2>1, <3>1 DEF AvatarOK, Shown
    <3>3. QED
      BY <2>1, <3>1, <3>2 DEF AvatarOK
  <2>2. CASE handler'[r].op \notin Showing \cup Removing
    BY <2>2 DEF AvatarOK, Showing
  <2>3. QED
    BY <2>1, <2>2
<1>3. ASSUME NEW r \in Handlers, NEW f \in Avatars, Carries(handler'[r], f) PROVE Alone(r, f)'
  <2>1. handler'[r] = handler[r] /\ Alone(r, f)
    BY <1>3 DEF Carries, AvatarInv
  <2>2. ~Shown(f)'
    BY <1>1, <2>1 DEF Alone
  <2>3. \A p \in Handlers : Apart(handler'[p], f) /\ (p # r => ~Carries(handler'[p], f))
    BY <2>1 DEF Alone, Apart, Carries, Showing
  <2>4. QED
    BY <2>2, <2>3 DEF Alone, Apart, Carries
<1>4. QED
  BY <1>2, <1>3 DEF AvatarInv, Carries

-----------------------------------------------------------------------------
(***************************************************************************)
(* Transactions under the lock                                             *)
(***************************************************************************)

\* A step of one transaction that writes nothing.
LEMMA StageStep ==
  ASSUME AccountInv, AvatarInv, UNCHANGED <<account, pool, upload>>,
         NEW r \in Handlers, handler' \in [Handlers -> U!Request],
         \A p \in Handlers : p # r => handler'[p] = handler[p],
         handler'[r].op \in Transacting \cup {"idle"},
         TransactionOK(r)',
         PoolOK',
         \/ lock' = lock
         \/ lock' = r /\ lock = Nobody
         \/ lock' = Nobody /\ lock = r
  PROVE  AccountInv' /\ AvatarInv'
<1>1. UsersTyped'
  BY DEF AccountInv, UsersTyped
<1>2. U!EmailsAreUnique'
  BY DEF AccountInv, U!EmailsAreUnique, U!Present, U!Unborn
<1>3. ASSUME NEW p \in Handlers PROVE TransactionOK(p)'
  <2>1. CASE p # r
    <3>1. handler'[p] = handler[p] /\ TransactionOK(p)
      BY <2>1 DEF AccountInv
    <3>2. handler[p].op \in {"check", "write"} => lock' = p
      BY <2>1, <3>1, UsersAssumption DEF TransactionOK
    <3>3. SameAccounts
      BY DEF SameAccounts, U!Unborn
    <3>4. ASSUME NEW q, ~U!Taken(q) PROVE ~U!Taken(q)'
      BY <3>3, <3>4, SameIsTaken
    <3>5. U!Present' = U!Present
      BY <3>3, SameIsTaken
    <3>6. QED
      BY <3>1, <3>2, <3>4, <3>5 DEF TransactionOK
  <2>2. QED
    BY <2>1
<1>4. AvatarInv'
  <2>1. handler'[r].op \notin Showing \cup Removing
    BY DEF Transacting, Showing, Removing, U!Stages
  <2>2. QED
    BY <2>1, AvatarsUndisturbed DEF AccountInv, U!Present, U!Unborn
<1>5. QED
  BY <1>1, <1>2, <1>3, <1>4 DEF AccountInv, PoolOK

LEMMA TransactionEnds ==
  ASSUME AccountInv, AvatarInv, UNCHANGED <<account, pool, upload>>,
         NEW r \in Handlers, U!End(r),
         lock' = lock \/ (lock' = Nobody /\ lock = r)
  PROVE  AccountInv' /\ AvatarInv'
<1>1. Becomes(r, U!Idle)
  BY GoesOn, IdleHandler DEF AccountInv, U!End
<1>2. handler'[r].op = "idle" /\ handler'[r].op \notin Transacting
  BY <1>1, IdleHandler DEF Becomes
<1>3. TransactionOK(r)'
  BY <1>2 DEF TransactionOK
<1>4. PoolOK'
  <2>1. \A p \in Handlers : InPool(handler'[p]) => InPool(handler[p])
    BY <1>1, <1>2 DEF Becomes, InPool
  <2>2. PoolOK /\ pool \in Nat
    BY PoolIsANumber DEF PoolOK, AccountInv
  <2>3. QED
    BY <2>1, <2>2, PoolKept
<1>5. QED
  BY <1>1, <1>2, <1>3, <1>4, StageStep DEF Becomes

LEMMA PrepareStep ==
  ASSUME AccountInv, AvatarInv, NEW r \in Handlers, U!Prepares(r)
  PROVE  AccountInv' /\ AvatarInv'
<1>1. ASSUME NEW q \in U!Request, q.op = "prepared", U!Prepare(r, q),
             q.kind = "change" => q.user \in U!Present
      PROVE  AccountInv' /\ AvatarInv'
  <2>1. Becomes(r, q) /\ UNCHANGED <<account, pool, lock, upload>>
    BY <1>1, GoesOn DEF AccountInv, U!Prepare
  <2>2. TransactionOK(r)'
    BY <1>1, <2>1 DEF TransactionOK, Becomes, U!Present, U!Unborn
  <2>3. PoolOK'
    <3>1. \A p \in Handlers : InPool(handler'[p]) => InPool(handler[p])
      BY <1>1, <2>1 DEF Becomes, InPool
    <3>2. PoolOK /\ pool \in Nat
      BY PoolIsANumber DEF PoolOK, AccountInv
    <3>3. QED
      BY <2>1, <3>1, <3>2, PoolKept
  <2>4. handler'[r].op \in Transacting
    BY <1>1, <2>1 DEF Becomes, Transacting
  <2>5. QED
    BY <2>1, <2>2, <2>3, <2>4, StageStep DEF Becomes
<1>2. ASSUME NEW n \in Usernames, NEW e \in Emails, U!PrepareCreate(r, n, e)
      PROVE  AccountInv' /\ AvatarInv'
  <2> DEFINE q == [op |-> "prepared", kind |-> "create", username |-> n, email |-> e]
  <2>1. q \in U!Request /\ q.op = "prepared" /\ q.kind = "create"
    BY DEF U!Request, U!Stages
  <2>2. U!Prepare(r, q)
    BY <1>2 DEF U!PrepareCreate
  <2> HIDE DEF q
  <2>3. QED
    BY <1>1, <2>1, <2>2
<1>3. ASSUME NEW u \in Users, NEW e \in Emails, U!PrepareChange(r, u, e)
      PROVE  AccountInv' /\ AvatarInv'
  <2> DEFINE q == [op |-> "prepared", kind |-> "change", user |-> u, email |-> e]
  <2>1. q \in U!Request /\ q.op = "prepared" /\ q.user = u
    BY DEF U!Request, U!Stages
  <2>2. U!Prepare(r, q) /\ u \in U!Present
    BY <1>3 DEF U!PrepareChange
  <2> HIDE DEF q
  <2>3. QED
    BY <1>1, <2>1, <2>2
<1>4. ASSUME U!Execute(r) PROVE AccountInv' /\ AvatarInv'
  <2>1. /\ UNCHANGED <<account, pool, lock, upload>> /\ handler[r].op = "prepared"
        /\ U!Goto(r, "begin")
    BY <1>4 DEF U!Execute
  <2>2. handler[r].op \in Transacting /\ "begin" \in Transacting
    BY <2>1 DEF Transacting, U!Stages
  <2>3. /\ handler' \in [Handlers -> U!Request]
        /\ \A p \in Handlers : p # r => handler'[p] = handler[p]
        /\ handler'[r].op = "begin" /\ handler'[r].kind = handler[r].kind
        /\ handler[r].kind = "change" => handler'[r].user = handler[r].user
    BY <2>1, <2>2, GoesTo DEF AccountInv
  <2>4. TransactionOK(r)'
    BY <2>1, <2>2, <2>3 DEF TransactionOK, AccountInv, U!Present, U!Unborn
  <2>5. PoolOK'
    <3>1. \A p \in Handlers : InPool(handler'[p]) => InPool(handler[p])
      BY <2>3 DEF InPool
    <3>2. PoolOK /\ pool \in Nat
      BY PoolIsANumber DEF PoolOK, AccountInv
    <3>3. QED
      BY <2>1, <3>1, <3>2, PoolKept
  <2>6. QED
    BY <2>1, <2>2, <2>3, <2>4, <2>5, StageStep
<1>5. ASSUME U!Expire(r) PROVE AccountInv' /\ AvatarInv'
  BY <1>5, TransactionEnds DEF U!Expire
<1>6. QED
  BY <1>2, <1>3, <1>4, <1>5 DEF U!Prepares

\* The holder of the lock inserts u, or changes its address, to an address that
\* no other account has.
LEMMA WriteStep ==
  ASSUME AccountInv, AvatarInv, NEW r \in Handlers, handler[r].op = "write",
         U!EndTransaction(r), UNCHANGED <<pool, upload>>,
         account' \in [Users -> U!Account],
         NEW u \in Users, account'[u] # U!Unborn,
         \A v \in Users : v # u => account'[v] = account[v],
         IF u \in U!Present THEN account'[u].avatar = account[u].avatar
                            ELSE account'[u].avatar = Nobody,
         \A v \in U!Present : v # u => account[v].email # account'[u].email
  PROVE  AccountInv' /\ AvatarInv'
<1>1. Becomes(r, U!Idle) /\ lock' = Nobody
  BY GoesOn, IdleHandler DEF AccountInv, U!End, U!EndTransaction
<1>2. handler'[r].op = "idle"
  BY <1>1, IdleHandler DEF Becomes
<1>3. U!Present' = U!Present \cup {u}
  BY DEF U!Present, U!Unborn
<1>4. U!EmailsAreUnique'
  BY <1>3 DEF AccountInv, U!EmailsAreUnique, U!Present
<1>5. PoolOK'
  <2>1. \A p \in Handlers : InPool(handler'[p]) => InPool(handler[p])
    BY <1>1, <1>2 DEF Becomes, InPool
  <2>2. PoolOK /\ pool \in Nat
    BY PoolIsANumber DEF PoolOK, AccountInv
  <2>3. QED
    BY <2>1, <2>2, PoolKept
<1>6. ASSUME NEW p \in Handlers PROVE TransactionOK(p)'
  <2>1. CASE p = r
    BY <1>2, <2>1 DEF TransactionOK, Transacting, U!Stages
  <2>2. CASE p # r
    <3>1. handler'[p] = handler[p] /\ TransactionOK(p) /\ lock = r
      BY <1>1, <2>2 DEF AccountInv, TransactionOK, Becomes
    <3>2. handler'[p].op \notin {"check", "write"}
      BY <2>2, <3>1 DEF TransactionOK
    <3>3. QED
      BY <1>3, <3>1, <3>2 DEF TransactionOK
  <2>3. QED
    BY <2>1, <2>2
<1>7. UsersTyped'
  BY <1>1 DEF AccountInv, UsersTyped, Becomes
<1>8. AvatarInv'
  <2>1. \A p \in Handlers :
          handler'[p] = handler[p] \/ handler'[p].op \notin Showing \cup Removing
    BY <1>1, <1>2 DEF Becomes, Showing, Removing
  <2>2. \A v \in U!Present : v \in U!Present' /\ account'[v].avatar = account[v].avatar
    BY <1>3 DEF U!Present
  <2>3. \A v \in U!Present' : v \in U!Present \/ account'[v].avatar = Nobody
    BY <1>3
  <2>4. QED
    BY <2>1, <2>2, <2>3, AvatarsUndisturbed DEF AccountInv
<1>9. QED
  BY <1>4, <1>5, <1>6, <1>7, <1>8 DEF AccountInv, PoolOK

LEMMA WriteCreateStep ==
  ASSUME AccountInv, AvatarInv, NEW r \in Handlers, NEW u \in Users, U!WriteCreate(r, u)
  PROVE  AccountInv' /\ AvatarInv'
<1> DEFINE x == [state |-> "present", username |-> handler[r].username,
                 email |-> handler[r].email, avatar |-> Nobody]
<1>1. /\ handler[r].op = "write" /\ handler[r].kind = "create" /\ account[u] = U!Unborn
      /\ U!EndTransaction(r) /\ UNCHANGED <<pool, upload>>
      /\ account' = account \/ account' = [account EXCEPT ![u] = x]
  BY DEF U!WriteCreate
<1>2. lock = r /\ ~U!Taken(handler[r]) /\ handler[r].op \in Transacting
  BY <1>1 DEF AccountInv, TransactionOK, Transacting, U!Stages
<1>3. CASE account' = account
  BY <1>1, <1>2, <1>3, TransactionEnds DEF U!EndTransaction
<1>4. CASE account' = [account EXCEPT ![u] = x]
  <2>1. handler[r].username \in Usernames /\ handler[r].email \in Emails
    BY <1>1, <1>2, HandlerFields DEF AccountInv, UsersTyped
  <2>2. /\ x \in U!Account /\ x # U!Unborn /\ x.avatar = Nobody /\ x.email = handler[r].email
    BY <2>1 DEF U!Account, U!Unborn
  <2> HIDE DEF x
  <2>3. /\ account' \in [Users -> U!Account] /\ account'[u] = x
        /\ \A v \in Users : v # u => account'[v] = account[v]
    BY <1>4, <2>2 DEF AccountInv, UsersTyped
  <2>4. u \notin U!Present
    BY <1>1 DEF U!Present
  <2>5. \A v \in U!Present : v # u => account[v].email # handler[r].email
    BY <1>1, <1>2, UsersAssumption DEF U!Taken, U!EmailTaken, U!Present
  <2>6. QED
    BY <1>1, <2>2, <2>3, <2>4, <2>5, WriteStep
<1>5. QED
  BY <1>1, <1>3, <1>4

LEMMA WriteChangeStep ==
  ASSUME AccountInv, AvatarInv, NEW r \in Handlers, U!WriteChange(r)
  PROVE  AccountInv' /\ AvatarInv'
<1> DEFINE u == handler[r].user
           x == [account[u] EXCEPT !.email = handler[r].email]
<1>1. /\ handler[r].op = "write" /\ handler[r].kind = "change"
      /\ U!EndTransaction(r) /\ UNCHANGED <<pool, upload>>
  BY DEF U!WriteChange
<1>2. /\ ~U!Taken(handler[r]) /\ handler[r].op \in Transacting
      /\ u \in U!Present /\ u \in Users
  BY <1>1 DEF AccountInv, TransactionOK, Transacting, U!Stages, U!Present
<1>3. handler[r].email \in Emails
  BY <1>1, <1>2, HandlerFields DEF AccountInv, UsersTyped
<1>4. account[u] \in PresentAccount
  BY <1>2, AccountFields DEF AccountInv, UsersTyped, U!Present
<1>5. x \in PresentAccount /\ x.avatar = account[u].avatar /\ x.email = handler[r].email
  BY <1>3, <1>4 DEF PresentAccount
<1>6. x \in U!Account /\ x # U!Unborn
  BY <1>5 DEF PresentAccount, U!Account, U!Unborn
<1>7. account' = [account EXCEPT ![u] = x]
  BY DEF U!WriteChange
<1>8. \A v \in U!Present : v # u => account[v].email # handler[r].email
  BY <1>1, <1>2 DEF U!Taken, U!EmailTaken
<1> HIDE DEF x, u
<1>9. /\ account' \in [Users -> U!Account] /\ account'[u] = x
      /\ \A v \in Users : v # u => account'[v] = account[v]
  BY <1>2, <1>6, <1>7 DEF AccountInv, UsersTyped
<1>10. QED
  BY <1>1, <1>2, <1>5, <1>6, <1>8, <1>9, WriteStep

LEMMA TransactStep ==
  ASSUME AccountInv, AvatarInv, NEW r \in Handlers, U!Transact(r)
  PROVE  AccountInv' /\ AvatarInv'
<1>1. PoolOK /\ pool \in Nat /\ UsersTyped /\ TransactionOK(r)
  BY PoolIsANumber DEF PoolOK, AccountInv
<1>2. ASSUME U!BeginTransaction(r) PROVE AccountInv' /\ AvatarInv'
  <2>1. /\ UNCHANGED <<account, pool, lock, upload>> /\ handler[r].op = "begin"
        /\ U!FreeConnections > 0 /\ U!Goto(r, "lock")
    BY <1>2 DEF U!BeginTransaction
  <2>2. handler[r].op \in Transacting /\ "lock" \in Transacting
    BY <2>1 DEF Transacting, U!Stages
  <2>3. /\ handler' \in [Handlers -> U!Request]
        /\ \A p \in Handlers : p # r => handler'[p] = handler[p]
        /\ handler'[r].op = "lock" /\ handler'[r].kind = handler[r].kind
        /\ handler[r].kind = "change" => handler'[r].user = handler[r].user
    BY <1>1, <2>1, <2>2, GoesTo
  <2>4. TransactionOK(r)'
    BY <1>1, <2>1, <2>2, <2>3 DEF TransactionOK, U!Present, U!Unborn
  <2>5. PoolOK'
    BY <1>1, <2>1, <2>3, PoolTaken DEF InPool
  <2>6. QED
    BY <2>1, <2>2, <2>3, <2>4, <2>5, StageStep
<1>3. ASSUME U!BeginTimeout(r) PROVE AccountInv' /\ AvatarInv'
  BY <1>3, TransactionEnds DEF U!BeginTimeout
<1>4. ASSUME U!TakeLock(r) PROVE AccountInv' /\ AvatarInv'
  <2>1. /\ UNCHANGED <<account, pool, upload>> /\ handler[r].op = "lock"
        /\ lock = Nobody /\ lock' = r /\ U!Goto(r, "check")
    BY <1>4 DEF U!TakeLock
  <2>2. handler[r].op \in Transacting /\ "check" \in Transacting
    BY <2>1 DEF Transacting, U!Stages
  <2>3. /\ handler' \in [Handlers -> U!Request]
        /\ \A p \in Handlers : p # r => handler'[p] = handler[p]
        /\ handler'[r].op = "check" /\ handler'[r].kind = handler[r].kind
        /\ handler[r].kind = "change" => handler'[r].user = handler[r].user
    BY <1>1, <2>1, <2>2, GoesTo
  <2>4. TransactionOK(r)'
    BY <1>1, <2>1, <2>2, <2>3 DEF TransactionOK, U!Present, U!Unborn
  <2>5. PoolOK'
    <3>1. \A p \in Handlers : InPool(handler'[p]) => InPool(handler[p])
      BY <2>1, <2>3 DEF InPool
    <3>2. QED
      BY <1>1, <2>1, <3>1, PoolKept
  <2>6. QED
    BY <2>1, <2>2, <2>3, <2>4, <2>5, StageStep
<1>5. ASSUME U!Check(r) PROVE AccountInv' /\ AvatarInv'
  <2>1. UNCHANGED <<account, pool, upload>> /\ handler[r].op = "check" /\ lock = r
    BY <1>1, <1>5 DEF U!Check, TransactionOK
  <2>2. CASE U!Taken(handler[r])
    BY <1>5, <2>1, <2>2, TransactionEnds DEF U!Check, U!EndTransaction
  <2>3. CASE ~U!Taken(handler[r])
    <3>1. U!Goto(r, "write") /\ UNCHANGED lock
      BY <1>5, <2>3 DEF U!Check
    <3>2. handler[r].op \in Transacting /\ "write" \in Transacting
      BY <2>1 DEF Transacting, U!Stages
    <3>3. /\ handler' \in [Handlers -> U!Request]
          /\ \A p \in Handlers : p # r => handler'[p] = handler[p]
          /\ handler'[r].op = "write" /\ handler'[r].kind = handler[r].kind
          /\ handler'[r].email = handler[r].email
          /\ handler[r].kind = "create" => handler'[r].username = handler[r].username
          /\ handler[r].kind = "change" => handler'[r].user = handler[r].user
      BY <1>1, <3>1, <3>2, GoesTo
    <3>4. (~U!Taken(handler[r]))'
      BY <2>1, <2>3, <3>3 DEF U!Taken, U!UsernameTaken, U!EmailTaken, U!Present, U!Unborn
    <3>5. TransactionOK(r)'
      BY <1>1, <2>1, <3>1, <3>2, <3>3, <3>4 DEF TransactionOK, U!Present, U!Unborn
    <3>6. PoolOK'
      <4>1. \A p \in Handlers : InPool(handler'[p]) => InPool(handler[p])
        BY <2>1, <3>3 DEF InPool
      <4>2. QED
        BY <1>1, <2>1, <4>1, PoolKept
    <3>7. QED
      BY <2>1, <3>1, <3>2, <3>3, <3>5, <3>6, StageStep
  <2>4. QED
    BY <2>2, <2>3
<1>6. ASSUME U!TransactionTimeout(r) PROVE AccountInv' /\ AvatarInv'
  BY <1>1, <1>6, TransactionEnds DEF U!TransactionTimeout, U!EndTransaction, TransactionOK
<1>7. QED
  BY <1>2, <1>3, <1>4, <1>5, <1>6, WriteCreateStep, WriteChangeStep DEF U!Transact

-----------------------------------------------------------------------------
(***************************************************************************)
(* The avatars                                                             *)
(***************************************************************************)

LEMMA AvatarsAreNames ==
  ASSUME UsersTyped
  PROVE  /\ \A f \in Avatars : f # Nobody
         /\ \A u \in U!Present : account[u] \in PresentAccount /\ u \in Users
BY UsersAssumption, AccountFields DEF UsersTyped, U!Present

\* A step of r that changes no account: an upload changes only if it is nobody's
\* but r's, and what r carries then is its own.
LEMMA UploadStep ==
  ASSUME UsersTyped, AvatarInv, account' = account,
         NEW r \in Handlers,
         \A p \in Handlers : p # r => handler'[p] = handler[p],
         \A f \in Avatars :
           \/ upload'[f] = upload[f]
           \/ /\ ~Shown(f) /\ (upload[f] \in Settled => upload'[f] \in Settled)
              /\ \A p \in Handlers : p # r => ~Carries(handler[p], f),
         AvatarOK(r)',
         \A f \in Avatars : Carries(handler'[r], f) => Alone(r, f)',
         \A p \in Handlers, f \in Avatars :
           p # r /\ Carries(handler[p], f) =>
             Apart(handler'[r], f) /\ ~Carries(handler'[r], f)
  PROVE  AvatarInv'
<1>1. U!Present' = U!Present /\ \A f : Shown(f)' = Shown(f)
  BY DEF U!Present, U!Unborn, Shown
<1>2. ASSUME NEW p \in Handlers PROVE AvatarOK(p)'
  <2>1. CASE p # r
    <3> DEFINE q == handler[p]
    <3>1. handler'[p] = q /\ AvatarOK(p)
      BY <2>1 DEF AvatarInv
    <3>2. /\ q.op = "store" => q.new \in Avatars
          /\ q.op \in {"look", "install"} /\ q.new # Nobody => q.new \in Avatars
          /\ q.op = "install" /\ q.old # Nobody => q.old \in Avatars
          /\ q.op \in Removing => q.target \in Avatars
      BY HandlerFields DEF UsersTyped, Showing
    <3>3. ASSUME NEW f \in Avatars, q.op \in Showing, q.new = f PROVE upload'[f] = upload[f]
      BY <2>1, <3>3 DEF Carries
    <3>4. ASSUME NEW f \in Avatars, upload[f] \in Settled PROVE upload'[f] \in Settled
      BY <3>4
    <3>5. q.op \in Showing => q.user \in U!Present'
      BY <1>1, <3>1 DEF AvatarOK
    <3>6. /\ q.op = "store" => upload'[q.new] = "bytes"
          /\ q.op \in {"look", "install"} /\ q.new # Nobody => upload'[q.new] = "stored"
      BY <3>1, <3>2, <3>3 DEF AvatarOK, Showing
    <3>7. q.op = "install" /\ q.old # Nobody =>
            /\ upload'[q.old] \in Settled
            /\ \A u \in U!Present' : account'[u].avatar = q.old => u = q.user
      BY <1>1, <3>1, <3>2, <3>4 DEF AvatarOK
    <3>8. q.op \in Removing => upload'[q.target] \in Settled
      BY <3>1, <3>2, <3>4 DEF AvatarOK
    <3>9. handler'[p].op \in Removing => ~Shown(handler[p].target)'
      BY <1>1, <2>1, <3>1 DEF AvatarOK, Shown
    <3>10. QED
      BY <3>1, <3>5, <3>6, <3>7, <3>8, <3>9 DEF AvatarOK, Shown
  <2>2. QED
    BY <2>1
<1>3. ASSUME NEW p \in Handlers, NEW f \in Avatars, Carries(handler'[p], f) PROVE Alone(p, f)'
  <2>1. CASE p # r
    <3>1. handler'[p] = handler[p] /\ Alone(p, f)
      BY <1>3, <2>1 DEF AvatarInv
    <3>2. ~Shown(f)'
      BY <1>1, <3>1 DEF Alone
    <3>3. \A o \in Handlers : Apart(handler'[o], f) /\ (o # p => ~Carries(handler'[o], f))
      BY <1>3, <2>1, <3>1 DEF Alone
    <3>4. QED
      BY <3>2, <3>3 DEF Alone, Apart, Carries
  <2>2. QED
    BY <1>3, <2>1
<1>4. \A u \in U!Present' :
        account'[u].avatar # Nobody => upload'[account'[u].avatar] = "stored"
  BY <1>1, AvatarsAreNames DEF AvatarInv, Shown, PresentAccount
<1>5. \A u, v \in U!Present' :
        account'[u].avatar = account'[v].avatar /\ account'[u].avatar # Nobody => u = v
  BY <1>1 DEF AvatarInv
<1>6. QED
  BY <1>2, <1>3, <1>4, <1>5 DEF AvatarInv, Carries

LEMMA AvatarBytesStep ==
  ASSUME AccountInv, AvatarInv, NEW r \in Handlers, NEW u \in Users, NEW f \in Avatars,
         U!StoreBytes(r, u, f)
  PROVE  AccountInv' /\ AvatarInv'
<1> DEFINE x == [op |-> "store", user |-> u, new |-> f]
<1>1. /\ UNCHANGED <<account, pool, lock>> /\ u \in U!Present /\ U!GoOn(r, x)
      /\ upload[f] = "unused" /\ upload' = [upload EXCEPT ![f] = "bytes"]
  BY DEF U!StoreBytes, U!WriteBytes
<1>2. x \in U!Request /\ x.op = "store" /\ x.user = u /\ x.new = f
  BY DEF U!Request
<1> HIDE DEF x
<1>3. UsersTyped /\ Becomes(r, x)
  BY <1>1, <1>2, GoesOn DEF AccountInv
<1>4. /\ upload' \in [Avatars -> U!FileState] /\ upload'[f] = "bytes"
      /\ \A g \in Avatars : g # f => upload'[g] = upload[g]
  BY <1>1, <1>3 DEF UsersTyped, U!FileState
<1>5. AccountInv'
  <2>1. SameAccounts
    BY <1>1 DEF SameAccounts, U!Unborn
  <2>2. handler'[r].op \notin Transacting
    BY <1>2, <1>3 DEF Becomes, Transacting, U!Stages
  <2>3. QED
    BY <1>1, <1>3, <1>4, <2>1, <2>2, TransactionsUndisturbed DEF Becomes, UsersTyped
<1>6. ~Shown(f)
  BY <1>1, <1>3, AvatarsAreNames DEF AvatarInv, Shown
<1>7. \A p \in Handlers : Apart(handler[p], f) /\ ~Carries(handler[p], f)
  BY <1>1, <1>3, AvatarsAreNames DEF AvatarInv, AvatarOK, Apart, Carries, Showing, Settled
<1>8. AvatarOK(r)'
  <2>1. u \in U!Present'
    BY <1>1 DEF U!Present, U!Unborn
  <2>2. QED
    BY <1>2, <1>3, <1>4, <2>1 DEF AvatarOK, Becomes, Removing
<1>9. Apart(x, f) /\ \A g : Carries(x, g) => g = f
  BY <1>2 DEF Apart, Carries, Removing
<1>10. Alone(r, f)'
  <2>1. ~Shown(f)'
    BY <1>1, <1>6 DEF Shown, U!Present, U!Unborn
  <2>2. \A p \in Handlers : Apart(handler'[p], f) /\ (p # r => ~Carries(handler'[p], f))
    BY <1>3, <1>7, <1>9 DEF Becomes
  <2>3. QED
    BY <2>1, <2>2 DEF Alone, Apart, Carries
<1>11. \A p \in Handlers, g \in Avatars :
         p # r /\ Carries(handler[p], g) => Apart(handler'[r], g) /\ ~Carries(handler'[r], g)
  BY <1>2, <1>3, <1>7, <1>9 DEF Becomes, Apart, Removing
<1>12. \A g \in Avatars : Carries(handler'[r], g) => Alone(r, g)'
  BY <1>3, <1>9, <1>10 DEF Becomes
<1>13. AvatarInv'
  BY <1>1, <1>3, <1>4, <1>6, <1>7, <1>8, <1>11, <1>12, UploadStep DEF Becomes, Settled
<1>14. QED
  BY <1>5, <1>13

LEMMA SameTransactions ==
  ASSUME AccountInv, UNCHANGED <<account, pool, lock>>,
         upload' \in [Avatars -> U!FileState],
         NEW r \in Handlers, NEW x, Becomes(r, x), x.op \notin Transacting
  PROVE  AccountInv'
<1>1. SameAccounts /\ account' \in [Users -> U!Account]
  BY DEF SameAccounts, U!Unborn, AccountInv, UsersTyped
<1>2. QED
  BY <1>1, TransactionsUndisturbed DEF Becomes

\* The row of an upload is written, or the bytes are dropped.
LEMMA AvatarStoredStep ==
  ASSUME AccountInv, AvatarInv, NEW r \in Handlers
  PROVE  /\ U!StoreRow(r) => AccountInv' /\ AvatarInv'
         /\ U!StoreFails(r) => AccountInv' /\ AvatarInv'
<1> DEFINE x == [handler[r] EXCEPT !.op = "look"]
<1> SUFFICES ASSUME NEW f, f = handler[r].new
             PROVE  /\ U!StoreRow(r) => AccountInv' /\ AvatarInv'
                    /\ U!StoreFails(r) => AccountInv' /\ AvatarInv'
  OBVIOUS
<1>1. UsersTyped /\ handler[r] \in U!Request /\ AvatarOK(r)
  BY DEF AccountInv, AvatarInv, UsersTyped
<1>2. SUFFICES ASSUME handler[r].op = "store", UNCHANGED <<account, pool, lock>>,
                      NEW s \in U!FileState, upload' = [upload EXCEPT ![f] = s],
                      s \in Settled, NEW y \in U!Request, U!GoOn(r, y),
                      \/ y = x /\ s = "stored"
                      \/ y = U!Idle
               PROVE  AccountInv' /\ AvatarInv'
  <2>1. ASSUME handler[r].op = "store" PROVE x \in U!Request
    <3>1. handler[r] \in [op: {"store"}, user: Users, new: Avatars]
      BY <1>1, <2>1 DEF U!Request, U!Idle, U!Stages
    <3>2. QED
      BY <3>1 DEF U!Request
  <2>2. \A s \in {"stored", "gone"} : s \in U!FileState /\ s \in Settled
    BY DEF U!FileState, Settled
  <2>3. ASSUME U!StoreRow(r) PROVE AccountInv' /\ AvatarInv'
    BY <1>2, <2>1, <2>2, <2>3 DEF U!StoreRow, U!CreateRow, U!Goto
  <2>4. ASSUME U!StoreFails(r) PROVE AccountInv' /\ AvatarInv'
    BY <1>2, <2>2, <2>4, IdleHandler DEF U!StoreFails, U!DropBytes, U!End
  <2>5. QED
    BY <2>3, <2>4
<1>3. f \in Avatars /\ f # Nobody /\ handler[r].user \in Users
  BY <1>1, <1>2, HandlerFields, AvatarsAreNames DEF Showing
<1>4. Carries(handler[r], f) /\ Alone(r, f) /\ upload[f] = "bytes"
  BY <1>1, <1>2, <1>3 DEF AvatarInv, AvatarOK, Carries, Showing
<1>5. x.op = "look" /\ x.new = f /\ x.user = handler[r].user
  <2>1. handler[r] \in [op: {"store"}, user: Users, new: Avatars]
    BY <1>1, <1>2 DEF U!Request, U!Idle, U!Stages
  <2>2. QED
    BY <2>1
<1>6. y.op \in {"look", "idle"} /\ (y.op = "look" => y.new = f /\ y.user = handler[r].user /\ s = "stored")
  BY <1>2, <1>5, IdleHandler
<1> HIDE DEF x
<1>7. Becomes(r, y)
  BY <1>1, <1>2, GoesOn
<1>8. /\ upload' \in [Avatars -> U!FileState] /\ upload'[f] = s
      /\ \A g \in Avatars : g # f => upload'[g] = upload[g]
  BY <1>1, <1>2, <1>3 DEF UsersTyped
<1>9. AccountInv'
  <2>1. y.op \notin Transacting
    BY <1>6 DEF Transacting, U!Stages
  <2>2. QED
    BY <1>2, <1>7, <1>8, <2>1, SameTransactions
<1>10. AvatarOK(r)'
  <2>1. handler[r].user \in U!Present'
    BY <1>1, <1>2 DEF AvatarOK, Showing, U!Present, U!Unborn
  <2>2. handler'[r] = y
    BY <1>7 DEF Becomes
  <2>3. QED
    BY <1>6, <1>8, <2>1, <2>2 DEF AvatarOK, Removing, Showing
<1>11. /\ \A g \in Avatars : Carries(handler'[r], g) => g = f
       /\ \A g : Apart(handler'[r], g)
  BY <1>6, <1>7 DEF Becomes, Carries, Apart, Showing, Removing
<1>12. Alone(r, f)'
  <2>1. ~Shown(f)'
    BY <1>2, <1>4 DEF Alone, Shown, U!Present, U!Unborn
  <2>2. \A p \in Handlers : Apart(handler'[p], f) /\ (p # r => ~Carries(handler'[p], f))
    BY <1>4, <1>7, <1>11 DEF Becomes, Alone
  <2>3. QED
    BY <2>1, <2>2 DEF Alone, Apart, Carries
<1>13. \A p \in Handlers, g \in Avatars :
         p # r /\ Carries(handler[p], g) => Apart(handler'[r], g) /\ ~Carries(handler'[r], g)
  BY <1>4, <1>11 DEF Alone
<1>14. AvatarInv'
  <2>1. \A g \in Avatars :
          \/ upload'[g] = upload[g]
          \/ /\ ~Shown(g) /\ (upload[g] \in Settled => upload'[g] \in Settled)
             /\ \A p \in Handlers : p # r => ~Carries(handler[p], g)
    BY <1>2, <1>4, <1>8 DEF Alone
  <2>2. \A g \in Avatars : Carries(handler'[r], g) => Alone(r, g)'
    BY <1>11, <1>12
  <2>3. QED
    BY <1>1, <1>2, <1>7, <1>10, <1>13, <2>1, <2>2, UploadStep DEF Becomes
<1>15. QED
  BY <1>9, <1>14

LEMMA AvatarReadStep ==
  ASSUME AccountInv, AvatarInv, NEW r \in Handlers
  PROVE  /\ \A u \in Users : U!DeleteAvatar(r, u) => AccountInv' /\ AvatarInv'
         /\ U!SetAvatarRead(r) => AccountInv' /\ AvatarInv'
<1>1. UsersTyped /\ upload \in [Avatars -> U!FileState]
  BY DEF AccountInv, UsersTyped
<1>2. ASSUME NEW u \in Users, U!DeleteAvatar(r, u) PROVE AccountInv' /\ AvatarInv'
  <2> DEFINE x == [op |-> "look", user |-> u, new |-> Nobody]
  <2>1. /\ UNCHANGED <<account, pool, lock, upload>> /\ u \in U!Present /\ U!GoOn(r, x)
    BY <1>2 DEF U!DeleteAvatar
  <2>2. x \in U!Request /\ x.op = "look" /\ x.user = u /\ x.new = Nobody
    BY DEF U!Request
  <2> HIDE DEF x
  <2>3. Becomes(r, x)
    BY <1>1, <2>1, <2>2, GoesOn
  <2>4. AccountInv'
    <3>1. x.op \notin Transacting
      BY <2>2 DEF Transacting, U!Stages
    <3>2. QED
      BY <1>1, <2>1, <2>3, <3>1, SameTransactions
  <2>5. AvatarOK(r)'
    BY <2>1, <2>2, <2>3 DEF AvatarOK, Becomes, Removing, U!Present, U!Unborn
  <2>6. \A f \in Avatars : ~Carries(handler'[r], f) /\ Apart(handler'[r], f)
    BY <1>1, <2>2, <2>3, AvatarsAreNames DEF Becomes, Carries, Apart, Removing
  <2>7. AvatarInv'
    BY <1>1, <2>1, <2>3, <2>5, <2>6, UploadStep DEF Becomes
  <2>8. QED
    BY <2>4, <2>7
<1>3. ASSUME U!SetAvatarRead(r) PROVE AccountInv' /\ AvatarInv'
  <2> DEFINE q == handler[r]
             u == handler[r].user
             x == [op |-> "install", user |-> u, new |-> q.new, old |-> account[u].avatar]
  <2>1. UNCHANGED <<account, pool, lock, upload>> /\ q.op = "look" /\ U!GoOn(r, x)
    BY <1>3 DEF U!SetAvatarRead
  <2>2. /\ q \in U!Request /\ AvatarOK(r) /\ u \in U!Present /\ u \in Users
        /\ q.new \in Avatars \cup {Nobody}
        /\ account[u].avatar \in Avatars \cup {Nobody}
    <3>1. q \in U!Request /\ AvatarOK(r) /\ q.op \in Showing
      BY <1>1, <2>1 DEF AvatarInv, UsersTyped, Showing
    <3>2. u \in U!Present
      BY <3>1 DEF AvatarOK
    <3>3. account[u] \in PresentAccount /\ u \in Users
      BY <1>1, <3>2, AvatarsAreNames
    <3>4. QED
      BY <3>1, <3>2, <3>3, HandlerFields DEF PresentAccount
  <2>3. x \in U!Request /\ x.op = "install" /\ x.user = u /\ x.new = q.new /\ x.old = account[u].avatar
    BY <2>2 DEF U!Request
  <2> HIDE DEF x
  <2>4. Becomes(r, x)
    BY <1>1, <2>1, <2>3, GoesOn
  <2>5. AccountInv'
    <3>1. x.op \notin Transacting
      BY <2>3 DEF Transacting, U!Stages
    <3>2. QED
      BY <1>1, <2>1, <2>4, <3>1, SameTransactions
  <2>6. AvatarOK(r)'
    <3>1. u \in U!Present' /\ U!Present' = U!Present
      BY <2>1, <2>2 DEF U!Present, U!Unborn
    <3>2. q.new # Nobody => upload[q.new] = "stored"
      BY <2>1, <2>2 DEF AvatarOK
    <3>3. account[u].avatar # Nobody =>
            /\ upload[account[u].avatar] \in Settled
            /\ \A v \in U!Present : account[v].avatar = account[u].avatar => v = u
      BY <2>2 DEF AvatarInv, Settled
    <3>4. handler'[r] = x
      BY <2>4 DEF Becomes
    <3>5. QED
      BY <2>1, <2>3, <3>1, <3>2, <3>3, <3>4 DEF AvatarOK, Removing
  <2>8. \A f \in Avatars : Carries(handler'[r], f) => Carries(q, f)
    BY <2>1, <2>3, <2>4 DEF Becomes, Carries, Showing
  <2>9. \A f \in Avatars : ~Shown(f) => Apart(handler'[r], f)
    BY <2>2, <2>3, <2>4 DEF Becomes, Apart, Removing, Shown
  <2>10. ASSUME NEW f \in Avatars, Carries(handler'[r], f) PROVE Alone(r, f)'
    <3>1. Alone(r, f)
      BY <2>8, <2>10 DEF AvatarInv
    <3>2. ~Shown(f)'
      BY <2>1, <3>1 DEF Alone, Shown, U!Present, U!Unborn
    <3>3. \A p \in Handlers : Apart(handler'[p], f) /\ (p # r => ~Carries(handler'[p], f))
      BY <2>4, <2>9, <3>1 DEF Becomes, Alone
    <3>4. QED
      BY <3>2, <3>3 DEF Alone, Apart, Carries
  <2>11. ASSUME NEW p \in Handlers, NEW f \in Avatars, p # r, Carries(handler[p], f)
         PROVE  Apart(handler'[r], f) /\ ~Carries(handler'[r], f)
    <3>1. Alone(p, f)
      BY <2>11 DEF AvatarInv
    <3>2. QED
      BY <2>8, <2>9, <2>11, <3>1 DEF Alone
  <2>12. AvatarInv'
    BY <1>1, <2>1, <2>4, <2>6, <2>10, <2>11, UploadStep DEF Becomes
  <2>13. QED
    BY <2>5, <2>12
<1>4. QED
  BY <1>2, <1>3

\* A file that is nobody's avatar loses its row, and then its bytes.
LEMMA AvatarRemovedStep ==
  ASSUME AccountInv, AvatarInv, NEW r \in Handlers
  PROVE  /\ U!RemoveFileRow(r) => AccountInv' /\ AvatarInv'
         /\ U!RemoveFileBytes(r) => AccountInv' /\ AvatarInv'
<1> SUFFICES ASSUME NEW f, f = handler[r].target
             PROVE  /\ U!RemoveFileRow(r) => AccountInv' /\ AvatarInv'
                    /\ U!RemoveFileBytes(r) => AccountInv' /\ AvatarInv'
  OBVIOUS
<1>1. UsersTyped /\ handler[r] \in U!Request /\ AvatarOK(r)
  BY DEF AccountInv, AvatarInv, UsersTyped
<1>2. handler[r].op \in Removing => f \in Avatars /\ upload[f] \in Settled /\ ~Shown(f)
  <2>1. handler[r].op \in Removing => f \in Avatars
    BY <1>1, HandlerFields
  <2>2. handler[r].op \in Removing => upload[f] \in Settled
    BY <1>1 DEF AvatarOK
  <2>3. handler[r].op \in Removing => ~Shown(handler[r].target)
    BY <1>1 DEF AvatarOK
  <2>4. QED
    BY <2>1, <2>2, <2>3
<1>3. ASSUME handler[r].op \in Removing, UNCHANGED <<account, pool, lock>>,
             NEW s \in Settled, upload' = [upload EXCEPT ![f] = s],
             NEW y \in U!Request, U!GoOn(r, y),
             \/ y = U!Idle
             \/ y.op = "removeBytes" /\ y.target = f
      PROVE  AccountInv' /\ AvatarInv'
  <2>1. Becomes(r, y)
    BY <1>1, <1>3, GoesOn
  <2>2. /\ upload' \in [Avatars -> U!FileState] /\ upload'[f] = s
        /\ \A g \in Avatars : g # f => upload'[g] = upload[g]
    BY <1>1, <1>2, <1>3 DEF UsersTyped, U!FileState, Settled
  <2>3. y.op \in {"idle", "removeBytes"} /\ (y.op = "removeBytes" => y.target = f)
    BY <1>3, IdleHandler
  <2>4. AccountInv'
    <3>1. y.op \notin Transacting
      BY <2>3 DEF Transacting, U!Stages
    <3>2. QED
      BY <1>3, <2>1, <2>2, <3>1, SameTransactions
  <2>5. ~Shown(f)'
    BY <1>2, <1>3 DEF Shown, U!Present, U!Unborn
  <2>6. AvatarOK(r)'
    <3>1. handler'[r] = y
      BY <2>1 DEF Becomes
    <3>2. handler'[r].op \in Removing => ~Shown(handler[r].target)'
      BY <2>3, <2>5, <3>1 DEF Removing, Shown
    <3>3. QED
      BY <1>3, <2>2, <2>3, <3>1, <3>2 DEF AvatarOK, Removing, Showing
  <2>7. ASSUME NEW p \in Handlers, NEW g \in Avatars, p # r, Carries(handler[p], g)
        PROVE  g # f /\ Apart(handler'[r], g) /\ ~Carries(handler'[r], g)
    <3>1. Apart(handler[r], g)
      BY <2>7 DEF AvatarInv, Alone
    <3>2. g # f
      BY <1>3, <3>1 DEF Apart
    <3>3. QED
      BY <2>1, <2>3, <3>2 DEF Becomes, Apart, Carries, Showing, Removing
  <2>8. \A g \in Avatars : ~Carries(handler'[r], g)
    BY <2>1, <2>3 DEF Becomes, Carries, Showing
  <2>9. \A g \in Avatars :
          \/ upload'[g] = upload[g]
          \/ /\ ~Shown(g) /\ (upload[g] \in Settled => upload'[g] \in Settled)
             /\ \A p \in Handlers : p # r => ~Carries(handler[p], g)
    BY <1>2, <1>3, <2>2, <2>7
  <2>10. AvatarInv'
    BY <1>1, <1>3, <2>1, <2>6, <2>7, <2>8, <2>9, UploadStep DEF Becomes
  <2>11. QED
    BY <2>4, <2>10
<1>4. ASSUME U!RemoveFileRow(r) PROVE AccountInv' /\ AvatarInv'
  <2>1. handler[r].op \in Removing /\ UNCHANGED <<pool, lock>>
    BY <1>4 DEF U!RemoveFileRow, Removing
  <2>2. CASE upload[f] = "stored"
    <3> DEFINE y == [op |-> "removeBytes", target |-> f]
    <3>1. /\ upload' = [upload EXCEPT ![f] = "rowless"] /\ U!GoOn(r, y)
          /\ account' = [u \in Users |->
               IF u \in U!Present /\ account[u].avatar = f
               THEN [account[u] EXCEPT !.avatar = Nobody] ELSE account[u]]
      BY <1>4, <2>2 DEF U!RemoveFileRow, U!DeleteRow
    <3>2. account' = account
      BY <1>1, <1>2, <2>1, <3>1 DEF Shown, UsersTyped
    <3>3. y \in U!Request /\ y.op = "removeBytes" /\ y.target = f /\ "rowless" \in Settled
      BY <1>2, <2>1 DEF U!Request, Settled
    <3> HIDE DEF y
    <3>4. QED
      BY <1>3, <2>1, <3>1, <3>2, <3>3
  <2>3. CASE upload[f] # "stored"
    <3>1. UNCHANGED <<upload, account>> /\ U!GoOn(r, U!Idle)
      BY <1>4, <2>3 DEF U!RemoveFileRow, U!End
    <3>2. upload' = [upload EXCEPT ![f] = upload[f]]
      BY <1>1, <3>1 DEF UsersTyped
    <3>3. ASSUME NEW s, s = upload[f] PROVE AccountInv' /\ AvatarInv'
      BY <1>2, <1>3, <2>1, <3>1, <3>2, <3>3, IdleHandler
    <3>4. QED
      BY <3>3
  <2>4. QED
    BY <2>2, <2>3
<1>5. ASSUME U!RemoveFileBytes(r) PROVE AccountInv' /\ AvatarInv'
  <2>1. /\ handler[r].op \in Removing /\ UNCHANGED <<account, pool, lock>>
        /\ upload' = [upload EXCEPT ![f] = "gone"] /\ U!GoOn(r, U!Idle) /\ "gone" \in Settled
    BY <1>5 DEF U!RemoveFileBytes, U!RemoveBytes, U!End, Removing, Settled
  <2>2. QED
    BY <1>3, <2>1, IdleHandler
<1>6. QED
  BY <1>4, <1>5

\* What r has stored for u, or nothing, replaces what r has read: the one is
\* nobody's before the step, the other nobody's after it.
LEMMA AvatarWriteStep ==
  ASSUME AccountInv, AvatarInv, NEW r \in Handlers, U!SetAvatarWrite(r)
  PROVE  AccountInv' /\ AvatarInv'
<1> SUFFICES ASSUME NEW u, u = handler[r].user, NEW new, new = handler[r].new,
                    NEW old, old = handler[r].old
             PROVE  AccountInv' /\ AvatarInv'
  OBVIOUS
<1>1. UsersTyped /\ handler[r] \in U!Request /\ AvatarOK(r) /\ handler[r].op = "install"
  BY DEF AccountInv, AvatarInv, UsersTyped, U!SetAvatarWrite
<1>2. u \in U!Present /\ u \in Users /\ account[u] \in PresentAccount
  BY <1>1, AvatarsAreNames DEF AvatarOK, Showing
<1>3. new \in Avatars \cup {Nobody} /\ old \in Avatars \cup {Nobody}
  BY <1>1, HandlerFields DEF Showing
<1>4. /\ account' \in [Users -> U!Account] /\ U!Present' = U!Present
      /\ account'[u].avatar = new /\ SameAccounts
      /\ \A v \in Users : v # u => account'[v] = account[v]
  <2> DEFINE x == [account[u] EXCEPT !.avatar = new]
  <2>1. account' = [account EXCEPT ![u] = x]
    BY DEF U!SetAvatarWrite
  <2>2. /\ x \in PresentAccount /\ x.avatar = new /\ x.email = account[u].email
        /\ x.username = account[u].username
    BY <1>2, <1>3 DEF PresentAccount
  <2>3. x \in U!Account /\ x # U!Unborn
    BY <2>2 DEF PresentAccount, U!Account, U!Unborn
  <2> HIDE DEF x
  <2>4. /\ account' \in [Users -> U!Account] /\ account'[u] = x
        /\ \A v \in Users : v # u => account'[v] = account[v]
    BY <1>1, <1>2, <2>1, <2>3 DEF UsersTyped
  <2>5. SameAccounts
    BY <1>2, <2>2, <2>3, <2>4 DEF SameAccounts, U!Present, U!Unborn
  <2>6. U!Present' = U!Present
    BY <2>5, SameIsTaken
  <2>7. QED
    BY <2>2, <2>4, <2>5, <2>6
<1>5. UNCHANGED <<pool, lock, upload>>
  BY DEF U!SetAvatarWrite
<1>6. PICK y \in U!Request :
        /\ Becomes(r, y)
        /\ y.op \in {"idle", "removeFile"}
        /\ y.op = "removeFile" => y.target = old /\ old \in Avatars
  <2>1. CASE old = Nobody
    <3>1. U!GoOn(r, U!Idle)
      BY <2>1 DEF U!SetAvatarWrite, U!Previous, U!End
    <3>2. QED
      BY <1>1, <3>1, GoesOn, IdleHandler
  <2>2. CASE old # Nobody
    <3> DEFINE y == [op |-> "removeFile", target |-> old]
    <3>1. U!GoOn(r, y)
      BY <2>2 DEF U!SetAvatarWrite, U!Previous
    <3>2. y \in U!Request /\ y.op = "removeFile" /\ y.target = old /\ old \in Avatars
      BY <1>3, <2>2 DEF U!Request
    <3> HIDE DEF y
    <3>3. QED
      BY <1>1, <3>1, <3>2, GoesOn
  <2>3. QED
    BY <2>1, <2>2
<1>7. AccountInv'
  <2>1. handler'[r].op \notin Transacting
    BY <1>6 DEF Becomes, Transacting, U!Stages
  <2>2. QED
    BY <1>1, <1>4, <1>5, <1>6, <2>1, TransactionsUndisturbed DEF Becomes, UsersTyped
<1>8. new # Nobody => upload[new] = "stored" /\ Alone(r, new) /\ new # old
  <2>1. new # Nobody => Carries(handler[r], new) /\ new \in Avatars
    BY <1>1, <1>3 DEF Carries, Showing
  <2>2. QED
    BY <1>1, <2>1 DEF AvatarInv, AvatarOK, Alone, Apart
<1>9. old # Nobody =>
        /\ upload[old] \in Settled
        /\ \A v \in U!Present : account[v].avatar = old => v = u
  BY <1>1 DEF AvatarOK
<1>10. \A f : f # Nobody /\ f # new /\ ~Shown(f) => ~Shown(f)'
  BY <1>4 DEF Shown, U!Present
<1>11. old # Nobody => ~Shown(old)'
  BY <1>4, <1>8, <1>9 DEF Shown, U!Present
<1>12. ASSUME NEW p \in Handlers PROVE AvatarOK(p)'
  <2>1. CASE p = r
    <3>1. handler'[p] = y
      BY <1>6, <2>1 DEF Becomes
    <3>2. y.op = "removeFile" => upload'[old] \in Settled /\ ~Shown(old)' /\ y.target = old
      BY <1>5, <1>6, <1>9, <1>11, AvatarsAreNames, <1>1
    <3>3. y.op \notin Showing /\ (y.op \in Removing => y.op = "removeFile")
      BY <1>6 DEF Showing, Removing
    <3>4. QED
      BY <3>1, <3>2, <3>3 DEF AvatarOK, Shown, Showing
  <2>2. CASE p # r
    <3> SUFFICES ASSUME NEW q, q = handler[p]
                 PROVE  AvatarOK(p)'
      OBVIOUS
    <3>1. handler'[p] = q /\ AvatarOK(p) /\ q \in U!Request
      BY <1>1, <1>6, <2>2 DEF Becomes, AvatarInv, UsersTyped
    <3>2. new # Nobody => Apart(q, new)
      BY <1>8 DEF Alone
    <3>3. q.op \in Showing => q.user \in U!Present'
      BY <1>4, <3>1 DEF AvatarOK
    <3>4. ASSUME q.op = "install", q.old # Nobody, NEW v \in U!Present', account'[v].avatar = q.old
          PROVE  v = q.user
      <4>1. v # u
        BY <1>4, <3>2, <3>4 DEF Apart
      <4>2. account[v].avatar = q.old /\ v \in U!Present
        BY <1>4, <3>4, <4>1 DEF U!Present
      <4>3. QED
        BY <3>1, <3>4, <4>2 DEF AvatarOK
    <3>5. q.op \in Removing => ~Shown(q.target)'
      <4>1. q.op \in Removing => q.target \in Avatars /\ q.target # Nobody
        BY <1>1, <3>1, HandlerFields, AvatarsAreNames
      <4>2. q.op \in Removing => ~Shown(q.target)
        BY <3>1 DEF AvatarOK
      <4>3. QED
        BY <1>10, <3>2, <4>1, <4>2 DEF Apart
    <3>6. QED
      BY <1>5, <3>1, <3>3, <3>4, <3>5 DEF AvatarOK, Shown
  <2>3. QED
    BY <2>1, <2>2
<1>13. ASSUME NEW p \in Handlers, NEW f \in Avatars, Carries(handler'[p], f) PROVE Alone(p, f)'
  <2>1. p # r /\ Carries(handler[p], f) /\ Alone(p, f)
    <3>1. p # r
      BY <1>6, <1>13 DEF Becomes, Carries, Showing
    <3>2. QED
      BY <1>6, <1>13, <3>1 DEF Becomes, AvatarInv
  <2>2. f # Nobody
    BY <1>1, AvatarsAreNames
  <2>3. f # new
    BY <1>8, <2>1, <2>2 DEF Alone
  <2>4. ~Shown(f)'
    BY <1>10, <2>1, <2>2, <2>3 DEF Alone
  <2>5. f # old
    BY <1>1, <2>1 DEF Alone, Apart
  <2>6. ASSUME NEW o \in Handlers
        PROVE  Apart(handler'[o], f) /\ (o # p => ~Carries(handler'[o], f))
    <3>1. CASE o = r
      BY <1>6, <2>5, <3>1 DEF Becomes, Apart, Carries, Showing, Removing
    <3>2. CASE o # r
      BY <1>6, <2>1, <3>2 DEF Becomes, Alone
    <3>3. QED
      BY <3>1, <3>2
  <2>7. QED
    BY <2>4, <2>6 DEF Alone, Apart, Carries
<1>14. ASSUME NEW v \in U!Present', account'[v].avatar # Nobody
       PROVE  upload'[account'[v].avatar] = "stored"
  BY <1>4, <1>5, <1>8, <1>14 DEF AvatarInv, U!Present
<1>15. ASSUME NEW v \in U!Present', NEW w \in U!Present',
              account'[v].avatar = account'[w].avatar, account'[v].avatar # Nobody
       PROVE  v = w
  <2>1. new # Nobody => ~Shown(new)
    BY <1>8 DEF Alone
  <2>2. \A x \in U!Present : x # u /\ new # Nobody => account[x].avatar # new
    BY <2>1 DEF Shown
  <2>3. QED
    BY <1>4, <1>15, <2>2 DEF AvatarInv, U!Present
<1>16. AvatarInv'
  BY <1>12, <1>13, <1>14, <1>15 DEF AvatarInv, Carries
<1>17. QED
  BY <1>7, <1>16

\* The process dies: what handlers carried, replaced or removed is nobody's.
LEMMA AccountCrashStep ==
  ASSUME AccountInv, AvatarInv, U!Crash
  PROVE  AccountInv' /\ AvatarInv'
<1>1. /\ UNCHANGED <<account, pool, upload>> /\ lock' = Nobody
      /\ handler' = [r \in Handlers |-> U!Idle]
  BY DEF U!Crash
<1>2. UsersTyped /\ handler' \in [Handlers -> U!Request]
      /\ \A r \in Handlers : handler'[r].op = "idle"
  BY <1>1, IdleHandler DEF AccountInv
<1>3. UsersTyped'
  BY <1>1, <1>2 DEF UsersTyped
<1>4. U!EmailsAreUnique'
  BY <1>1 DEF AccountInv, U!EmailsAreUnique, U!Present, U!Unborn
<1>5. PoolOK'
  <2>1. \A p \in Handlers : InPool(handler'[p]) => InPool(handler[p])
    BY <1>2 DEF InPool
  <2>2. PoolOK /\ pool \in Nat
    BY PoolIsANumber DEF PoolOK, AccountInv
  <2>3. QED
    BY <1>1, <2>1, <2>2, PoolKept
<1>6. \A r \in Handlers : TransactionOK(r)'
  BY <1>2 DEF TransactionOK, Transacting, U!Stages
<1>7. AvatarInv'
  <2>1. \A p \in Handlers : handler'[p].op \notin Showing \cup Removing
    BY <1>2 DEF Showing, Removing
  <2>2. QED
    BY <1>1, <1>2, <2>1, AvatarsUndisturbed DEF U!Present, U!Unborn
<1>8. QED
  BY <1>3, <1>4, <1>5, <1>6, <1>7 DEF AccountInv, PoolOK

LEMMA AccountsInit == ASSUME U!Init PROVE AccountInv /\ AvatarInv
<1> DEFINE x == [state |-> "present", username |-> FirstName, email |-> FirstEmail,
                 avatar |-> Nobody]
<1>1. x \in U!Account /\ x # U!Unborn /\ x.avatar = Nobody /\ U!Unborn \in U!Account
  BY UsersAssumption DEF U!Account, U!Unborn
<1>2. account = [u \in Users |-> IF u = First THEN x ELSE U!Unborn]
  BY DEF U!Init
<1> HIDE DEF x
<1>3. UsersTyped /\ \A r \in Handlers : handler[r].op = "idle"
  <2>1. upload \in [Avatars -> U!FileState]
    BY DEF U!Init, U!FileInit, U!FileState
  <2>2. handler \in [Handlers -> U!Request] /\ \A r \in Handlers : handler[r].op = "idle"
    BY IdleHandler DEF U!Init
  <2>3. QED
    BY <1>1, <1>2, <2>1, <2>2 DEF U!Init, UsersTyped
<1>4. \A u \in U!Present : u = First /\ account[u].avatar = Nobody
  BY <1>1, <1>2 DEF U!Present
<1>5. IsFiniteSet(U!InTransaction) /\ Cardinality(U!InTransaction) <= pool
  <2>1. U!InTransaction = {}
    BY <1>3 DEF U!InTransaction
  <2>2. QED
    BY <1>3, <2>1, FS_EmptySet, PoolIsANumber
<1>6. AccountInv
  BY <1>3, <1>4, <1>5
     DEF AccountInv, U!EmailsAreUnique, TransactionOK, Transacting, U!Stages
<1>7. AvatarInv
  BY <1>3, <1>4 DEF AvatarInv, AvatarOK, Carries, Showing, Removing
<1>8. QED
  BY <1>6, <1>7

LEMMA AccountsStep ==
  ASSUME AccountInv, AvatarInv, [U!Next]_U!vars
  PROVE  AccountInv' /\ AvatarInv'
<1>1. CASE UNCHANGED U!vars
  <2>1. UNCHANGED <<account, pool, lock, handler, upload>>
    BY <1>1 DEF U!vars
  <2>2. AccountInv'
    BY <2>1 DEF AccountInv, UsersTyped, U!EmailsAreUnique, U!Present, U!Unborn,
                U!InTransaction, TransactionOK, U!Taken, U!UsernameTaken, U!EmailTaken
  <2>3. AvatarInv'
    BY <2>1, AvatarsUndisturbed DEF AccountInv, U!Present, U!Unborn
  <2>4. QED
    BY <2>2, <2>3
<1>2. CASE U!Crash
  BY <1>2, AccountCrashStep
<1>3. ASSUME NEW r \in Handlers, U!AvatarBegins(r) PROVE AccountInv' /\ AvatarInv'
  BY <1>3, AvatarBytesStep, AvatarReadStep DEF U!AvatarBegins
<1>4. ASSUME NEW r \in Handlers, U!AvatarGoesOn(r) PROVE AccountInv' /\ AvatarInv'
  BY <1>4, AvatarStoredStep, AvatarReadStep, AvatarWriteStep, AvatarRemovedStep
     DEF U!AvatarGoesOn
<1>5. QED
  BY <1>1, <1>2, <1>3, <1>4, PrepareStep, TransactStep DEF U!Next

LEMMA AccountsKeepInv == UsersSpec => [](AccountInv /\ AvatarInv)
<1>1. U!Init => AccountInv /\ AvatarInv
  BY AccountsInit
<1>2. AccountInv /\ AvatarInv /\ [U!Next]_U!vars => (AccountInv /\ AvatarInv)'
  BY AccountsStep
<1>3. QED
  BY <1>1, <1>2, PTL DEF UsersSpec, U!Spec

\* A handler that goes on takes the lock when it comes to its lookups and lets it
\* go when it leaves its transaction.
Locked(x) == x.op \in {"check", "write"}

LEMMA LockMoves ==
  ASSUME U!LockGoesWithTransaction, UsersTyped, NEW r \in Handlers, NEW x, Becomes(r, x),
         \/ lock' = lock /\ (Locked(x) <=> Locked(handler[r]))
         \/ lock = Nobody /\ lock' = r /\ Locked(x)
         \/ lock = r /\ lock' = Nobody /\ ~Locked(x)
  PROVE  U!LockGoesWithTransaction'
<1>1. \A p \in Handlers : (lock = p <=> Locked(handler[p])) /\ p # Nobody
  BY UsersAssumption DEF U!LockGoesWithTransaction, Locked
<1>2. \A p \in Handlers : lock' = p <=> Locked(handler'[p])
  BY <1>1 DEF Becomes
<1> QED
  BY <1>2 DEF U!LockGoesWithTransaction, Locked

LEMMA LockMovesOn ==
  ASSUME U!LockGoesWithTransaction, UsersTyped, NEW r \in Handlers, NEW o \in Transacting,
         handler[r].op \in Transacting, U!Goto(r, o),
         \/ lock' = lock /\ (o \in {"check", "write"} <=> Locked(handler[r]))
         \/ lock = Nobody /\ lock' = r /\ o = "check"
  PROVE  U!LockGoesWithTransaction'
<1>1. Becomes(r, handler'[r]) /\ handler'[r].op = o
  BY GoesTo DEF Becomes
<1> QED
  BY <1>1, LockMoves DEF Locked

LEMMA LockEnds ==
  ASSUME U!LockGoesWithTransaction, UsersTyped, NEW r \in Handlers, U!End(r),
         \/ lock' = lock /\ ~Locked(handler[r])
         \/ lock' = Nobody /\ Locked(handler[r])
  PROVE  U!LockGoesWithTransaction'
<1>1. Becomes(r, U!Idle) /\ ~Locked(U!Idle)
  BY GoesOn, IdleHandler DEF U!End, Locked, U!Idle
<1>2. Locked(handler[r]) => lock = r
  BY DEF U!LockGoesWithTransaction, Locked
<1> QED
  BY <1>1, <1>2, LockMoves

LEMMA LockTransactStep ==
  ASSUME U!LockGoesWithTransaction, UsersTyped, NEW r \in Handlers,
         U!Prepares(r) \/ U!Transact(r)
  PROVE  U!LockGoesWithTransaction'
<1>1. {"prepared", "begin", "lock", "check", "write"} = Transacting
  BY DEF Transacting, U!Stages
<1>2. ASSUME NEW q \in U!Request, q.op = "prepared", handler[r] = U!Idle, U!Prepare(r, q)
      PROVE  U!LockGoesWithTransaction'
  BY <1>2, GoesOn, LockMoves DEF U!Prepare, Locked, U!Idle
<1>3. ASSUME NEW n \in Usernames, NEW e \in Emails, U!PrepareCreate(r, n, e)
      PROVE  U!LockGoesWithTransaction'
  <2> DEFINE q == [op |-> "prepared", kind |-> "create", username |-> n, email |-> e]
  <2>1. q \in U!Request /\ q.op = "prepared" /\ handler[r] = U!Idle /\ U!Prepare(r, q)
    BY <1>3 DEF U!Request, U!Stages, U!PrepareCreate
  <2> HIDE DEF q
  <2> QED
    BY <1>2, <2>1
<1>4. ASSUME NEW u \in Users, NEW e \in Emails, U!PrepareChange(r, u, e)
      PROVE  U!LockGoesWithTransaction'
  <2> DEFINE q == [op |-> "prepared", kind |-> "change", user |-> u, email |-> e]
  <2>1. q \in U!Request /\ q.op = "prepared" /\ handler[r] = U!Idle /\ U!Prepare(r, q)
    BY <1>4 DEF U!Request, U!Stages, U!PrepareChange
  <2> HIDE DEF q
  <2> QED
    BY <1>2, <2>1
<1>5. ASSUME U!Execute(r) \/ U!BeginTransaction(r) \/ U!TakeLock(r)
      PROVE  U!LockGoesWithTransaction'
  <2>1. CASE U!Execute(r)
    BY <1>1, <2>1, LockMovesOn DEF U!Execute, Locked
  <2>2. CASE U!BeginTransaction(r)
    BY <1>1, <2>2, LockMovesOn DEF U!BeginTransaction, Locked
  <2>3. CASE U!TakeLock(r)
    BY <1>1, <2>3, LockMovesOn DEF U!TakeLock, Locked
  <2> QED
    BY <1>5, <2>1, <2>2, <2>3
<1>6. ASSUME U!Expire(r) \/ U!BeginTimeout(r) PROVE U!LockGoesWithTransaction'
  BY <1>6, LockEnds DEF U!Expire, U!BeginTimeout, Locked
<1>7. ASSUME U!EndTransaction(r), Locked(handler[r]) PROVE U!LockGoesWithTransaction'
  BY <1>7, LockEnds DEF U!EndTransaction
<1>8. ASSUME U!TransactionTimeout(r) \/ U!WriteChange(r) \/ \E u \in Users : U!WriteCreate(r, u)
      PROVE  U!LockGoesWithTransaction'
  BY <1>7, <1>8 DEF U!TransactionTimeout, U!WriteChange, U!WriteCreate, Locked
<1>9. ASSUME U!Check(r) PROVE U!LockGoesWithTransaction'
  <2>1. handler[r].op = "check" /\ (U!EndTransaction(r) \/ (U!Goto(r, "write") /\ lock' = lock))
    BY <1>9 DEF U!Check
  <2> QED
    BY <1>1, <1>7, <2>1, LockMovesOn DEF Locked
<1> QED
  BY <1>3, <1>4, <1>5, <1>6, <1>8, <1>9 DEF U!Prepares, U!Transact

\* The steps of an avatar are no transaction's.
LEMMA LockAvatarStep ==
  ASSUME U!LockGoesWithTransaction, NEW r \in Handlers, UsersTyped, UsersTyped',
         U!AvatarBegins(r) \/ U!AvatarGoesOn(r)
  PROVE  U!LockGoesWithTransaction'
<1>1. lock' = lock /\ ~Locked(handler[r])
  <2>1. ASSUME U!AvatarBegins(r) PROVE lock' = lock /\ ~Locked(handler[r])
    BY <2>1, IdleHandler DEF U!AvatarBegins, U!StoreBytes, U!DeleteAvatar, Locked
  <2>2. ASSUME U!AvatarGoesOn(r)
        PROVE  lock' = lock /\ handler[r].op \in {"store", "look", "install", "removeFile", "removeBytes"}
    BY <2>2 DEF U!AvatarGoesOn, U!StoreRow, U!StoreFails, U!SetAvatarRead, U!SetAvatarWrite,
       U!RemoveFileRow, U!RemoveFileBytes
  <2> QED
    BY <2>1, <2>2 DEF Locked
<1>2. \E x : handler' = [handler EXCEPT ![r] = x] /\ ~Locked(x)
  <2>1. ASSUME U!StoreRow(r)
        PROVE  handler' = [handler EXCEPT ![r] = [handler[r] EXCEPT !.op = "look"]]
               /\ ~Locked([handler[r] EXCEPT !.op = "look"])
    BY <2>1, HandlerFields DEF U!StoreRow, U!Goto, U!GoOn, Locked, UsersTyped, U!Request, U!Stages, U!Idle
  <2>2. ASSUME ~U!StoreRow(r) PROVE \E x : handler' = [handler EXCEPT ![r] = x] /\ ~Locked(x)
    BY <2>2 DEF U!AvatarBegins, U!AvatarGoesOn, U!StoreBytes, U!DeleteAvatar, U!StoreFails,
       U!SetAvatarRead, U!SetAvatarWrite, U!RemoveFileRow, U!RemoveFileBytes, U!GoOn, U!End,
       U!Idle, Locked
  <2> QED
    BY <2>1, <2>2
<1>3. PICK x : Becomes(r, x) /\ ~Locked(x)
  BY <1>2 DEF Becomes, UsersTyped
<1> QED
  BY <1>1, <1>3, LockMoves

LEMMA LockStep ==
  ASSUME U!LockGoesWithTransaction, UsersTyped, UsersTyped', [U!Next]_U!vars
  PROVE  U!LockGoesWithTransaction'
<1>1. CASE UNCHANGED U!vars
  BY <1>1 DEF U!vars, U!LockGoesWithTransaction
<1>2. CASE U!Crash
  <2>1. lock' = Nobody /\ \A r \in Handlers : handler'[r].op = "idle" /\ r # Nobody
    BY <1>2, IdleHandler, UsersAssumption DEF U!Crash
  <2> QED
    BY <2>1 DEF U!LockGoesWithTransaction
<1> QED
  BY <1>1, <1>2, LockTransactStep, LockAvatarStep DEF U!Next

LEMMA LockHolds == UsersSpec => []U!LockGoesWithTransaction
<1>1. U!Init => U!LockGoesWithTransaction
  BY IdleHandler, UsersAssumption DEF U!Init, U!LockGoesWithTransaction
<1>2. /\ U!LockGoesWithTransaction /\ AccountInv /\ AccountInv' /\ [U!Next]_U!vars
      => U!LockGoesWithTransaction'
  BY LockStep DEF AccountInv
<1> QED
  BY <1>1, <1>2, AccountsKeepInv, PTL DEF UsersSpec, U!Spec

\* No two accounts ever have the same address, whatever creations and changes of
\* address overlap: withIdentityLock looks the address up and writes it under the
\* one lock.  Nor are more transactions under way than the pool has connections, nor
\* does a transaction that has ended leave the lock behind.
THEOREM AccountsAreKept == UsersSpec => []AccountsAreSound
<1>1. AccountInv /\ U!LockGoesWithTransaction => AccountsAreSound
  <2> SUFFICES ASSUME AccountInv, U!LockGoesWithTransaction PROVE AccountsAreSound
    OBVIOUS
  <2>1. Cardinality(U!InTransaction) \in Nat /\ Cardinality(U!InTransaction) <= pool /\ pool \in Nat
    BY FS_CardinalityType, PoolIsANumber DEF AccountInv
  <2>2. U!FreeConnections \in 0 .. pool
    BY <2>1, SameCardinality DEF U!FreeConnections
  <2>3. QED
    BY <2>2 DEF AccountInv, UsersTyped, AccountsAreSound, U!TypeOK
<1>2. QED
  BY <1>1, AccountsKeepInv, LockHolds, PTL

LEMMA AvatarChanges ==
  ASSUME AccountInv, AvatarInv, [U!Next]_U!vars,
         NEW u \in U!Present, account'[u].avatar # account[u].avatar
  PROVE  \/ account'[u].avatar # Nobody /\ upload'[account'[u].avatar] = "stored"
         \/ \E r \in Handlers :
              /\ handler[r].op = "install" /\ handler[r].user = u /\ handler[r].new = Nobody
              /\ handler'[r] # handler[r]
<1>1. UsersTyped /\ u \in Users /\ account[u] \in PresentAccount
  BY AvatarsAreNames DEF AccountInv
<1>2. ASSUME NEW r \in Handlers, U!SetAvatarWrite(r)
      PROVE  \/ account'[u].avatar # Nobody /\ upload'[account'[u].avatar] = "stored"
             \/ \E p \in Handlers :
                  /\ handler[p].op = "install" /\ handler[p].user = u /\ handler[p].new = Nobody
                  /\ handler'[p] # handler[p]
  <2>1. /\ handler[r].op = "install" /\ upload' = upload /\ handler[r].user \in Users
        /\ account' = [account EXCEPT ![handler[r].user].avatar = handler[r].new]
    BY <1>1, <1>2, HandlerFields DEF U!SetAvatarWrite, UsersTyped, Showing
  <2>2. handler[r].user = u
    BY <1>1, <2>1 DEF UsersTyped
  <2>3. account'[u].avatar = handler[r].new
    BY <1>1, <2>1, <2>2 DEF UsersTyped, PresentAccount
  <2>4. handler[r].new # Nobody => upload[handler[r].new] = "stored"
    BY <2>1 DEF AvatarInv, AvatarOK
  <2>5. handler'[r] # handler[r]
    <3> DEFINE y == [op |-> "removeFile", target |-> handler[r].old]
    <3>1. U!GoOn(r, U!Idle) \/ U!GoOn(r, y)
      BY <1>2 DEF U!SetAvatarWrite, U!Previous, U!End
    <3>2. U!Idle.op # "install" /\ y.op # "install"
      BY IdleHandler
    <3> HIDE DEF y
    <3>3. handler'[r] = U!Idle \/ handler'[r] = y
      BY <1>1, <3>1 DEF UsersTyped, U!GoOn
    <3>4. QED
      BY <2>1, <3>2, <3>3
  <2>6. QED
    BY <2>1, <2>2, <2>3, <2>4, <2>5
<1>3. ASSUME NEW r \in Handlers, U!RemoveFileRow(r) PROVE FALSE
  <2>1. handler[r].op = "removeFile" /\ handler[r] \in U!Request /\ AvatarOK(r)
    BY <1>1, <1>3 DEF U!RemoveFileRow, UsersTyped, AvatarInv
  <2>2. ~Shown(handler[r].target)
    BY <2>1 DEF AvatarOK, Removing
  <2>3. account'[u] = account[u]
    BY <1>1, <1>3, <2>2 DEF U!RemoveFileRow, Shown
  <2>4. QED
    BY <2>3
<1>4. ASSUME NEW r \in Handlers, NEW v \in Users, U!WriteCreate(r, v) PROVE FALSE
  <2>1. v # u
    BY <1>4 DEF U!WriteCreate, U!Present
  <2>2. account'[u] = account[u]
    BY <1>1, <1>4, <2>1 DEF U!WriteCreate, UsersTyped
  <2>3. QED
    BY <2>2
<1>5. ASSUME NEW r \in Handlers, U!WriteChange(r) PROVE FALSE
  <2>1. account'[u].avatar = account[u].avatar
    BY <1>1, <1>5 DEF U!WriteChange, UsersTyped, PresentAccount
  <2>2. QED
    BY <2>1
<1>6. account' # account
  OBVIOUS
<1>7. ~UNCHANGED U!vars /\ ~U!Crash
  BY <1>6 DEF U!vars, U!Crash
<1>8. PICK r \in Handlers :
        U!Prepares(r) \/ U!Transact(r) \/ U!AvatarBegins(r) \/ U!AvatarGoesOn(r)
  BY <1>7 DEF U!Next
<1>9. ~U!Prepares(r)
  BY <1>6 DEF U!Prepares, U!PrepareCreate, U!PrepareChange, U!Prepare, U!Execute, U!Expire
<1>10. ~U!Transact(r)
  BY <1>4, <1>5, <1>6
     DEF U!Transact, U!BeginTransaction, U!BeginTimeout, U!TakeLock, U!Check, U!TransactionTimeout
<1>11. ~U!AvatarBegins(r)
  BY <1>6 DEF U!AvatarBegins, U!StoreBytes, U!DeleteAvatar
<1>12. U!SetAvatarWrite(r)
  BY <1>3, <1>6, <1>8, <1>9, <1>10, <1>11
     DEF U!AvatarGoesOn, U!StoreRow, U!StoreFails, U!SetAvatarRead, U!RemoveFileBytes
<1>13. QED
  BY <1>2, <1>12

\* An avatar is only ever replaced by one that can be read, or taken off by its
\* owner: what setAvatar installs is stored, its row and its bytes, and what
\* FileStorageService.remove is given is by then nobody's avatar.
THEOREM AvatarsAreKept == UsersSpec => AvatarIsNeverLost
<1> DEFINE Kept ==
      \A u \in U!Present :
        account'[u].avatar # account[u].avatar =>
          \/ account'[u].avatar # Nobody /\ upload'[account'[u].avatar] = "stored"
          \/ \E r \in Handlers :
               /\ handler[r].op = "install" /\ handler[r].user = u /\ handler[r].new = Nobody
               /\ handler'[r] # handler[r]
<1>1. AccountInv /\ AvatarInv /\ [U!Next]_U!vars => [Kept]_userVars
  BY AvatarChanges
<1>2. QED
  BY <1>1, AccountsKeepInv, PTL DEF UsersSpec, U!Spec, AvatarIsNeverLost
=============================================================================
