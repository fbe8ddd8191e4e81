-------------------------- MODULE ContractsProofs --------------------------
(***************************************************************************)
(* Proofs about Contracts and Consents, for any staff, any number of       *)
(* contracts, uploads, versions of the documents and handlers in flight.   *)
(***************************************************************************)
EXTENDS MCContracts, FiniteSets, FiniteSetTheorems, Functions, TLAPS

\* What a handler in flight remembers, by the statement it is about to issue.
LEMMA RequestFields ==
  ASSUME NEW x \in Request
  PROVE  /\ x.op = "update" =>
              /\ x.contract \in Contracts /\ x.body \in Bodies /\ x.terms \in Terms
              /\ x.manager \in Staff \cup {None}
         /\ x.op = "deposit" =>
              x.contract \in Contracts /\ x.paid \in BOOLEAN /\ x.hasFile \in BOOLEAN
         /\ x.op = "attach" =>
              x.contract \in Contracts /\ x.paid \in BOOLEAN /\ x.old \in Files \cup {None}
         /\ x.op \in {"store", "install"} =>
              /\ x.contract \in Contracts /\ x.paid \in BOOLEAN
              /\ x.old \in Files \cup {None} /\ x.new \in Files
         /\ x.op = "remove" => x.contract \in Contracts /\ x.old \in Files \cup {None}
         /\ x.op \in {"removeFile", "removeBytes"} => x.target \in Files
BY DEF Request, Idle

LEMMA IdleIsARequest == Idle \in Request
BY DEF Request

LEMMA GoOnKeepsType ==
  ASSUME TypeOK, NEW r \in Requests, NEW x \in Request, GoOn(r, x)
  PROVE  req' \in [Requests -> Request]
BY DEF TypeOK, GoOn

LEMMA RemoveThenEndKeepsType ==
  ASSUME TypeOK, NEW r \in Requests, NEW f \in Files \cup {None}, RemoveThenEnd(r, f)
  PROVE  req' \in [Requests -> Request]
<1>1. CASE f = None
  BY <1>1, IdleIsARequest, GoOnKeepsType DEF RemoveThenEnd, End
<1>2. CASE f # None
  <2>1. [op |-> "removeFile", target |-> f] \in Request
    BY <1>2 DEF Request
  <2>2. QED
    BY <1>2, <2>1, GoOnKeepsType DEF RemoveThenEnd
<1>3. QED
  BY <1>1, <1>2

LEMMA DeriveContractStatusType ==
  ASSUME NEW p, NEW h PROVE DeriveContractStatus(p, h) \in ContractStatus
BY DEF DeriveContractStatus, ContractStatus

\* An edit fills what its body leaves out with the terms it has read.
LEMMA CompletedType ==
  ASSUME NEW body \in Bodies, NEW terms \in Terms PROVE Completed(body, terms) \in Terms
BY DEF Bodies, Terms, Completed, Given

\* An UPDATE by id writes the row given or nothing.
LEMMA UpdateKeepsType ==
  ASSUME TypeOK, NEW c \in Contracts, NEW row \in ContractRow, Update(c, row)
  PROVE  contract' \in [Contracts -> ContractRow]
BY DEF TypeOK, Update

LEMMA RowTypes ==
  /\ Unborn \in ContractRow /\ Deleted \in ContractRow
  /\ \A row \in ContractRow : \A b : \A t \in Terms : \A m \in Staff \cup {None} :
       EditedRow(row, b, t, m) \in ContractRow /\ EditedRow(row, b, t, m).file = row.file
  /\ \A row \in ContractRow : \A f \in Files : \A p \in BOOLEAN :
       InstalledRow(row, f, p) \in ContractRow /\ InstalledRow(row, f, p).file = f
  /\ \A row \in ContractRow : \A p, h \in BOOLEAN :
       MarkedRow(row, p, h) \in ContractRow /\ MarkedRow(row, p, h).file = row.file
  /\ \A row \in ContractRow : \A f \in Files : DetachedRow(row, f) \in ContractRow
<1>1. Unborn \in ContractRow /\ Deleted \in ContractRow
  BY DEF Unborn, Deleted, ContractRow
<1>2. ASSUME NEW row \in ContractRow, NEW b, NEW t \in Terms, NEW m \in Staff \cup {None}
      PROVE  EditedRow(row, b, t, m) \in ContractRow /\ EditedRow(row, b, t, m).file = row.file
  <2> DEFINE amounts == ComputeAmounts(t)
             manager == Given(m, row.manager)
  <2>1. EditedRow(row, b, t, m) =
          [row EXCEPT !.terms = t, !.amounts = amounts, !.manager = manager]
    BY DEF EditedRow
  <2>2. amounts \in Amounts /\ manager \in Staff \cup {None}
    BY DEF Amounts, Given, ContractRow
  <2> HIDE DEF amounts, manager
  <2>3. QED
    BY <2>1, <2>2 DEF ContractRow
<1>3. ASSUME NEW row \in ContractRow, NEW f \in Files, NEW p \in BOOLEAN
      PROVE  InstalledRow(row, f, p) \in ContractRow /\ InstalledRow(row, f, p).file = f
  BY DeriveContractStatusType DEF InstalledRow, ContractRow
<1>4. ASSUME NEW row \in ContractRow, NEW f \in Files PROVE DetachedRow(row, f) \in ContractRow
  BY DEF DetachedRow, ContractRow
<1>5. ASSUME NEW row \in ContractRow, NEW p \in BOOLEAN, NEW h \in BOOLEAN
      PROVE  MarkedRow(row, p, h) \in ContractRow /\ MarkedRow(row, p, h).file = row.file
  BY DeriveContractStatusType DEF MarkedRow, ContractRow
<1>6. QED
  BY <1>1, <1>2, <1>3, <1>4, <1>5

\* Every statement that writes a row of the table, and who issues it.
LEMMA RowWritten ==
  ASSUME TypeOK, Next, NEW c \in Contracts, contract'[c] # contract[c]
  PROVE  \/ \E m \in Staff, terms \in Terms :
              contract[c] = Unborn /\ contract'[c] = DraftRow(m, terms)
         \/ \E r \in Requests :
              /\ UpdateWrite(r) /\ req[r].contract = c
              /\ contract'[c] = EditedRow(contract[c], req[r].body, req[r].terms, req[r].manager)
              /\ Accepted(c, contract'[c])
         \/ \E r \in Requests :
              /\ DepositWrite(r) /\ req[r].contract = c
              /\ contract'[c] = MarkedRow(contract[c], req[r].paid, req[r].hasFile)
              /\ Accepted(c, contract'[c])
         \/ \E r \in Requests :
              /\ Install(r) /\ req[r].contract = c
              /\ contract'[c] = InstalledRow(contract[c], req[r].new, req[r].paid)
              /\ Accepted(c, contract'[c])
         \/ contract'[c] = Deleted
         \/ \E r \in Requests :
              RemoveFileRow(r) /\ contract'[c] = DetachedRow(contract[c], req[r].target)
<1>1. ASSUME NEW d \in Contracts, NEW row, Update(d, row)
      PROVE  c = d /\ contract'[c] = row /\ Accepted(c, row)
  BY <1>1 DEF Update, TypeOK
<1>2. ASSUME NEW a \in Staff, NEW m \in Staff, NEW d \in Contracts, NEW terms \in Terms,
             Create(a, m, d, terms)
      PROVE  contract[c] = Unborn /\ contract'[c] = DraftRow(m, terms)
  BY <1>2 DEF Create, TypeOK
<1>3. ASSUME NEW r \in Requests, UpdateWrite(r)
      PROVE  /\ req[r].contract = c
             /\ contract'[c] = EditedRow(contract[c], req[r].body, req[r].terms, req[r].manager)
             /\ Accepted(c, contract'[c])
  <2>1. req[r].contract \in Contracts
    BY <1>3, RequestFields DEF UpdateWrite, TypeOK
  <2>2. Update(req[r].contract,
               EditedRow(contract[req[r].contract], req[r].body, req[r].terms, req[r].manager))
    BY <1>3 DEF UpdateWrite
  <2>3. QED
    BY <1>1, <2>1, <2>2
<1>4. ASSUME NEW r \in Requests, DepositWrite(r)
      PROVE  /\ req[r].contract = c
             /\ contract'[c] = MarkedRow(contract[c], req[r].paid, req[r].hasFile)
             /\ Accepted(c, contract'[c])
  <2>1. req[r].contract \in Contracts
    BY <1>4, RequestFields DEF DepositWrite, TypeOK
  <2>2. Update(req[r].contract,
               MarkedRow(contract[req[r].contract], req[r].paid, req[r].hasFile))
    BY <1>4 DEF DepositWrite
  <2>3. QED
    BY <1>1, <2>1, <2>2
<1>5. ASSUME NEW r \in Requests, Install(r)
      PROVE  /\ req[r].contract = c
             /\ contract'[c] = InstalledRow(contract[c], req[r].new, req[r].paid)
             /\ Accepted(c, contract'[c])
  <2>1. req[r].contract \in Contracts
    BY <1>5, RequestFields DEF Install, TypeOK
  <2>2. Update(req[r].contract,
               InstalledRow(contract[req[r].contract], req[r].new, req[r].paid))
    BY <1>5 DEF Install
  <2>3. QED
    BY <1>1, <2>1, <2>2
<1>6. ASSUME NEW r \in Requests, RemoveWrite(r) PROVE contract'[c] = Deleted
  BY <1>6, RequestFields DEF RemoveWrite, TypeOK
<1>7. ASSUME NEW r \in Requests, RemoveFileRow(r)
      PROVE  contract'[c] = DetachedRow(contract[c], req[r].target)
  BY <1>7 DEF RemoveFileRow
<1>8. contract' # contract
  OBVIOUS
<1>9. \/ \E a \in Staff, m \in Staff, d \in Contracts, terms \in Terms : Create(a, m, d, terms)
      \/ \E r \in Requests : \/ UpdateWrite(r) \/ DepositWrite(r) \/ Install(r)
                             \/ RemoveWrite(r) \/ RemoveFileRow(r)
  BY <1>8 DEF Next, EditStep, AttachStep, RemoveStep, UpdateRead, DepositRead, Begin,
         AttachRead, StoreBytes, StoreRow, StoreFails, RemoveRead, RemoveFileBytes, Abandon
<1>10. CASE \E a \in Staff, m \in Staff, d \in Contracts, terms \in Terms :
              Create(a, m, d, terms)
  BY <1>2, <1>10
<1>11. CASE \E r \in Requests : UpdateWrite(r)
  BY <1>3, <1>11
<1>12. CASE \E r \in Requests : DepositWrite(r)
  BY <1>4, <1>12
<1>13. CASE \E r \in Requests : Install(r)
  BY <1>5, <1>13
<1>14. CASE \E r \in Requests : RemoveWrite(r)
  BY <1>6, <1>14
<1>15. CASE \E r \in Requests : RemoveFileRow(r)
  BY <1>7, <1>15
<1>16. QED
  BY <1>9, <1>10, <1>11, <1>12, <1>13, <1>14, <1>15

\* The columns a statement leaves alone, and those it writes.
LEMMA EditedColumns ==
  ASSUME NEW row \in ContractRow, NEW b, NEW t, NEW m, NEW new, new = EditedRow(row, b, t, m)
  PROVE  /\ new.status = row.status /\ new.depositPaid = row.depositPaid
         /\ new.file = row.file
         /\ new.terms = t /\ new.amounts = ComputeAmounts(t)
<1> DEFINE amounts == ComputeAmounts(t)
           manager == Given(m, row.manager)
<1>1. new = [row EXCEPT !.terms = t, !.amounts = amounts, !.manager = manager]
  BY DEF EditedRow
<1>2. amounts = ComputeAmounts(t)
  OBVIOUS
<1> HIDE DEF amounts, manager
<1>3. /\ new.status = row.status /\ new.depositPaid = row.depositPaid
      /\ new.file = row.file
      /\ new.terms = t /\ new.amounts = amounts
  BY <1>1 DEF ContractRow
<1>4. QED
  BY <1>2, <1>3

LEMMA MarkedColumns ==
  ASSUME NEW row \in ContractRow, NEW p, NEW h, NEW new, new = MarkedRow(row, p, h)
  PROVE  /\ new.terms = row.terms /\ new.amounts = row.amounts /\ new.file = row.file
         /\ new.depositPaid = p /\ new.status = DeriveContractStatus(p, h)
<1> DEFINE status == DeriveContractStatus(p, h)
<1>1. new = [row EXCEPT !.depositPaid = p, !.status = status]
  BY DEF MarkedRow
<1>2. status = DeriveContractStatus(p, h)
  OBVIOUS
<1> HIDE DEF status
<1>3. /\ new.terms = row.terms /\ new.amounts = row.amounts /\ new.file = row.file
      /\ new.depositPaid = p /\ new.status = status
  BY <1>1 DEF ContractRow
<1>4. QED
  BY <1>2, <1>3

LEMMA InstalledColumns ==
  ASSUME NEW row \in ContractRow, NEW f, NEW p \in BOOLEAN, NEW new,
         new = InstalledRow(row, f, p)
  PROVE  /\ new.terms = row.terms /\ new.amounts = row.amounts
         /\ new.depositPaid = row.depositPaid
         /\ new.file = f /\ new.status = IF p THEN "signed" ELSE "draft"
<1> DEFINE status == DeriveContractStatus(p, TRUE)
<1>1. new = [row EXCEPT !.file = f, !.status = status]
  BY DEF InstalledRow
<1>2. status = IF p THEN "signed" ELSE "draft"
  BY DEF DeriveContractStatus
<1> HIDE DEF status
<1>3. /\ new.terms = row.terms /\ new.amounts = row.amounts
      /\ new.depositPaid = row.depositPaid
      /\ new.file = f /\ new.status = status
  BY <1>1 DEF ContractRow
<1>4. QED
  BY <1>2, <1>3

LEMMA DetachedColumns ==
  ASSUME NEW row \in ContractRow, NEW f, NEW new, new = DetachedRow(row, f)
  PROVE  /\ new.terms = row.terms /\ new.amounts = row.amounts
         /\ new.status = row.status /\ new.depositPaid = row.depositPaid
BY DEF DetachedRow, ContractRow

\* A contract that exists has its terms.
LEMMA TermsAreThere ==
  ASSUME TypeOK, [Next]_vars, NEW c \in Contracts, Exists(c)' PROVE contract'[c].terms \in Terms
<1>1. contract[c] \in ContractRow
  BY DEF TypeOK
<1>2. CASE contract'[c] = contract[c]
  BY <1>2 DEF TypeOK, Exists
<1>3. CASE contract'[c] # contract[c]
  <2>1. Next
    BY <1>3 DEF vars
  <2>2. \A m, terms : DraftRow(m, terms).terms = terms
    BY DEF DraftRow, Unborn
  <2>3. contract'[c] # Deleted
    BY DEF Exists, Deleted, Unborn, ContractStatus
  <2>4. Exists(c) => contract[c].terms \in Terms
    BY DEF TypeOK
  <2>5. ASSUME NEW r \in Requests, UpdateWrite(r),
               contract'[c] = EditedRow(contract[c], req[r].body, req[r].terms, req[r].manager)
        PROVE  contract'[c].terms \in Terms
    <3>1. req[r].terms \in Terms
      BY <2>5, RequestFields DEF UpdateWrite, TypeOK
    <3>2. QED
      BY <1>1, <2>5, <3>1, EditedColumns
  <2>6. ASSUME NEW r \in Requests, DepositWrite(r), Accepted(c, contract'[c]),
               contract'[c] = MarkedRow(contract[c], req[r].paid, req[r].hasFile)
        PROVE  contract'[c].terms \in Terms
    BY <1>1, <2>4, <2>6, MarkedColumns DEF Accepted
  <2>7. ASSUME NEW r \in Requests, Install(r), Accepted(c, contract'[c]),
               contract'[c] = InstalledRow(contract[c], req[r].new, req[r].paid)
        PROVE  contract'[c].terms \in Terms
    <3>1. req[r].paid \in BOOLEAN
      BY <2>7, RequestFields DEF Install, TypeOK
    <3>2. QED
      BY <1>1, <2>4, <2>7, <3>1, InstalledColumns DEF Accepted
  <2>8. ASSUME NEW f, contract'[c] = DetachedRow(contract[c], f)
        PROVE  contract'[c].terms \in Terms
    BY <1>1, <2>4, <2>8, DetachedColumns DEF Exists
  <2>9. QED
    BY <1>3, <2>1, <2>2, <2>3, <2>5, <2>6, <2>7, <2>8, RowWritten
<1>4. QED
  BY <1>2, <1>3

LEMMA StaleType == TypeOK /\ [Next]_vars => stale' \subseteq Requests
<1>1. \A r : Outdates(r) /\ stale \subseteq Requests => stale' \subseteq Requests
  BY DEF Outdates, Readers
<1>2. QED
  BY <1>1
     DEF TypeOK, vars, Next, Create, EditStep, AttachStep, RemoveStep, Begin, UpdateRead,
         UpdateWrite, DepositRead, DepositWrite, AttachRead, StoreBytes, StoreRow, StoreFails,
         Install, RemoveRead, RemoveWrite, RemoveFileRow, RemoveFileBytes, Abandon

Typed ==
  /\ contract \in [Contracts -> ContractRow]
  /\ file \in [Files -> FileState]
  /\ req \in [Requests -> Request]

LEMMA TypeInit == Init => TypeOK
BY IdleIsARequest, RowTypes DEF Init, FileInit, TypeOK, FileState, Exists, Unborn, ContractStatus

LEMMA TypeStep == TypeOK /\ [Next]_vars => TypeOK'
<1> SUFFICES ASSUME TypeOK, [Next]_vars PROVE TypeOK'
  OBVIOUS
<1>1. ASSUME UNCHANGED vars PROVE Typed'
  BY <1>1 DEF vars, TypeOK, Typed
<1>2. ASSUME NEW a \in Staff, NEW m \in Staff, NEW c \in Contracts, NEW terms \in Terms,
             Create(a, m, c, terms)
      PROVE  Typed'
  <2> DEFINE amounts == ComputeAmounts(terms)
  <2>1. amounts \in Amounts
    BY DEF Amounts
  <2>2. DraftRow(m, terms) = [Unborn EXCEPT !.status = "draft", !.manager = m,
                                           !.terms = terms, !.amounts = amounts]
    BY DEF DraftRow
  <2> HIDE DEF amounts
  <2>3. DraftRow(m, terms) \in ContractRow
    BY <2>1, <2>2 DEF Unborn, ContractRow, ContractStatus, Staff
  <2>4. QED
    BY <1>2, <2>3 DEF Create, TypeOK, Typed
<1>3. ASSUME NEW r \in Requests, EditStep(r) PROVE Typed'
  <2>1. ASSUME NEW a \in Staff, NEW c \in Contracts, UpdateRead(r, a, c) PROVE Typed'
    <3>1. PICK body \in Bodies, m \in Staff \cup {None} :
            Begin(r, [op |-> "update", contract |-> c, body |-> body,
                      terms |-> Completed(body, contract[c].terms), manager |-> m])
      BY <2>1 DEF UpdateRead
    <3> DEFINE terms == Completed(body, contract[c].terms)
    <3>2. terms \in Terms
      BY <2>1, CompletedType DEF UpdateRead, Editable, InScope, TypeOK
    <3> HIDE DEF terms
    <3>3. [op |-> "update", contract |-> c, body |-> body, terms |-> terms, manager |-> m]
            \in Request
      BY <3>2 DEF Request
    <3>4. QED
      BY <3>1, <3>3, GoOnKeepsType DEF Begin, TypeOK, Typed, terms
  <2>2. CASE UpdateWrite(r)
    <3>1. /\ req[r].contract \in Contracts /\ req[r].terms \in Terms
          /\ req[r].manager \in Staff \cup {None}
      BY <2>2, RequestFields DEF UpdateWrite, TypeOK
    <3>2. contract' \in [Contracts -> ContractRow]
      BY <2>2, <3>1, RowTypes, UpdateKeepsType DEF UpdateWrite, TypeOK
    <3>3. QED
      BY <2>2, <3>2, IdleIsARequest, GoOnKeepsType DEF UpdateWrite, End, TypeOK, Typed
  <2>3. ASSUME NEW a \in Staff \cup Accountants, NEW c \in Contracts, NEW paid \in BOOLEAN,
               DepositRead(r, a, c, paid)
        PROVE  Typed'
    <3>1. [op |-> "deposit", contract |-> c, paid |-> paid,
           hasFile |-> contract[c].file # None] \in Request
      BY DEF Request
    <3>2. QED
      BY <2>3, <3>1, GoOnKeepsType DEF DepositRead, Begin, TypeOK, Typed
  <2>4. CASE DepositWrite(r)
    <3>1. /\ req[r].contract \in Contracts
          /\ req[r].paid \in BOOLEAN /\ req[r].hasFile \in BOOLEAN
      BY <2>4, RequestFields DEF DepositWrite, TypeOK
    <3>2. contract' \in [Contracts -> ContractRow]
      BY <2>4, <3>1, RowTypes, UpdateKeepsType DEF DepositWrite, TypeOK
    <3>3. QED
      BY <2>4, <3>2, IdleIsARequest, GoOnKeepsType DEF DepositWrite, End, TypeOK, Typed
  <2>5. QED
    BY <1>3, <2>1, <2>2, <2>3, <2>4 DEF EditStep
<1>4. ASSUME NEW r \in Requests, AttachStep(r) PROVE Typed'
  <2>1. ASSUME NEW a \in Staff, NEW c \in Contracts, AttachRead(r, a, c) PROVE Typed'
    <3>1. [op |-> "attach", contract |-> c, paid |-> contract[c].depositPaid,
           old |-> contract[c].file] \in Request
      BY DEF Request, TypeOK, ContractRow
    <3>2. QED
      BY <2>1, <3>1, GoOnKeepsType DEF AttachRead, Begin, TypeOK, Typed
  <2>2. ASSUME NEW f \in Files, StoreBytes(r, f) PROVE Typed'
    <3>1. /\ req[r].contract \in Contracts /\ req[r].paid \in BOOLEAN
          /\ req[r].old \in Files \cup {None}
      BY <2>2, RequestFields DEF StoreBytes, TypeOK
    <3>2. [op |-> "store", contract |-> req[r].contract, paid |-> req[r].paid,
           old |-> req[r].old, new |-> f] \in Request
      BY <3>1 DEF Request
    <3>3. QED
      BY <2>2, <3>2, GoOnKeepsType DEF StoreBytes, WriteBytes, TypeOK, FileState, Typed
  <2>3. CASE StoreRow(r)
    <3>1. req[r] \in [op: {"store", "install"}, contract: Contracts, paid: BOOLEAN,
                      old: Files \cup {None}, new: Files]
      BY <2>3 DEF StoreRow, TypeOK, Request, Idle
    <3>2. [req[r] EXCEPT !.op = "install"] \in Request
      BY <3>1 DEF Request
    <3>3. req[r].new \in Files
      BY <3>1
    <3>4. QED
      BY <2>3, <3>2, <3>3, GoOnKeepsType DEF StoreRow, CreateRow, TypeOK, FileState, Typed
  <2>4. CASE StoreFails(r)
    BY <2>4, IdleIsARequest, GoOnKeepsType DEF StoreFails, DropBytes, End, TypeOK, FileState, Typed
  <2>5. CASE Install(r)
    <3>1. /\ req[r].contract \in Contracts /\ req[r].paid \in BOOLEAN
          /\ req[r].old \in Files \cup {None} /\ req[r].new \in Files
      BY <2>5, RequestFields DEF Install, TypeOK
    <3> DEFINE c == req[r].contract
               row == InstalledRow(contract[c], req[r].new, req[r].paid)
               gone == Superseded(c, row, req[r].old, req[r].new)
    <3>2. row \in ContractRow
      BY <3>1, RowTypes DEF TypeOK
    <3>3. gone \in Files \cup {None}
      BY <3>1 DEF Superseded
    <3>4. Update(c, row) /\ RemoveThenEnd(r, gone) /\ UNCHANGED file
      BY <2>5 DEF Install
    <3>5. c \in Contracts
      BY <3>1
    <3> HIDE DEF c, row, gone
    <3>6. QED
      BY <3>2, <3>3, <3>4, <3>5, UpdateKeepsType, RemoveThenEndKeepsType DEF TypeOK, Typed
  <2>6. QED
    BY <1>4, <2>1, <2>2, <2>3, <2>4, <2>5 DEF AttachStep
<1>5. ASSUME NEW r \in Requests, RemoveStep(r) PROVE Typed'
  <2>1. ASSUME NEW h \in Heads, NEW c \in Contracts, RemoveRead(r, h, c) PROVE Typed'
    <3>1. [op |-> "remove", contract |-> c, old |-> contract[c].file] \in Request
      BY DEF Request, TypeOK, ContractRow
    <3>2. QED
      BY <2>1, <3>1, GoOnKeepsType DEF RemoveRead, Begin, TypeOK, Typed
  <2>2. CASE RemoveWrite(r)
    <3>1. req[r].contract \in Contracts /\ req[r].old \in Files \cup {None}
      BY <2>2, RequestFields DEF RemoveWrite, TypeOK
    <3>2. contract' \in [Contracts -> ContractRow]
      BY <2>2, <3>1, RowTypes DEF RemoveWrite, TypeOK
    <3>3. req' \in [Requests -> Request]
      BY <2>2, <3>1, IdleIsARequest, GoOnKeepsType, RemoveThenEndKeepsType
         DEF RemoveWrite, End
    <3>4. QED
      BY <2>2, <3>2, <3>3 DEF RemoveWrite, TypeOK, Typed
  <2>3. CASE RemoveFileRow(r)
    <3>1. req[r].target \in Files
      BY <2>3, RequestFields DEF RemoveFileRow, TypeOK
    <3>2. [op |-> "removeBytes", target |-> req[r].target] \in Request
      BY <3>1 DEF Request
    <3>3. req' \in [Requests -> Request]
      BY <2>3, <3>2, IdleIsARequest, GoOnKeepsType DEF RemoveFileRow, End
    <3>4. contract' \in [Contracts -> ContractRow]
      BY <2>3, <3>1, RowTypes DEF RemoveFileRow, TypeOK
    <3>5. file' \in [Files -> FileState]
      BY <2>3 DEF RemoveFileRow, DeleteRow, TypeOK, FileState
    <3>6. QED
      BY <3>3, <3>4, <3>5 DEF TypeOK, Typed
  <2>4. CASE RemoveFileBytes(r)
    BY <2>4, IdleIsARequest, GoOnKeepsType
       DEF RemoveFileBytes, RemoveBytes, End, TypeOK, FileState, Typed
  <2>5. QED
    BY <1>5, <2>1, <2>2, <2>3, <2>4 DEF RemoveStep
<1>6. ASSUME NEW r \in Requests, Abandon(r) PROVE Typed'
  BY <1>6, IdleIsARequest, GoOnKeepsType DEF Abandon, End, TypeOK, Typed
<1>7. Typed'
  BY <1>1, <1>2, <1>3, <1>4, <1>5, <1>6 DEF Next
<1>8. \A c \in Contracts : Exists(c)' => contract'[c].terms \in Terms
  BY TermsAreThere
<1>9. stale' \subseteq Requests
  BY StaleType
<1>10. QED
  BY <1>7, <1>8, <1>9 DEF Typed, TypeOK, Exists

\* Every reachable state has the types the table and the handlers declare.
THEOREM TypeCorrect == Spec => []TypeOK
BY TypeInit, TypeStep, PTL DEF Spec

-----------------------------------------------------------------------------
(***************************************************************************)
(* Why no document is lost.  The invariant follows an upload through the   *)
(* handlers: while one stores and installs it, nobody else knows of it; a  *)
(* document that a handler will replace or remove is no other contract's;  *)
(* and a file that is about to be removed is no contract's at all.         *)
(***************************************************************************)
Uploading(r) == req[r].op \in {"store", "install"}
Replacing(r) == req[r].op \in {"attach", "store", "install", "remove"}
Written == {"stored", "rowless", "gone"}

AttachedIsStored ==
  \A c \in Contracts : contract[c].file # None => file[contract[c].file] = "stored"

UploadIsUnknown ==
  \A r \in Requests : Uploading(r) =>
    /\ req[r].op = "store" => file[req[r].new] = "bytes"
    /\ req[r].op = "install" => file[req[r].new] = "stored"
    /\ \A c \in Contracts : contract[c].file # req[r].new
    /\ \A s \in Requests : Uploading(s) /\ req[s].new = req[r].new => s = r

ReplacedIsNoOthers ==
  \A r \in Requests : Replacing(r) /\ req[r].old # None =>
    /\ file[req[r].old] \in Written
    /\ \A s \in Requests : Uploading(s) => req[s].new # req[r].old
    /\ \A d \in Contracts : contract[d].file = req[r].old => d = req[r].contract

DoomedIsNobodys ==
  \A r \in Requests : req[r].op = "removeFile" =>
    /\ file[req[r].target] \in Written
    /\ \A s \in Requests : Uploading(s) => req[s].new # req[r].target
    /\ \A c \in Contracts : contract[c].file # req[r].target

DocumentsInv ==
  /\ TypeOK
  /\ DocumentHasOneContract
  /\ AttachedIsStored
  /\ UploadIsUnknown
  /\ ReplacedIsNoOthers
  /\ DoomedIsNobodys

\* Steps that touch no file and no pointer to one, but for deleting pointers,
\* and after which their handler has no file in mind.
LEMMA QuietStep ==
  ASSUME DocumentsInv, TypeOK', file' = file,
         \A c \in Contracts : contract'[c].file \in {contract[c].file, None},
         \A s \in Requests : req'[s] = req[s] \/ req'[s].op \in
           {"idle", "update", "deposit", "removeBytes"}
  PROVE  DocumentsInv'
<1>1. \A s \in Requests : req'[s].op \in {"store", "install", "attach", "remove", "removeFile"}
        => req'[s] = req[s]
  OBVIOUS
<1>2. \A s \in Requests : Uploading(s) => req[s].new # None
  BY RequestFields, NoneIsNoFile DEF DocumentsInv, TypeOK, Uploading
<1>3. \A s \in Requests : req[s].op = "removeFile" => req[s].target # None
  BY RequestFields, NoneIsNoFile DEF DocumentsInv, TypeOK
<1>4. DocumentHasOneContract'
  BY DEF DocumentsInv, DocumentHasOneContract
<1>5. AttachedIsStored'
  BY DEF DocumentsInv, AttachedIsStored
<1>6. UploadIsUnknown'
  BY <1>1, <1>2 DEF DocumentsInv, UploadIsUnknown, Uploading
<1>7. ReplacedIsNoOthers'
  BY <1>1 DEF DocumentsInv, ReplacedIsNoOthers, Uploading, Replacing
<1>8. DoomedIsNobodys'
  BY <1>1, <1>3 DEF DocumentsInv, DoomedIsNobodys, Uploading
<1>9. QED
  BY <1>4, <1>5, <1>6, <1>7, <1>8 DEF DocumentsInv

\* A handler that has read its contract remembers the document of it.
LEMMA RememberingStep ==
  ASSUME DocumentsInv, TypeOK', UNCHANGED <<contract, file>>,
         NEW r \in Requests, NEW c \in Contracts, NEW x, GoOn(r, x),
         x.op \in {"attach", "remove"}, x.contract = c, x.old = contract[c].file
  PROVE  DocumentsInv'
<1>1. \A s \in Requests : req'[s] = IF s = r THEN x ELSE req[s]
  BY DEF GoOn, DocumentsInv, TypeOK
<1>2. \A s \in Requests : Uploading(s)' => s # r /\ Uploading(s) /\ req'[s] = req[s]
  BY <1>1 DEF Uploading
<1>3. UploadIsUnknown'
  BY <1>1, <1>2 DEF DocumentsInv, UploadIsUnknown, Uploading
<1>4. ReplacedIsNoOthers'
  <2>1. ASSUME x.old # None
        PROVE  /\ file[x.old] \in Written
               /\ \A s \in Requests : Uploading(s) => req[s].new # x.old
               /\ \A d \in Contracts : contract[d].file = x.old => d = c
    BY <2>1 DEF DocumentsInv, AttachedIsStored, UploadIsUnknown, DocumentHasOneContract, Written
  <2>2. QED
    BY <1>1, <1>2, <2>1 DEF DocumentsInv, ReplacedIsNoOthers, Replacing, Uploading
<1>5. DoomedIsNobodys'
  BY <1>1, <1>2 DEF DocumentsInv, DoomedIsNobodys
<1>6. QED
  BY <1>3, <1>4, <1>5 DEF DocumentsInv, DocumentHasOneContract, AttachedIsStored

LEMMA StoreBytesStep ==
  ASSUME DocumentsInv, TypeOK', NEW r \in Requests, NEW f \in Files, StoreBytes(r, f)
  PROVE  DocumentsInv'
<1> DEFINE x == [op |-> "store", contract |-> req[r].contract, paid |-> req[r].paid,
                 old |-> req[r].old, new |-> f]
<1>1. \A s \in Requests : req'[s] = IF s = r THEN x ELSE req[s]
  BY DEF StoreBytes, GoOn, DocumentsInv, TypeOK
<1>2. file[f] = "unused" /\ \A g : g \in Files => file'[g] = IF g = f THEN "bytes" ELSE file[g]
  BY DEF StoreBytes, WriteBytes, DocumentsInv, TypeOK
<1>3. contract' = contract /\ req[r].op = "attach"
  BY DEF StoreBytes
<1>4. \A c \in Contracts : contract[c].file # None => contract[c].file \in Files
  BY DEF DocumentsInv, TypeOK, ContractRow
<1>5. \A s \in Requests :
        /\ Uploading(s) => req[s].new \in Files
        /\ Replacing(s) => req[s].old \in Files \cup {None}
        /\ req[s].op = "removeFile" => req[s].target \in Files
  BY RequestFields DEF DocumentsInv, TypeOK, Uploading, Replacing
<1>6. f # None
  BY NoneIsNoFile
<1>7. \A s \in Requests : Uploading(s)' => s = r \/ (Uploading(s) /\ req'[s] = req[s])
  BY <1>1 DEF Uploading
<1>8. \A s \in Requests : Uploading(s) => req[s].new # f
  BY <1>2 DEF DocumentsInv, UploadIsUnknown, Uploading
<1>9. AttachedIsStored'
  BY <1>2, <1>3, <1>4 DEF DocumentsInv, AttachedIsStored
<1>10. UploadIsUnknown'
  <2>1. \A c \in Contracts : contract[c].file # f
    BY <1>2, <1>6 DEF DocumentsInv, AttachedIsStored
  <2>2. QED
    BY <1>1, <1>2, <1>3, <1>5, <1>7, <1>8, <2>1 DEF DocumentsInv, UploadIsUnknown, Uploading
<1>11. ReplacedIsNoOthers'
  <2>1. \A s \in Requests : Replacing(s) /\ req[s].old # None => req[s].old # f
    BY <1>2 DEF DocumentsInv, ReplacedIsNoOthers, Written
  <2>2. \A s \in Requests : Replacing(s)' =>
          Replacing(s) /\ req'[s].old = req[s].old /\ req'[s].contract = req[s].contract
    BY <1>1, <1>3 DEF Replacing
  <2>3. ASSUME NEW s \in Requests, Replacing(s)', req'[s].old # None
        PROVE  /\ file'[req'[s].old] \in Written
               /\ \A t \in Requests : Uploading(t)' => req'[t].new # req'[s].old
               /\ \A d \in Contracts : contract'[d].file = req'[s].old => d = req'[s].contract
    <3>1. Replacing(s) /\ req'[s].old = req[s].old /\ req'[s].contract = req[s].contract
      BY <2>2, <2>3
    <3>2. file'[req'[s].old] \in Written
      BY <1>2, <1>5, <2>1, <2>3, <3>1 DEF DocumentsInv, ReplacedIsNoOthers
    <3>3. \A t \in Requests : Uploading(t)' => req'[t].new # req'[s].old
      BY <1>1, <1>7, <2>1, <2>3, <3>1 DEF DocumentsInv, ReplacedIsNoOthers
    <3>4. \A d \in Contracts : contract'[d].file = req'[s].old => d = req'[s].contract
      BY <1>3, <2>3, <3>1 DEF DocumentsInv, ReplacedIsNoOthers
    <3>5. QED
      BY <3>2, <3>3, <3>4
  <2>4. QED
    BY <2>3 DEF ReplacedIsNoOthers
<1>12. DoomedIsNobodys'
  <2>1. \A s \in Requests : req'[s].op = "removeFile" => req'[s] = req[s]
    BY <1>1
  <2>2. QED
    BY <1>1, <1>2, <1>3, <1>5, <1>7, <2>1 DEF DocumentsInv, DoomedIsNobodys, Written
<1>13. QED
  BY <1>3, <1>9, <1>10, <1>11, <1>12 DEF DocumentsInv, DocumentHasOneContract

LEMMA StoreRowStep ==
  ASSUME DocumentsInv, TypeOK', NEW r \in Requests, StoreRow(r)
  PROVE  DocumentsInv'
<1>1. /\ req[r] \in [op: {"store", "install"}, contract: Contracts, paid: BOOLEAN,
                     old: Files \cup {None}, new: Files]
      /\ req[r].op = "store"
  BY DEF StoreRow, DocumentsInv, TypeOK, Request, Idle
<1> DEFINE x == [req[r] EXCEPT !.op = "install"]
<1>2. x.op = "install" /\ x.contract = req[r].contract /\ x.old = req[r].old /\ x.new = req[r].new
  BY <1>1
<1>3. \A s \in Requests : req'[s] = IF s = r THEN x ELSE req[s]
  BY DEF StoreRow, GoOn, DocumentsInv, TypeOK
<1> HIDE DEF x
<1>4. /\ file[req[r].new] = "bytes"
      /\ \A g \in Files : file'[g] = IF g = req[r].new THEN "stored" ELSE file[g]
  BY DEF StoreRow, CreateRow, DocumentsInv, TypeOK
<1>5. contract' = contract
  BY DEF StoreRow
<1>6. \A c \in Contracts : contract[c].file # None => contract[c].file \in Files
  BY DEF DocumentsInv, TypeOK, ContractRow
<1>7. \A s \in Requests :
        /\ Uploading(s) => req[s].new \in Files
        /\ Replacing(s) => req[s].old \in Files \cup {None}
        /\ req[s].op = "removeFile" => req[s].target \in Files
  BY RequestFields DEF DocumentsInv, TypeOK, Uploading, Replacing
<1>8. Uploading(r) /\ Replacing(r)
  BY <1>1 DEF Uploading, Replacing
<1>9. \A s \in Requests :
        /\ Uploading(s)' => Uploading(s) /\ req'[s].new = req[s].new
        /\ Replacing(s)' => /\ Replacing(s) /\ req'[s].old = req[s].old
                            /\ req'[s].contract = req[s].contract
        /\ req'[s].op = "removeFile" => req'[s] = req[s]
  BY <1>2, <1>3, <1>8 DEF Uploading, Replacing
<1>10. AttachedIsStored'
  BY <1>4, <1>5, <1>6 DEF DocumentsInv, AttachedIsStored
<1>11. UploadIsUnknown'
  <2>1. \A s \in Requests : Uploading(s) /\ s # r => req[s].new # req[r].new
    BY <1>8 DEF DocumentsInv, UploadIsUnknown
  <2>2. QED
    BY <1>2, <1>3, <1>4, <1>5, <1>7, <1>9, <2>1 DEF DocumentsInv, UploadIsUnknown, Uploading
<1>12. ReplacedIsNoOthers'
  BY <1>4, <1>5, <1>7, <1>9 DEF DocumentsInv, ReplacedIsNoOthers, Written
<1>13. DoomedIsNobodys'
  BY <1>4, <1>5, <1>7, <1>9 DEF DocumentsInv, DoomedIsNobodys, Written
<1>14. QED
  BY <1>5, <1>10, <1>11, <1>12, <1>13 DEF DocumentsInv, DocumentHasOneContract

\* The bytes or the row of a file that no contract has and nobody uploads go away.
LEMMA DiscardingStep ==
  ASSUME DocumentsInv, TypeOK', NEW r \in Requests, NEW f \in Files, NEW x,
         contract' = contract, GoOn(r, x), x.op \in {"idle", "removeBytes"},
         \A c \in Contracts : contract[c].file # f,
         \A s \in Requests : Uploading(s) /\ s # r => req[s].new # f,
         NEW y \in Written, file' = [file EXCEPT ![f] = y]
  PROVE  DocumentsInv'
<1>1. \A s \in Requests : req'[s] = IF s = r THEN x ELSE req[s]
  BY DEF GoOn, DocumentsInv, TypeOK
<1>2. \A g \in Files : file'[g] = IF g = f THEN y ELSE file[g]
  BY DEF DocumentsInv, TypeOK
<1>3. \A c \in Contracts : contract[c].file # None => contract[c].file \in Files
  BY DEF DocumentsInv, TypeOK, ContractRow
<1>4. \A s \in Requests :
        /\ Uploading(s) => req[s].new \in Files
        /\ Replacing(s) => req[s].old \in Files \cup {None}
        /\ req[s].op = "removeFile" => req[s].target \in Files
  BY RequestFields DEF DocumentsInv, TypeOK, Uploading, Replacing
<1>5. \A s \in Requests :
        /\ Uploading(s)' => s # r /\ Uploading(s) /\ req'[s] = req[s]
        /\ Replacing(s)' => s # r /\ Replacing(s) /\ req'[s] = req[s]
        /\ req'[s].op = "removeFile" => s # r /\ req'[s] = req[s]
  BY <1>1 DEF Uploading, Replacing
<1>6. AttachedIsStored'
  BY <1>2, <1>3 DEF DocumentsInv, AttachedIsStored
<1>7. UploadIsUnknown'
  BY <1>2, <1>4, <1>5 DEF DocumentsInv, UploadIsUnknown
<1>8. ReplacedIsNoOthers'
  BY <1>2, <1>4, <1>5 DEF DocumentsInv, ReplacedIsNoOthers
<1>9. DoomedIsNobodys'
  BY <1>2, <1>4, <1>5 DEF DocumentsInv, DoomedIsNobodys
<1>10. QED
  BY <1>6, <1>7, <1>8, <1>9 DEF DocumentsInv, DocumentHasOneContract

\* After it, a document is doomed that no contract has, nobody uploads, and
\* the pointers of one contract at most have moved, to an upload of its own.
LEMMA DoomStep ==
  ASSUME DocumentsInv, TypeOK', file' = file,
         NEW r \in Requests, NEW f \in Files \cup {None}, RemoveThenEnd(r, f),
         DocumentHasOneContract', AttachedIsStored',
         f # None => /\ file[f] \in Written
                     /\ \A c \in Contracts : contract'[c].file # f
                     /\ \A s \in Requests : Uploading(s) /\ s # r => req[s].new # f,
         \A s \in Requests, c \in Contracts : Uploading(s) /\ s # r =>
           contract'[c].file # req[s].new,
         \A s \in Requests, d \in Contracts :
           /\ Replacing(s) /\ s # r /\ req[s].old # None
           /\ contract'[d].file = req[s].old
           => d = req[s].contract,
         \A s \in Requests, c \in Contracts :
           req[s].op = "removeFile" /\ s # r => contract'[c].file # req[s].target
  PROVE  DocumentsInv'
<1> DEFINE x == IF f = None THEN Idle ELSE [op |-> "removeFile", target |-> f]
<1>1. \A s \in Requests : req'[s] = IF s = r THEN x ELSE req[s]
  BY DEF RemoveThenEnd, End, GoOn, DocumentsInv, TypeOK
<1>2. x.op \in {"idle", "removeFile"} /\ (x.op = "removeFile" => f # None /\ x.target = f)
  BY DEF Idle
<1> HIDE DEF x
<1>3. \A s \in Requests :
        /\ Uploading(s)' => s # r /\ Uploading(s) /\ req'[s] = req[s]
        /\ Replacing(s)' => s # r /\ Replacing(s) /\ req'[s] = req[s]
  BY <1>1, <1>2 DEF Uploading, Replacing
<1>4. UploadIsUnknown'
  BY <1>3 DEF DocumentsInv, UploadIsUnknown
<1>5. ReplacedIsNoOthers'
  BY <1>3 DEF DocumentsInv, ReplacedIsNoOthers
<1>6. DoomedIsNobodys'
  <2>1. ASSUME NEW s \in Requests, req'[s].op = "removeFile"
        PROVE  /\ file'[req'[s].target] \in Written
               /\ \A t \in Requests : Uploading(t)' => req'[t].new # req'[s].target
               /\ \A c \in Contracts : contract'[c].file # req'[s].target
    <3>1. CASE s = r
      BY <1>1, <1>2, <1>3, <2>1, <3>1
    <3>2. CASE s # r
      BY <1>1, <1>3, <2>1, <3>2 DEF DocumentsInv, DoomedIsNobodys
    <3>3. QED
      BY <3>1, <3>2
  <2>2. QED
    BY <2>1 DEF DoomedIsNobodys
<1>7. QED
  BY <1>4, <1>5, <1>6 DEF DocumentsInv

LEMMA InstallStep ==
  ASSUME DocumentsInv, TypeOK', NEW r \in Requests, Install(r)
  PROVE  DocumentsInv'
<1>1. /\ req[r].op = "install"
      /\ req[r].contract \in Contracts /\ req[r].paid \in BOOLEAN
      /\ req[r].old \in Files \cup {None} /\ req[r].new \in Files
  BY RequestFields DEF Install, DocumentsInv, TypeOK
<1> DEFINE k == req[r].contract
           new == req[r].new
           old == req[r].old
           row == InstalledRow(contract[k], new, req[r].paid)
           gone == Superseded(k, row, old, new)
<1>2. Update(k, row) /\ RemoveThenEnd(r, gone) /\ file' = file
  BY DEF Install
<1>3. row.file = new /\ k \in Contracts /\ new \in Files /\ new # None
  <2>1. contract[k] \in ContractRow /\ new \in Files /\ req[r].paid \in BOOLEAN
    BY <1>1 DEF DocumentsInv, TypeOK
  <2>2. row.file = new
    <3> HIDE DEF k, new, old, gone
    <3>1. QED
      BY <2>1, RowTypes
  <2>3. QED
    BY <1>1, <2>2, NoneIsNoFile
<1>4. Uploading(r) /\ Replacing(r)
  BY <1>1 DEF Uploading, Replacing
<1>5. /\ file[new] = "stored"
      /\ \A c \in Contracts : contract[c].file # new
      /\ \A s \in Requests : Uploading(s) /\ s # r => req[s].new # new
      /\ \A s \in Requests : Replacing(s) /\ req[s].old # None => req[s].old # new
      /\ \A s \in Requests : req[s].op = "removeFile" => req[s].target # new
  BY <1>1, <1>4 DEF DocumentsInv, UploadIsUnknown, ReplacedIsNoOthers, DoomedIsNobodys
<1>6. old # None => /\ file[old] \in Written /\ old # new
                    /\ \A s \in Requests : Uploading(s) => req[s].new # old
                    /\ \A d \in Contracts : contract[d].file = old => d = k
  BY <1>4 DEF DocumentsInv, ReplacedIsNoOthers
<1> HIDE DEF k, new, old, row
<1>7. CASE Accepted(k, row)
  <2>1. gone = old
    BY <1>7 DEF Superseded
  <2>2. \A c \in Contracts : contract'[c].file = IF c = k THEN new ELSE contract[c].file
    BY <1>2, <1>3, <1>7 DEF Update, DocumentsInv, TypeOK
  <2>3. gone \in Files \cup {None}
    BY <1>1, <2>1 DEF old
  <2>4. DocumentHasOneContract'
    BY <1>5, <2>2 DEF DocumentsInv, DocumentHasOneContract
  <2>5. AttachedIsStored'
    BY <1>2, <1>5, <2>2 DEF DocumentsInv, AttachedIsStored
  <2>6. gone # None => /\ file[gone] \in Written
                       /\ \A c \in Contracts : contract'[c].file # gone
                       /\ \A s \in Requests : Uploading(s) /\ s # r => req[s].new # gone
    BY <1>6, <2>1, <2>2
  <2>7. \A s \in Requests, c \in Contracts : Uploading(s) /\ s # r =>
          contract'[c].file # req[s].new
    BY <1>5, <2>2 DEF DocumentsInv, UploadIsUnknown
  <2>8. \A s \in Requests, d \in Contracts :
          /\ Replacing(s) /\ s # r /\ req[s].old # None
          /\ contract'[d].file = req[s].old
          => d = req[s].contract
    BY <1>5, <2>2 DEF DocumentsInv, ReplacedIsNoOthers
  <2>9. \A s \in Requests, c \in Contracts :
          req[s].op = "removeFile" /\ s # r => contract'[c].file # req[s].target
    BY <1>5, <2>2 DEF DocumentsInv, DoomedIsNobodys
  <2> HIDE DEF gone
  <2>10. QED
    BY <1>2, <2>3, <2>4, <2>5, <2>6, <2>7, <2>8, <2>9, DoomStep
<1>8. CASE ~Accepted(k, row)
  <2>1. gone = new
    BY <1>8 DEF Superseded
  <2>2. contract' = contract
    BY <1>2, <1>3, <1>8 DEF Update, DocumentsInv, TypeOK
  <2>3. gone \in Files \cup {None}
    BY <1>3, <2>1
  <2>4. DocumentHasOneContract' /\ AttachedIsStored'
    BY <1>2, <2>2 DEF DocumentsInv, DocumentHasOneContract, AttachedIsStored
  <2>5. /\ file[gone] \in Written
        /\ \A c \in Contracts : contract'[c].file # gone
        /\ \A s \in Requests : Uploading(s) /\ s # r => req[s].new # gone
    BY <1>5, <2>1, <2>2 DEF Written
  <2>6. \A s \in Requests, c \in Contracts : Uploading(s) /\ s # r =>
          contract'[c].file # req[s].new
    BY <2>2 DEF DocumentsInv, UploadIsUnknown
  <2>7. \A s \in Requests, d \in Contracts :
          /\ Replacing(s) /\ s # r /\ req[s].old # None
          /\ contract'[d].file = req[s].old
          => d = req[s].contract
    BY <2>2 DEF DocumentsInv, ReplacedIsNoOthers
  <2>8. \A s \in Requests, c \in Contracts :
          req[s].op = "removeFile" /\ s # r => contract'[c].file # req[s].target
    BY <2>2 DEF DocumentsInv, DoomedIsNobodys
  <2> HIDE DEF gone
  <2>9. QED
    BY <1>2, <2>3, <2>4, <2>5, <2>6, <2>7, <2>8, DoomStep
<1>9. QED
  BY <1>7, <1>8

LEMMA RemoveWriteStep ==
  ASSUME DocumentsInv, TypeOK', NEW r \in Requests, RemoveWrite(r)
  PROVE  DocumentsInv'
<1>1. /\ req[r].op = "remove" /\ Replacing(r) /\ file' = file
      /\ req[r].contract \in Contracts /\ req[r].old \in Files \cup {None}
  BY RequestFields DEF RemoveWrite, Replacing, DocumentsInv, TypeOK
<1> DEFINE k == req[r].contract
           old == req[r].old
<1>2. CASE Exists(k)
  <2>1. RemoveThenEnd(r, old) /\ contract' = [contract EXCEPT ![k] = Deleted]
    BY <1>2 DEF RemoveWrite
  <2>2. \A c \in Contracts : contract'[c].file = IF c = k THEN None ELSE contract[c].file
    BY <2>1 DEF Deleted, Unborn, DocumentsInv, TypeOK
  <2>3. \A s \in Requests : /\ Uploading(s) => req[s].new # None
                            /\ req[s].op = "removeFile" => req[s].target # None
    BY RequestFields, NoneIsNoFile DEF DocumentsInv, TypeOK, Uploading
  <2>4. old # None => /\ file[old] \in Written
                      /\ \A s \in Requests : Uploading(s) => req[s].new # old
                      /\ \A d \in Contracts : contract[d].file = old => d = k
    BY <1>1 DEF DocumentsInv, ReplacedIsNoOthers
  <2>5. DocumentHasOneContract'
    BY <2>2 DEF DocumentsInv, DocumentHasOneContract
  <2>6. AttachedIsStored'
    BY <1>1, <2>2 DEF DocumentsInv, AttachedIsStored
  <2>7. old # None => /\ file[old] \in Written
                      /\ \A c \in Contracts : contract'[c].file # old
                      /\ \A s \in Requests : Uploading(s) /\ s # r => req[s].new # old
    BY <2>2, <2>4
  <2>8. \A s \in Requests, c \in Contracts : Uploading(s) /\ s # r =>
          contract'[c].file # req[s].new
    BY <2>2, <2>3 DEF DocumentsInv, UploadIsUnknown
  <2>9. \A s \in Requests, d \in Contracts :
          /\ Replacing(s) /\ s # r /\ req[s].old # None
          /\ contract'[d].file = req[s].old
          => d = req[s].contract
    BY <2>2 DEF DocumentsInv, ReplacedIsNoOthers
  <2>10. \A s \in Requests, c \in Contracts :
          req[s].op = "removeFile" /\ s # r => contract'[c].file # req[s].target
    BY <2>2, <2>3 DEF DocumentsInv, DoomedIsNobodys
  <2>11. old \in Files \cup {None}
    BY <1>1
  <2> HIDE DEF k, old
  <2>12. QED
    BY <1>1, <2>1, <2>5, <2>6, <2>7, <2>8, <2>9, <2>10, <2>11, DoomStep
<1>3. CASE ~Exists(k)
  <2>1. contract' = contract /\ End(r)
    BY <1>3 DEF RemoveWrite
  <2>2. \A s \in Requests : req'[s] = IF s = r THEN Idle ELSE req[s]
    BY <2>1 DEF End, GoOn, DocumentsInv, TypeOK
  <2>3. QED
    BY <1>1, <2>1, <2>2, QuietStep DEF Idle
<1>4. QED
  BY <1>2, <1>3

LEMMA RemoveFileRowStep ==
  ASSUME DocumentsInv, TypeOK', NEW r \in Requests, RemoveFileRow(r)
  PROVE  DocumentsInv'
<1>1. req[r].op = "removeFile" /\ req[r].target \in Files
  BY RequestFields DEF RemoveFileRow, DocumentsInv, TypeOK
<1>2. /\ \A c \in Contracts : contract[c].file # req[r].target
      /\ \A s \in Requests : Uploading(s) => req[s].new # req[r].target
  BY <1>1 DEF DocumentsInv, DoomedIsNobodys
<1>3. CASE FileRowDeletable(req[r].target)
  <2>1. /\ file' = [file EXCEPT ![req[r].target] = "rowless"]
        /\ contract' = [c \in Contracts |-> DetachedRow(contract[c], req[r].target)]
        /\ GoOn(r, [op |-> "removeBytes", target |-> req[r].target])
    BY <1>3 DEF RemoveFileRow, DeleteRow
  <2>2. \A c \in Contracts : contract'[c] = contract[c]
    BY <1>2, <2>1 DEF DetachedRow
  <2>3. contract' = contract
    BY <2>1, <2>2 DEF DocumentsInv, TypeOK
  <2> DEFINE x == [op |-> "removeBytes", target |-> req[r].target]
             f == req[r].target
  <2>4. x.op \in {"idle", "removeBytes"} /\ "rowless" \in Written /\ f \in Files
    BY <1>1 DEF Written
  <2>5. GoOn(r, x) /\ file' = [file EXCEPT ![f] = "rowless"]
    BY <2>1
  <2>6. /\ \A c \in Contracts : contract[c].file # f
        /\ \A s \in Requests : Uploading(s) /\ s # r => req[s].new # f
    BY <1>2
  <2> HIDE DEF x, f
  <2>7. QED
    BY <2>3, <2>4, <2>5, <2>6, DiscardingStep
<1>4. CASE ~FileRowDeletable(req[r].target)
  <2>1. UNCHANGED <<file, contract>> /\ End(r)
    BY <1>4 DEF RemoveFileRow
  <2>2. \A s \in Requests : req'[s] = IF s = r THEN Idle ELSE req[s]
    BY <2>1 DEF End, GoOn, DocumentsInv, TypeOK
  <2>3. QED
    BY <2>1, <2>2, QuietStep DEF Idle
<1>5. QED
  BY <1>3, <1>4

LEMMA DocumentInvInit == Init => DocumentsInv
<1> SUFFICES ASSUME Init PROVE DocumentsInv
  OBVIOUS
<1>1. \A c \in Contracts : contract[c].file = None
  BY DEF Init, Unborn
<1>2. \A r \in Requests : req[r].op = "idle"
  BY DEF Init, Idle
<1>3. DocumentHasOneContract /\ AttachedIsStored
  BY <1>1 DEF DocumentHasOneContract, AttachedIsStored
<1>4. UploadIsUnknown /\ ReplacedIsNoOthers /\ DoomedIsNobodys
  BY <1>2 DEF UploadIsUnknown, ReplacedIsNoOthers, DoomedIsNobodys, Uploading, Replacing
<1>5. QED
  BY <1>3, <1>4, TypeInit DEF DocumentsInv

LEMMA DocumentInvStep == DocumentsInv /\ [Next]_vars => DocumentsInv'
<1> SUFFICES ASSUME DocumentsInv, [Next]_vars PROVE DocumentsInv'
  OBVIOUS
<1>1. TypeOK /\ TypeOK'
  BY TypeStep DEF DocumentsInv
<1>2. CASE UNCHANGED vars
  BY <1>1, <1>2, QuietStep DEF vars
<1>3. ASSUME NEW a \in Staff, NEW m \in Staff, NEW c \in Contracts, NEW terms \in Terms,
             Create(a, m, c, terms)
      PROVE  DocumentsInv'
  <2>1. \A d \in Contracts : contract'[d].file \in {contract[d].file, None}
    BY <1>1, <1>3 DEF Create, DraftRow, Unborn, TypeOK
  <2>2. file' = file /\ req' = req
    BY <1>3 DEF Create
  <2>3. QED
    BY <1>1, <2>1, <2>2, QuietStep
<1>4. ASSUME NEW r \in Requests, NEW x, GoOn(r, x), UNCHANGED <<contract, file>>,
             x.op \in {"idle", "update", "deposit"}
      PROVE  DocumentsInv'
  BY <1>1, <1>4, QuietStep DEF GoOn, TypeOK
<1>5. ASSUME NEW r \in Requests, EditStep(r) PROVE DocumentsInv'
  <2>1. ASSUME NEW a \in Staff, NEW c \in Contracts, UpdateRead(r, a, c)
        PROVE  DocumentsInv'
    BY <1>4, <2>1 DEF UpdateRead, Begin
  <2>2. ASSUME NEW a \in Staff \cup Accountants, NEW c \in Contracts, NEW paid \in BOOLEAN,
               DepositRead(r, a, c, paid)
        PROVE  DocumentsInv'
    BY <1>4, <2>2 DEF DepositRead, Begin
  <2>3. ASSUME NEW c \in Contracts, NEW row \in ContractRow, row.file = contract[c].file,
               Update(c, row), End(r), UNCHANGED file
        PROVE  DocumentsInv'
    <3>1. \A d \in Contracts : contract'[d].file = contract[d].file
      BY <1>1, <2>3 DEF Update, TypeOK
    <3>2. \A s \in Requests : req'[s] = IF s = r THEN Idle ELSE req[s]
      BY <1>1, <2>3 DEF End, GoOn, TypeOK
    <3>3. QED
      BY <1>1, <2>3, <3>1, <3>2, QuietStep DEF Idle
  <2>4. CASE UpdateWrite(r)
    <3> DEFINE c == req[r].contract
               row == EditedRow(contract[c], req[r].body, req[r].terms, req[r].manager)
    <3>1. c \in Contracts /\ req[r].terms \in Terms /\ req[r].manager \in Staff \cup {None}
      BY <1>1, <2>4, RequestFields DEF UpdateWrite, TypeOK
    <3>2. contract[c] \in ContractRow
      BY <1>1, <3>1 DEF TypeOK
    <3>3. row \in ContractRow /\ row.file = contract[c].file
      BY <3>1, <3>2, RowTypes
    <3>4. Update(c, row) /\ End(r) /\ UNCHANGED file
      BY <2>4 DEF UpdateWrite
    <3> HIDE DEF c, row
    <3>5. QED
      BY <2>3, <3>1, <3>3, <3>4
  <2>5. CASE DepositWrite(r)
    <3> DEFINE c == req[r].contract
               row == MarkedRow(contract[c], req[r].paid, req[r].hasFile)
    <3>1. c \in Contracts /\ req[r].paid \in BOOLEAN /\ req[r].hasFile \in BOOLEAN
      BY <1>1, <2>5, RequestFields DEF DepositWrite, TypeOK
    <3>2. contract[c] \in ContractRow
      BY <1>1, <3>1 DEF TypeOK
    <3>3. row \in ContractRow /\ row.file = contract[c].file
      BY <3>1, <3>2, RowTypes
    <3>4. Update(c, row) /\ End(r) /\ UNCHANGED file
      BY <2>5 DEF DepositWrite
    <3> HIDE DEF c, row
    <3>5. QED
      BY <2>3, <3>1, <3>3, <3>4
  <2>6. QED
    BY <1>5, <2>1, <2>2, <2>4, <2>5 DEF EditStep
<1>6. ASSUME NEW r \in Requests, AttachStep(r) PROVE DocumentsInv'
  <2>1. ASSUME NEW a \in Staff, NEW c \in Contracts, AttachRead(r, a, c) PROVE DocumentsInv'
    <3> DEFINE x == [op |-> "attach", contract |-> c, paid |-> contract[c].depositPaid,
                     old |-> contract[c].file]
    <3>1. GoOn(r, x) /\ UNCHANGED <<contract, file>>
      BY <2>1 DEF AttachRead, Begin
    <3>2. x.op \in {"attach", "remove"} /\ x.contract = c /\ x.old = contract[c].file
      OBVIOUS
    <3> HIDE DEF x
    <3>3. QED
      BY <1>1, <3>1, <3>2, RememberingStep
  <2>2. CASE StoreFails(r)
    <3> DEFINE f == req[r].new
    <3>1. f \in Files /\ Uploading(r)
      BY <1>1, <2>2, RequestFields DEF StoreFails, TypeOK, Uploading
    <3>2. /\ \A c \in Contracts : contract[c].file # f
          /\ \A s \in Requests : Uploading(s) /\ s # r => req[s].new # f
      BY <3>1 DEF DocumentsInv, UploadIsUnknown
    <3>3. /\ contract' = contract /\ GoOn(r, Idle) /\ Idle.op \in {"idle", "removeBytes"}
          /\ "gone" \in Written /\ file' = [file EXCEPT ![f] = "gone"]
      BY <2>2 DEF StoreFails, DropBytes, End, Idle, Written
    <3> HIDE DEF f
    <3>4. QED
      BY <1>1, <3>1, <3>2, <3>3, DiscardingStep
  <2>3. QED
    BY <1>1, <1>6, <2>1, <2>2, StoreBytesStep, StoreRowStep, InstallStep DEF AttachStep
<1>7. ASSUME NEW r \in Requests, RemoveStep(r) PROVE DocumentsInv'
  <2>1. ASSUME NEW h \in Heads, NEW c \in Contracts, RemoveRead(r, h, c) PROVE DocumentsInv'
    <3> DEFINE x == [op |-> "remove", contract |-> c, old |-> contract[c].file]
    <3>1. GoOn(r, x) /\ UNCHANGED <<contract, file>>
      BY <2>1 DEF RemoveRead, Begin
    <3>2. x.op \in {"attach", "remove"} /\ x.contract = c /\ x.old = contract[c].file
      OBVIOUS
    <3> HIDE DEF x
    <3>3. QED
      BY <1>1, <3>1, <3>2, RememberingStep
  <2>2. CASE RemoveFileBytes(r)
    <3> DEFINE f == req[r].target
    <3>1. f \in Files /\ file[f] = "rowless" /\ f # None
      BY <1>1, <2>2, RequestFields, NoneIsNoFile DEF RemoveFileBytes, RemoveBytes, TypeOK
    <3>2. /\ \A c \in Contracts : contract[c].file # f
          /\ \A s \in Requests : Uploading(s) /\ s # r => req[s].new # f
      BY <3>1 DEF DocumentsInv, AttachedIsStored, UploadIsUnknown, Uploading
    <3>3. /\ contract' = contract /\ GoOn(r, Idle) /\ Idle.op \in {"idle", "removeBytes"}
          /\ "gone" \in Written /\ file' = [file EXCEPT ![f] = "gone"]
      BY <2>2 DEF RemoveFileBytes, RemoveBytes, End, Idle, Written
    <3> HIDE DEF f
    <3>4. QED
      BY <1>1, <3>1, <3>2, <3>3, DiscardingStep
  <2>3. QED
    BY <1>1, <1>7, <2>1, <2>2, RemoveWriteStep, RemoveFileRowStep DEF RemoveStep
<1>8. ASSUME NEW r \in Requests, Abandon(r) PROVE DocumentsInv'
  BY <1>4, <1>8 DEF Abandon, End, Idle
<1>9. QED
  BY <1>2, <1>3, <1>5, <1>6, <1>7, <1>8 DEF Next

\* Uploads, replacements and removals never leave two contracts one document
\* (ContractsService.attachFile, FileStorageService.store).
THEOREM DocumentIsNeverShared == Spec => []DocumentHasOneContract
<1>1. DocumentsInv => DocumentHasOneContract
  BY DEF DocumentsInv
<1>2. QED
  BY <1>1, DocumentInvInit, DocumentInvStep, PTL DEF Spec

\* The rows that the statements write keep the document of the row they found.
LEMMA PointerStays ==
  ASSUME DocumentsInv, TypeOK', [Next]_vars,
         NEW c \in Contracts, contract[c].file # None, contract'[c].file = None
  PROVE  contract'[c].status = "deleted"
<1>1. TypeOK
  BY DEF DocumentsInv
<1>2. contract' # contract
  OBVIOUS
<1>3. ASSUME NEW d \in Contracts, NEW row \in ContractRow, Update(d, row),
             row.file \in {contract[d].file} \cup Files
      PROVE  FALSE
  BY <1>1, <1>3, NoneIsNoFile DEF Update, TypeOK
<1>4. ASSUME NEW a \in Staff, NEW m \in Staff, NEW d \in Contracts, NEW terms \in Terms,
             Create(a, m, d, terms)
      PROVE  FALSE
  BY <1>1, <1>4 DEF Create, DraftRow, Unborn, TypeOK
<1>5. ASSUME NEW r \in Requests, UpdateWrite(r) PROVE FALSE
  <2> DEFINE d == req[r].contract
             row == EditedRow(contract[d], req[r].body, req[r].terms, req[r].manager)
  <2>1. d \in Contracts /\ req[r].terms \in Terms /\ req[r].manager \in Staff \cup {None}
    BY <1>1, <1>5, RequestFields DEF UpdateWrite, TypeOK
  <2>2. contract[d] \in ContractRow
    BY <1>1, <2>1 DEF TypeOK
  <2>3. row \in ContractRow /\ row.file = contract[d].file
    BY <2>1, <2>2, RowTypes
  <2>4. Update(d, row)
    BY <1>5 DEF UpdateWrite
  <2> HIDE DEF d, row
  <2>5. QED
    BY <1>3, <2>1, <2>3, <2>4
<1>6. ASSUME NEW r \in Requests, DepositWrite(r) PROVE FALSE
  <2> DEFINE d == req[r].contract
             row == MarkedRow(contract[d], req[r].paid, req[r].hasFile)
  <2>1. d \in Contracts /\ req[r].paid \in BOOLEAN /\ req[r].hasFile \in BOOLEAN
    BY <1>1, <1>6, RequestFields DEF DepositWrite, TypeOK
  <2>2. contract[d] \in ContractRow
    BY <1>1, <2>1 DEF TypeOK
  <2>3. row \in ContractRow /\ row.file = contract[d].file
    BY <2>1, <2>2, RowTypes
  <2>4. Update(d, row)
    BY <1>6 DEF DepositWrite
  <2> HIDE DEF d, row
  <2>5. QED
    BY <1>3, <2>1, <2>3, <2>4
<1>7. ASSUME NEW r \in Requests, Install(r) PROVE FALSE
  <2> DEFINE d == req[r].contract
             row == InstalledRow(contract[d], req[r].new, req[r].paid)
  <2>1. d \in Contracts /\ req[r].new \in Files /\ req[r].paid \in BOOLEAN
    BY <1>1, <1>7, RequestFields DEF Install, TypeOK
  <2>2. contract[d] \in ContractRow
    BY <1>1, <2>1 DEF TypeOK
  <2>3. row \in ContractRow /\ row.file \in Files
    BY <2>1, <2>2, RowTypes
  <2>4. Update(d, row)
    BY <1>7 DEF Install
  <2> HIDE DEF d, row
  <2>5. QED
    BY <1>3, <2>1, <2>3, <2>4
<1>8. ASSUME NEW r \in Requests, RemoveFileRow(r) PROVE FALSE
  <2>1. req[r].op = "removeFile" => \A d \in Contracts : contract[d].file # req[r].target
    BY DEF DocumentsInv, DoomedIsNobodys
  <2>2. QED
    BY <1>1, <1>2, <1>8, <2>1 DEF RemoveFileRow, DetachedRow, TypeOK
<1>9. ASSUME NEW r \in Requests, RemoveWrite(r) PROVE contract'[c].status = "deleted"
  BY <1>1, <1>9 DEF RemoveWrite, Deleted, Unborn, TypeOK
<1>10. QED
  BY <1>2, <1>4, <1>5, <1>6, <1>7, <1>8, <1>9
     DEF Next, vars, EditStep, AttachStep, RemoveStep, UpdateRead, DepositRead, Begin,
         AttachRead, StoreBytes, StoreRow, StoreFails, RemoveRead, RemoveFileBytes, Abandon

\* A document once attached can be read for as long as its contract exists
\* (ContractsService.attachFile and remove, FileStorageService.remove).
THEOREM DocumentsAreKept == Spec => DocumentIsNeverLost
<1>1. ASSUME DocumentsInv, [Next]_vars
      PROVE  [\A c \in Contracts :
               contract[c].file # None /\ contract'[c].status # "deleted"
                 => contract'[c].file # None /\ file'[contract'[c].file] = "stored"]_vars
  <2>1. DocumentsInv'
    BY <1>1, DocumentInvStep
  <2>2. \A c \in Contracts : contract[c].file # None /\ contract'[c].status # "deleted"
          => contract'[c].file # None
    BY <1>1, <2>1, PointerStays DEF DocumentsInv
  <2>3. QED
    BY <2>1, <2>2 DEF DocumentsInv, AttachedIsStored
<1>2. QED
  BY <1>1, DocumentInvInit, DocumentInvStep, PTL DEF Spec, DocumentIsNeverLost

-----------------------------------------------------------------------------
(***************************************************************************)
(* What a handler knows of its contract.  While nobody writes the column   *)
(* it has read, that column is what it remembers; who writes it makes it   *)
(* stale.                                                                  *)
(***************************************************************************)
About(x) == x.op \in Uploads \cup {"update", "deposit"}

Fresh(x, row) ==
  /\ x.op = "update" => x.terms = Completed(x.body, row.terms)
  /\ x.op = "deposit" => x.hasFile = (row.file # None)
  /\ x.op \in Uploads => x.paid = row.depositPaid

Knows(x, row, isStale) ==
  row # Unborn /\ (~isStale /\ row.status \in ContractStatus => Fresh(x, row))

FreshReadings ==
  \A r \in Requests : About(req[r]) =>
    Knows(req[r], contract[req[r].contract], r \in stale)

ReadingsInv == DocumentsInv /\ FreshReadings /\ AmountsMatchTerms

LEMMA AboutAContract ==
  ASSUME NEW x \in Request, About(x) PROVE x.contract \in Contracts
BY RequestFields DEF About, Uploads

\* A handler moves itself alone.
LEMMA OnlyOwn ==
  ASSUME TypeOK, NEW r \in Requests, NEW s \in Requests, r # s,
         EditStep(s) \/ AttachStep(s) \/ RemoveStep(s) \/ Abandon(s)
  PROVE  req'[r] = req[r]
<1>1. \A x : GoOn(s, x) => req'[r] = req[r]
  BY DEF GoOn, TypeOK
<1>2. \A f : RemoveThenEnd(s, f) => req'[r] = req[r]
  BY <1>1 DEF RemoveThenEnd, End
<1>3. QED
  BY <1>1, <1>2
     DEF EditStep, AttachStep, RemoveStep, Begin, End, UpdateRead, UpdateWrite, DepositRead,
         DepositWrite, AttachRead, StoreBytes, StoreRow, StoreFails, Install, RemoveRead,
         RemoveWrite, RemoveFileRow, RemoveFileBytes, Abandon

\* A write ends the reliance of its handler on what it had read.
LEMMA WritersMoveOn ==
  ASSUME TypeOK, NEW r \in Requests, UpdateWrite(r) \/ DepositWrite(r) \/ Install(r)
  PROVE  req'[r] # req[r] /\ req'[r].op \in {"idle", "removeFile"}
<1>1. \A x : GoOn(r, x) => req'[r] = x
  BY DEF GoOn, TypeOK
<1>2. req'[r].op \in {"idle", "removeFile"}
  BY <1>1 DEF UpdateWrite, DepositWrite, Install, End, RemoveThenEnd, Idle
<1>3. req[r].op \in {"update", "deposit", "install"}
  BY DEF UpdateWrite, DepositWrite, Install
<1>4. QED
  BY <1>2, <1>3

\* Whose readings are out of date, theirs stay so until they go on to the end.
LEMMA StaleStays ==
  ASSUME TypeOK, Next, NEW r \in Requests, r \in stale, req'[r] = req[r]
  PROVE  r \in stale'
<1>1. \A s : Outdates(s) /\ s # r => r \in stale'
  BY DEF Outdates
<1>2. ASSUME NEW s \in Requests, StoreFails(s) \/ Abandon(s) PROVE r \in stale'
  <2>1. req'[s] = Idle /\ req[s] # Idle
    BY <1>2 DEF StoreFails, Abandon, End, GoOn, TypeOK, Idle
  <2>2. QED
    BY <1>2, <2>1 DEF StoreFails, Abandon
<1>3. ASSUME NEW s \in Requests, UpdateWrite(s) \/ DepositWrite(s) \/ Install(s)
      PROVE  r \in stale'
  BY <1>1, <1>3, WritersMoveOn DEF UpdateWrite, DepositWrite, Install
<1>4. QED
  BY <1>2, <1>3
     DEF Next, Create, EditStep, AttachStep, RemoveStep, Begin, UpdateRead, DepositRead,
         AttachRead, StoreBytes, StoreRow, RemoveRead, RemoveWrite, RemoveFileRow, RemoveFileBytes

\* A file that is removed takes no pointer with it.
LEMMA RemovalsTouchNoRow ==
  ASSUME DocumentsInv, NEW r \in Requests, RemoveFileRow(r), NEW c \in Contracts
  PROVE  contract'[c] = contract[c]
<1>1. req[r].op = "removeFile" /\ contract[c].file # req[r].target
  BY DEF RemoveFileRow, DocumentsInv, DoomedIsNobodys
<1>2. QED
  BY <1>1 DEF RemoveFileRow, DetachedRow

\* What another handler does to a reading: nothing, or it makes it stale.
LEMMA ReadingStays ==
  ASSUME ReadingsInv, Next, NEW r \in Requests, req'[r] = req[r], About(req[r]),
         NEW c \in Contracts, c = req[r].contract
  PROVE  Knows(req[r], contract'[c], r \in stale')
<1>1. TypeOK /\ contract[c] \in ContractRow
  BY DEF ReadingsInv, DocumentsInv, TypeOK
<1>2. Knows(req[r], contract[c], r \in stale)
  BY DEF ReadingsInv, FreshReadings
<1>3. r \notin stale' => r \notin stale
  BY <1>1, StaleStays
<1>4. CASE contract'[c] = contract[c]
  BY <1>2, <1>3, <1>4 DEF Knows
<1>5. CASE contract'[c] = Deleted
  BY <1>5 DEF Knows, Deleted, Unborn, ContractStatus
<1>6. ASSUME Exists(c), contract'[c].status \in ContractStatus,
             r \notin stale' /\ Fresh(req[r], contract[c]) => Fresh(req[r], contract'[c])
      PROVE  Knows(req[r], contract'[c], r \in stale')
  BY <1>2, <1>3, <1>6 DEF Knows, Exists, Unborn, ContractStatus
<1>7. ASSUME NEW s \in Requests, UpdateWrite(s) \/ DepositWrite(s) \/ Install(s),
             s # r, s \in Requests, r \in Readers(s)
      PROVE  r \in stale'
  BY <1>7 DEF UpdateWrite, DepositWrite, Install, Outdates
<1>8. ASSUME NEW s \in Requests, UpdateWrite(s) \/ DepositWrite(s) \/ Install(s)
      PROVE  s # r
  BY <1>1, <1>8, WritersMoveOn
<1>9. ASSUME NEW s \in Requests, UpdateWrite(s), req[s].contract = c, Accepted(c, contract'[c]),
             contract'[c] = EditedRow(contract[c], req[s].body, req[s].terms, req[s].manager)
      PROVE  Knows(req[r], contract'[c], r \in stale')
  <2>1. /\ contract'[c].status = contract[c].status /\ contract'[c].file = contract[c].file
        /\ contract'[c].depositPaid = contract[c].depositPaid
    BY <1>1, <1>9, EditedColumns
  <2>2. req[r].op = "update" => r \in stale'
    BY <1>7, <1>8, <1>9 DEF Readers, UpdateWrite
  <2>3. Fresh(req[r], contract[c]) /\ req[r].op # "update" => Fresh(req[r], contract'[c])
    BY <2>1 DEF Fresh
  <2>4. Exists(c) /\ contract'[c].status \in ContractStatus
    BY <1>9, <2>1 DEF Accepted, Exists
  <2>5. QED
    BY <1>6, <2>2, <2>3, <2>4
<1>10. ASSUME NEW s \in Requests, DepositWrite(s), req[s].contract = c, Accepted(c, contract'[c]),
              contract'[c] = MarkedRow(contract[c], req[s].paid, req[s].hasFile)
       PROVE  Knows(req[r], contract'[c], r \in stale')
  <2>1. /\ contract'[c].terms = contract[c].terms /\ contract'[c].file = contract[c].file
        /\ contract'[c].status \in ContractStatus
    BY <1>1, <1>10, MarkedColumns, DeriveContractStatusType
  <2>2. req[r].op \in Uploads => r \in stale'
    BY <1>7, <1>8, <1>10 DEF Readers, DepositWrite
  <2>3. Fresh(req[r], contract[c]) /\ req[r].op \notin Uploads => Fresh(req[r], contract'[c])
    BY <2>1 DEF Fresh
  <2>4. Exists(c)
    BY <1>10 DEF Accepted
  <2>5. QED
    BY <1>6, <2>1, <2>2, <2>3, <2>4
<1>11. ASSUME NEW s \in Requests, Install(s), req[s].contract = c, Accepted(c, contract'[c]),
              contract'[c] = InstalledRow(contract[c], req[s].new, req[s].paid)
       PROVE  Knows(req[r], contract'[c], r \in stale')
  <2>1. /\ contract'[c].terms = contract[c].terms
        /\ contract'[c].depositPaid = contract[c].depositPaid
        /\ contract'[c].status \in ContractStatus
    <3>1. req[s].paid \in BOOLEAN
      BY <1>1, <1>11, RequestFields DEF Install, TypeOK
    <3>2. QED
      BY <1>1, <1>11, <3>1, InstalledColumns DEF ContractStatus
  <2>2. req[r].op = "deposit" => r \in stale'
    BY <1>7, <1>8, <1>11 DEF Readers, Install
  <2>3. Fresh(req[r], contract[c]) /\ req[r].op # "deposit" => Fresh(req[r], contract'[c])
    BY <2>1 DEF Fresh
  <2>4. Exists(c)
    BY <1>11 DEF Accepted
  <2>5. QED
    BY <1>6, <2>1, <2>2, <2>3, <2>4
<1>12. ASSUME NEW s \in Requests, RemoveFileRow(s) PROVE contract'[c] = contract[c]
  BY <1>12, RemovalsTouchNoRow DEF ReadingsInv
<1>13. CASE contract'[c] # contract[c]
  <2>1. contract[c] # Unborn
    BY <1>2 DEF Knows
  <2>2. QED
    BY <1>1, <1>5, <1>9, <1>10, <1>11, <1>12, <1>13, <2>1, RowWritten
<1>14. QED
  BY <1>4, <1>13

\* What a handler has just read, or carries on, is as it remembers it.
LEMMA ReadingBegins ==
  ASSUME ReadingsInv, Next, NEW r \in Requests, req'[r] # req[r], About(req'[r])
  PROVE  Knows(req'[r], contract'[req'[r].contract], r \in stale')
<1>1. TypeOK
  BY DEF ReadingsInv, DocumentsInv
<1>2. EditStep(r) \/ AttachStep(r) \/ RemoveStep(r) \/ Abandon(r)
  BY <1>1, OnlyOwn DEF Next, Create
<1>3. \A x : GoOn(r, x) => req'[r] = x
  BY <1>1 DEF GoOn, TypeOK
<1>4. ~End(r) /\ \A f : ~RemoveThenEnd(r, f)
  BY <1>3 DEF End, RemoveThenEnd, About, Uploads, Idle
<1>5. \A c : Exists(c) => contract[c] # Unborn
  BY DEF Exists, Unborn, ContractStatus
<1>6. ASSUME NEW a \in Staff, NEW c \in Contracts, UpdateRead(r, a, c)
      PROVE  Knows(req'[r], contract'[req'[r].contract], r \in stale')
  <2>1. PICK body \in Bodies, m \in Staff \cup {None} :
          Begin(r, [op |-> "update", contract |-> c, body |-> body,
                    terms |-> Completed(body, contract[c].terms), manager |-> m])
    BY <1>6 DEF UpdateRead
  <2> DEFINE terms == Completed(body, contract[c].terms)
  <2>2. contract' = contract /\ Exists(c)
    BY <1>6, <2>1 DEF UpdateRead, Begin, Editable, InScope
  <2>3. req'[r] = [op |-> "update", contract |-> c, body |-> body, terms |-> terms,
                   manager |-> m]
    BY <1>3, <2>1 DEF Begin
  <2>4. terms = Completed(body, contract[c].terms)
    OBVIOUS
  <2> HIDE DEF terms
  <2>5. QED
    BY <1>5, <2>2, <2>3, <2>4 DEF Knows, Fresh, Uploads
<1>7. ASSUME NEW a \in Staff \cup Accountants, NEW c \in Contracts, NEW paid \in BOOLEAN,
             DepositRead(r, a, c, paid)
      PROVE  Knows(req'[r], contract'[req'[r].contract], r \in stale')
  <2>1. contract' = contract /\ Exists(c)
    BY <1>7 DEF DepositRead, MayMark, Begin, Editable, InScope
  <2>2. req'[r] = [op |-> "deposit", contract |-> c, paid |-> paid,
                   hasFile |-> contract[c].file # None]
    BY <1>3, <1>7 DEF DepositRead, Begin
  <2>3. QED
    BY <1>5, <2>1, <2>2 DEF Knows, Fresh, Uploads
<1>8. ASSUME NEW a \in Staff, NEW c \in Contracts, AttachRead(r, a, c)
      PROVE  Knows(req'[r], contract'[req'[r].contract], r \in stale')
  <2>1. contract' = contract /\ Exists(c)
    BY <1>8 DEF AttachRead, Begin, Editable, InScope
  <2>2. req'[r] = [op |-> "attach", contract |-> c, paid |-> contract[c].depositPaid,
                   old |-> contract[c].file]
    BY <1>3, <1>8 DEF AttachRead, Begin
  <2>3. QED
    BY <1>5, <2>1, <2>2 DEF Knows, Fresh
<1>9. ASSUME UNCHANGED <<contract, stale>>, req[r].op \in Uploads, req'[r].op \in Uploads,
             req'[r].contract = req[r].contract, req'[r].paid = req[r].paid
      PROVE  Knows(req'[r], contract'[req'[r].contract], r \in stale')
  BY <1>9 DEF ReadingsInv, FreshReadings, About, Knows, Fresh, Uploads
<1>10. ASSUME NEW f \in Files, StoreBytes(r, f)
       PROVE  Knows(req'[r], contract'[req'[r].contract], r \in stale')
  BY <1>3, <1>9, <1>10 DEF StoreBytes, Uploads
<1>11. CASE StoreRow(r)
  <2>1. req[r] \in [op: {"store", "install"}, contract: Contracts, paid: BOOLEAN,
                    old: Files \cup {None}, new: Files]
    BY <1>1, <1>11 DEF StoreRow, TypeOK, Request, Idle
  <2>2. req'[r] = [req[r] EXCEPT !.op = "install"]
    BY <1>3, <1>11 DEF StoreRow
  <2>3. /\ req'[r].op = "install" /\ req'[r].contract = req[r].contract
        /\ req'[r].paid = req[r].paid
    BY <2>1, <2>2
  <2>4. QED
    BY <1>9, <1>11, <2>3 DEF StoreRow, Uploads
<1>12. ASSUME NEW h \in Heads, NEW c \in Contracts, RemoveRead(r, h, c) PROVE FALSE
  BY <1>3, <1>12 DEF RemoveRead, Begin, About, Uploads
<1>13. CASE RemoveFileRow(r)
  BY <1>3, <1>4, <1>13 DEF RemoveFileRow, About, Uploads
<1>14. QED
  BY <1>2, <1>4, <1>6, <1>7, <1>8, <1>10, <1>11, <1>12, <1>13
     DEF EditStep, AttachStep, RemoveStep, UpdateWrite, DepositWrite, StoreFails, Install,
         RemoveWrite, RemoveFileBytes, Abandon

\* Each statement writes amounts of the terms it writes, or neither.
LEMMA AmountsStep ==
  ASSUME TypeOK, AmountsMatchTerms, [Next]_vars, NEW c \in Contracts, Exists(c)'
  PROVE  contract'[c].amounts = ComputeAmounts(contract'[c].terms)
<1>1. contract[c] \in ContractRow
  BY DEF TypeOK
<1>2. Exists(c) => contract[c].amounts = ComputeAmounts(contract[c].terms)
  BY DEF AmountsMatchTerms
<1>3. CASE contract'[c] = contract[c]
  BY <1>2, <1>3 DEF Exists
<1>4. CASE contract'[c] # contract[c]
  <2>1. Next
    BY <1>4 DEF vars
  <2>2. ASSUME NEW m, NEW terms, contract'[c] = DraftRow(m, terms)
        PROVE  contract'[c].amounts = ComputeAmounts(contract'[c].terms)
    <3> DEFINE amounts == ComputeAmounts(terms)
    <3>1. DraftRow(m, terms) = [Unborn EXCEPT !.status = "draft", !.manager = m,
                                             !.terms = terms, !.amounts = amounts]
      BY DEF DraftRow
    <3>2. amounts = ComputeAmounts(terms)
      OBVIOUS
    <3> HIDE DEF amounts
    <3>3. contract'[c].amounts = amounts /\ contract'[c].terms = terms
      BY <2>2, <3>1 DEF Unborn
    <3>4. QED
      BY <3>2, <3>3
  <2>3. contract'[c] # Deleted
    BY DEF Exists, Deleted, Unborn, ContractStatus
  <2>4. ASSUME NEW b, NEW terms, NEW m, contract'[c] = EditedRow(contract[c], b, terms, m)
        PROVE  contract'[c].amounts = ComputeAmounts(contract'[c].terms)
    BY <1>1, <2>4, EditedColumns
  <2>5. ASSUME NEW p, NEW h, Accepted(c, contract'[c]),
               contract'[c] = MarkedRow(contract[c], p, h)
        PROVE  contract'[c].amounts = ComputeAmounts(contract'[c].terms)
    BY <1>1, <1>2, <2>5, MarkedColumns DEF Accepted
  <2>6. ASSUME NEW r \in Requests, Install(r), Accepted(c, contract'[c]),
               contract'[c] = InstalledRow(contract[c], req[r].new, req[r].paid)
        PROVE  contract'[c].amounts = ComputeAmounts(contract'[c].terms)
    <3>1. req[r].paid \in BOOLEAN
      BY <2>6, RequestFields DEF Install, TypeOK
    <3>2. QED
      BY <1>1, <1>2, <2>6, <3>1, InstalledColumns DEF Accepted
  <2>7. ASSUME NEW f, contract'[c] = DetachedRow(contract[c], f)
        PROVE  contract'[c].amounts = ComputeAmounts(contract'[c].terms)
    BY <1>1, <1>2, <2>7, DetachedColumns DEF Exists
  <2>8. QED
    BY <1>4, <2>1, <2>2, <2>3, <2>4, <2>5, <2>6, <2>7, RowWritten
<1>5. QED
  BY <1>3, <1>4

LEMMA ReadingsInit == Init => ReadingsInv
BY DocumentInvInit
   DEF Init, ReadingsInv, FreshReadings, About, Uploads, Idle, AmountsMatchTerms, Exists,
       Unborn, ContractStatus

LEMMA ReadingsStep == ReadingsInv /\ [Next]_vars => ReadingsInv'
<1> SUFFICES ASSUME ReadingsInv, [Next]_vars PROVE ReadingsInv'
  OBVIOUS
<1>1. DocumentsInv /\ TypeOK /\ AmountsMatchTerms
  BY DEF ReadingsInv, DocumentsInv
<1>2. DocumentsInv'
  BY <1>1, DocumentInvStep
<1>3. AmountsMatchTerms'
  BY <1>1, AmountsStep DEF AmountsMatchTerms, Exists
<1>4. FreshReadings'
  <2>1. CASE UNCHANGED vars
    BY <2>1 DEF vars, ReadingsInv, FreshReadings
  <2>2. ASSUME Next, NEW r \in Requests, About(req'[r])
        PROVE  Knows(req'[r], contract'[req'[r].contract], r \in stale')
    <3>1. CASE req'[r] = req[r]
      <4>1. req[r].contract \in Contracts
        BY <1>1, <2>2, <3>1, AboutAContract DEF TypeOK
      <4>2. QED
        BY <2>2, <3>1, <4>1, ReadingStays
    <3>2. CASE req'[r] # req[r]
      BY <2>2, <3>2, ReadingBegins
    <3>3. QED
      BY <3>1, <3>2
  <2>3. QED
    BY <2>1, <2>2 DEF FreshReadings
<1>5. QED
  BY <1>2, <1>3, <1>4 DEF ReadingsInv

\* A write by a handler that has not been overtaken goes by the row it finds.
LEMMA FreshWriter ==
  ASSUME ReadingsInv, NEW r \in Requests, r \notin stale, NEW c \in Contracts,
         req[r].contract = c, Exists(c), About(req[r])
  PROVE  Fresh(req[r], contract[c])
BY DEF ReadingsInv, FreshReadings, Knows, Exists

\* Who writes a contract in a step is the handler that moves in it.
LEMMA WriterMoves ==
  ASSUME TypeOK, Next, NEW c \in Contracts, NEW r \in Requests, Writes(r, c),
         NEW s \in Requests, UpdateWrite(s) \/ DepositWrite(s) \/ Install(s)
  PROVE  r = s
BY OnlyOwn DEF Writes, EditStep, AttachStep

\* A status that is exact stays so unless an overtaken handler writes, and one
\* that was not overtaken makes it exact.
LEMMA StatusStep ==
  ASSUME ReadingsInv, Next, NEW c \in Contracts,
         \/ \E r \in Requests \ stale : req[r].op \in {"deposit", "install"} /\ Writes(r, c)
         \/ Exact(c) /\ (\A r \in stale : ~Writes(r, c))
  PROVE  Exact(c)'
<1>1. TypeOK /\ contract[c] \in ContractRow
  BY DEF ReadingsInv, DocumentsInv, TypeOK
<1>2. stale \subseteq Requests
  BY <1>1 DEF TypeOK
<1>3. CASE contract'[c] = contract[c]
  BY <1>3 DEF Exact, Exists, Writes
<1>4. ASSUME NEW s \in Requests, contract'[c] # contract[c], req[s].contract = c,
             UpdateWrite(s) \/ DepositWrite(s) \/ Install(s)
      PROVE  Writes(s, c)
  BY <1>1, <1>4, WritersMoveOn DEF Writes, UpdateWrite, DepositWrite, Install
<1>5. ASSUME NEW s \in Requests, contract'[c] # contract[c], req[s].contract = c,
             DepositWrite(s) \/ Install(s), Accepted(c, contract'[c])
      PROVE  s \notin stale /\ Fresh(req[s], contract[c])
  <2>1. s \notin stale
    BY <1>1, <1>4, <1>5, WriterMoves
  <2>2. QED
    BY <1>5, <2>1, FreshWriter DEF Accepted, About, Uploads, DepositWrite, Install
<1>6. ASSUME NEW m, NEW terms, contract'[c] = DraftRow(m, terms) PROVE Exact(c)'
  <2>1. /\ DraftRow(m, terms).status = "draft" /\ DraftRow(m, terms).depositPaid = FALSE
    BY DEF DraftRow, Unborn
  <2>2. QED
    BY <1>6, <2>1 DEF Exact, DeriveContractStatus
<1>7. ASSUME NEW s \in Requests, contract'[c] # contract[c], UpdateWrite(s),
             req[s].contract = c, Accepted(c, contract'[c]),
             contract'[c] = EditedRow(contract[c], req[s].body, req[s].terms, req[s].manager)
      PROVE  Exact(c)'
  <2>1. /\ contract'[c].status = contract[c].status /\ contract'[c].file = contract[c].file
        /\ contract'[c].depositPaid = contract[c].depositPaid
    BY <1>1, <1>7, EditedColumns
  <2>2. Exact(c)
    BY <1>1, <1>7, WriterMoves DEF UpdateWrite
  <2>3. QED
    BY <2>1, <2>2 DEF Exact, Exists
<1>8. ASSUME NEW s \in Requests, contract'[c] # contract[c], DepositWrite(s),
             req[s].contract = c, Accepted(c, contract'[c]),
             contract'[c] = MarkedRow(contract[c], req[s].paid, req[s].hasFile)
      PROVE  Exact(c)'
  <2>1. req[s].hasFile = (contract[c].file # None)
    BY <1>5, <1>8 DEF Fresh, DepositWrite
  <2>2. QED
    BY <1>1, <1>8, <2>1, MarkedColumns DEF Exact
<1>9. ASSUME NEW s \in Requests, contract'[c] # contract[c], Install(s),
             req[s].contract = c, Accepted(c, contract'[c]),
             contract'[c] = InstalledRow(contract[c], req[s].new, req[s].paid)
      PROVE  Exact(c)'
  <2>1. req[s].paid = contract[c].depositPaid
    BY <1>5, <1>9 DEF Fresh, Install, Uploads
  <2>2. req[s].new # None /\ req[s].paid \in BOOLEAN
    BY <1>1, <1>9, RequestFields, NoneIsNoFile DEF Install, TypeOK
  <2>3. QED
    BY <1>1, <1>9, <2>1, <2>2, InstalledColumns DEF Exact, DeriveContractStatus
<1>10. CASE contract'[c] = Deleted
  BY <1>10 DEF Exact, Exists, Deleted, Unborn, ContractStatus
<1>11. ASSUME NEW s \in Requests, RemoveFileRow(s) PROVE contract'[c] = contract[c]
  BY <1>11, RemovalsTouchNoRow DEF ReadingsInv
<1>12. CASE contract'[c] # contract[c]
  BY <1>1, <1>6, <1>7, <1>8, <1>9, <1>10, <1>11, <1>12, RowWritten
<1>13. QED
  BY <1>3, <1>12

\* A contract is signed just when deposit and document are there: a deposit mark or
\* an upload that was not overtaken by one of the other kind makes it so, and only
\* one that was overtaken takes it away (markDeposit, attachFile,
\* deriveContractStatus).
THEOREM StatusStaysExact == Spec => StatusIsExact
<1>1. ASSUME ReadingsInv, [Next]_vars
      PROVE  [\A c \in Contracts :
                /\ \A r \in Requests \ stale :
                     req[r].op \in {"deposit", "install"} /\ Writes(r, c) => Exact(c)'
                /\ Exact(c) /\ (\A r \in stale : ~Writes(r, c)) => Exact(c)']_vars
  BY <1>1, StatusStep
<1>2. QED
  BY <1>1, ReadingsInit, ReadingsStep, PTL DEF Spec, StatusIsExact

LEMMA CompletedKeeps ==
  ASSUME NEW body, NEW terms, NEW new, new = Completed(body, terms)
  PROVE  /\ body.area = None => new.area = terms.area
         /\ body.price = None => new.price = terms.price
         /\ body.percent = None => new.percent = terms.percent
BY DEF Completed, Given

\* Total and deposit always follow area, price and percent, and an edit that no
\* other one overtook leaves the terms alone that its body does not name (update,
\* computeAmounts).
THEOREM EditsKeepTheRest == Spec => EditsAreSound
<1>1. ASSUME ReadingsInv, Next, NEW r \in Requests, r \notin stale, NEW c \in Contracts,
             req[r].op = "update", Writes(r, c)
      PROVE  contract'[c].terms = Completed(req[r].body, contract[c].terms)
  <2>1. TypeOK /\ contract[c] \in ContractRow
    BY <1>1 DEF ReadingsInv, DocumentsInv, TypeOK
  <2>2. EditStep(r) \/ AttachStep(r) \/ RemoveStep(r) \/ Abandon(r)
    BY <1>1, <2>1, OnlyOwn DEF Next, Create, Writes
  <2>3. UpdateWrite(r)
    BY <1>1, <2>2
       DEF Writes, EditStep, AttachStep, RemoveStep, Abandon, UpdateRead, DepositRead, Begin,
           DepositWrite, AttachRead, StoreBytes, StoreRow, StoreFails, Install, RemoveRead,
           RemoveWrite, RemoveFileRow, RemoveFileBytes, Idle
  <2> DEFINE row == EditedRow(contract[c], req[r].body, req[r].terms, req[r].manager)
  <2>4. Update(c, row)
    BY <1>1, <2>3 DEF UpdateWrite, Writes
  <2>5. row.terms = req[r].terms
    BY <2>1, EditedColumns
  <2> HIDE DEF row
  <2>6. contract'[c] = row /\ Exists(c)
    BY <1>1, <2>1, <2>4 DEF Update, Accepted, Writes, TypeOK
  <2>7. req[r].terms = Completed(req[r].body, contract[c].terms)
    BY <1>1, <2>6, FreshWriter DEF Fresh, About, Writes
  <2>8. QED
    BY <2>5, <2>6, <2>7
<1>2. ASSUME ReadingsInv, [Next]_vars
      PROVE  [/\ AmountsMatchTerms'
              /\ \A r \in Requests \ stale, c \in Contracts :
                   req[r].op = "update" /\ Writes(r, c) =>
                     LET body == req[r].body
                         old == contract[c].terms
                         new == contract'[c].terms
                     IN  /\ body.area = None => new.area = old.area
                         /\ body.price = None => new.price = old.price
                         /\ body.percent = None => new.percent = old.percent]_vars
  <2>1. AmountsMatchTerms'
    BY <1>2, ReadingsStep DEF ReadingsInv
  <2>2. QED
    BY <1>1, <1>2, <2>1, CompletedKeeps
<1>3. QED
  BY <1>2, ReadingsInit, ReadingsStep, PTL DEF Spec, EditsAreSound

-----------------------------------------------------------------------------
(***************************************************************************)
(* Consents (L), for any documents, lists of required types and versions.  *)
(* The guard counts types where the status goes through the list; without  *)
(* a repetition in the list they agree.  A tick belongs to the versions    *)
(* the form lists: they change only where the ticks are taken away, and    *)
(* while the form is sent they do not change at all.                       *)
(***************************************************************************)
Answers == [granted: BOOLEAN, types: SUBSET Types]

FormType ==
  [load: {"loading", "ready", "error"}, list: [Types -> L!Versions], accepted: SUBSET Types,
   doing: {"nothing", "send", "check"}, sending: SUBSET Types]

ConsentType ==
  /\ published \in [Types -> L!Versions]
  /\ required \in RequiredLists
  /\ records \in [Types -> [L!Versions -> Nat]]
  /\ session \in [consent: {"unknown", "granted", "required"}, types: SUBSET Types]
  /\ checking \in Answers \cup {L!NoAnswer}
  /\ form \in FormType

TicksAreOfTheList ==
  /\ \A type \in form.accepted : <<type, form.list[type]>> \in ticked
  /\ form.doing = "send" =>
       /\ form.load = "ready"
       /\ \A type \in form.sending : <<type, form.list[type]>> \in ticked

ConsentInv == ConsentType /\ TicksAreOfTheList /\ L!ConsentIsOfShownVersion

\* What is required, as a set: as many types as the list is long.
LEMMA RequiredTypesAreCounted ==
  ASSUME required \in RequiredLists
  PROVE  /\ L!RequiredSet \subseteq Types
         /\ IsFiniteSet(L!RequiredSet)
         /\ Cardinality(L!RequiredSet) = Cardinality(DOMAIN required)
<1>1. required \in Seq(Types) /\ \A i, j \in DOMAIN required : required[i] = required[j] => i = j
  BY ConsentsAssumption
<1> DEFINE D == DOMAIN required
<1>2. PICK n \in Nat : D = 1 .. n
  BY <1>1
<1>3. IsFiniteSet(D)
  BY <1>2, FS_Interval
<1>4. L!RequiredSet = {required[i] : i \in D} /\ \A i \in D : required[i] \in Types
  BY <1>1 DEF L!RequiredSet
<1>5. required \in [D -> L!RequiredSet]
  BY <1>1, <1>4
<1> HIDE DEF D
<1>6. required \in Surjection(D, L!RequiredSet)
  BY <1>4, <1>5 DEF Surjection
<1>7. required \in Injection(D, L!RequiredSet)
  BY <1>1, <1>5 DEF Injection, IsInjective, D
<1>8. QED
  BY <1>3, <1>4, <1>6, <1>7, FS_Surjection DEF D

\* The module of finite sets is the same one inside the instance.
LEMMA SameCardinality == ASSUME NEW S PROVE L!Cardinality(S) = Cardinality(S)
BY DEF L!Cardinality, Cardinality

LEMMA GuardCountsWhatStatusReads ==
  ASSUME required \in RequiredLists PROVE L!GuardAgreesWithStatus
<1> DEFINE S == {type \in L!RequiredSet : L!Accepted(type)}
<1>1. L!HasAllRequired <=> Cardinality(S) = Cardinality(L!RequiredSet)
  <2>1. L!HasAllRequired <=> Cardinality(S) = Cardinality(DOMAIN required)
    BY SameCardinality, Zenon DEF L!HasAllRequired
  <2>2. QED
    BY <2>1, RequiredTypesAreCounted
<1>2. S = L!RequiredSet <=> Cardinality(S) = Cardinality(L!RequiredSet)
  BY RequiredTypesAreCounted, FS_Subset
<1>3. S = L!RequiredSet <=> \A i \in DOMAIN required : L!Accepted(required[i])
  BY DEF L!RequiredSet
<1>4. L!Status.granted = \A i \in DOMAIN required : L!Accepted(required[i])
  BY DEF L!Status
<1>5. QED
  BY <1>1, <1>2, <1>3, <1>4 DEF L!GuardAgreesWithStatus

LEMMA StatusIsAnAnswer ==
  ASSUME required \in RequiredLists PROVE L!Status \in Answers
BY RequiredTypesAreCounted DEF L!Status, Answers

LEMMA OneVersion == 1 \in L!Versions
BY ConsentsAssumption DEF L!Versions

LEMMA MountedForm ==
  ASSUME published \in [Types -> L!Versions]
  PROVE  L!Mounted \in FormType /\ L!Mounted.accepted = {} /\ L!Mounted.doing = "nothing"
BY DEF L!Mounted, FormType

LEMMA ConsentInit == L!Init => ConsentInv
<1> SUFFICES ASSUME L!Init PROVE ConsentInv
  OBVIOUS
<1>1. form = L!Mounted /\ published \in [Types -> L!Versions]
  BY OneVersion DEF L!Init
<1>2. ConsentType
  BY <1>1, MountedForm DEF L!Init, ConsentType
<1>3. TicksAreOfTheList
  BY <1>1, MountedForm DEF TicksAreOfTheList
<1>4. L!ConsentIsOfShownVersion
  BY OneVersion DEF L!Init, L!ConsentIsOfShownVersion
<1>5. QED
  BY <1>2, <1>3, <1>4 DEF ConsentInv

\* Steps after which the form lists what it listed before, with no tick more.
LEMMA FormStays ==
  ASSUME ConsentInv, ConsentType', UNCHANGED <<records, ticked>>,
         form'.list = form.list, form'.accepted \subseteq form.accepted,
         form'.doing = "send" =>
           form.doing = "send" /\ form'.load = form.load /\ form'.sending \subseteq form.sending
  PROVE  ConsentInv'
BY DEF ConsentInv, TicksAreOfTheList, L!ConsentIsOfShownVersion

\* Steps that take all ticks away.
LEMMA FormIsEmptied ==
  ASSUME ConsentInv, ConsentType', UNCHANGED <<records, ticked>>,
         form'.accepted = {}, form'.doing # "send"
  PROVE  ConsentInv'
BY DEF ConsentInv, TicksAreOfTheList, L!ConsentIsOfShownVersion

\* The record of a version that was ticked.
LEMMA RecordStep ==
  ASSUME ConsentInv, form.doing = "send", NEW type \in form.sending, UNCHANGED ticked,
         records' = L!Recorded(type, form.list[type])
  PROVE  /\ records' \in [Types -> [L!Versions -> Nat]]
         /\ L!ConsentIsOfShownVersion'
<1> DEFINE v == form.list[type]
<1>1. form \in FormType /\ records \in [Types -> [L!Versions -> Nat]]
  BY DEF ConsentInv, ConsentType
<1>2. type \in Types /\ v \in L!Versions /\ <<type, v>> \in ticked
  BY <1>1 DEF FormType, ConsentInv, TicksAreOfTheList
<1> HIDE DEF v
<1>3. \E n \in Nat : records' = [records EXCEPT ![type][v] = n]
  <2> DEFINE n == IF records[type][v] < MaxRecords THEN records[type][v] + 1 ELSE records[type][v]
  <2>1. n \in Nat
    BY <1>1, <1>2
  <2>2. records' = [records EXCEPT ![type][v] = n]
    BY DEF L!Recorded, v
  <2>3. QED
    BY <2>1, <2>2
<1>4. records' \in [Types -> [L!Versions -> Nat]]
  BY <1>1, <1>2, <1>3
<1>5. \A t \in Types : \A w \in L!Versions :
        (t = type /\ w = v) \/ records'[t][w] = records[t][w]
  BY <1>1, <1>2, <1>3
<1>6. L!ConsentIsOfShownVersion'
  BY <1>2, <1>5 DEF ConsentInv, L!ConsentIsOfShownVersion, L!Versions
<1>7. QED
  BY <1>4, <1>6

LEMMA ConsentStep == ConsentInv /\ [L!Next]_consentVars => ConsentInv'
<1> SUFFICES ASSUME ConsentInv, [L!Next]_consentVars PROVE ConsentInv'
  OBVIOUS
<1>1. ConsentType /\ form \in FormType /\ required \in RequiredLists
  BY DEF ConsentInv, ConsentType
<1>2. ASSUME UNCHANGED <<published, required, records, form, ticked>>,
             session' \in [consent: {"unknown", "granted", "required"}, types: SUBSET Types],
             checking' \in Answers \cup {L!NoAnswer}
      PROVE  ConsentInv'
  BY <1>1, <1>2, FormStays DEF ConsentType
<1>3. CASE UNCHANGED consentVars
  BY <1>1, <1>2, <1>3 DEF consentVars, ConsentType
<1>4. CASE L!Release
  <2>1. published' \in [Types -> L!Versions]
    <3>1. ASSUME NEW type \in Types, published[type] < MaxVersion
          PROVE  published[type] + 1 \in L!Versions
      BY <1>1, <3>1, ConsentsAssumption DEF ConsentType, L!Versions
    <3>2. \/ published' = published
          \/ \E type \in Types : /\ published[type] < MaxVersion
                                 /\ published' = [published EXCEPT ![type] = published[type] + 1]
      BY <1>4 DEF L!Release
    <3>3. QED
      BY <1>1, <3>1, <3>2 DEF ConsentType
  <2>2. required' \in RequiredLists /\ UNCHANGED <<records, session, checking, form, ticked>>
    BY <1>1, <1>4 DEF L!Release
  <2>3. QED
    BY <1>1, <2>1, <2>2, FormStays DEF ConsentType
<1>5. CASE L!GateChecks \/ L!FormChecks
  BY <1>1, <1>2, <1>5, StatusIsAnAnswer DEF L!GateChecks, L!FormChecks, L!serverVars, ConsentType
<1>6. CASE L!CheckArrives \/ L!CheckFails
  <2>1. /\ form' = (IF form.doing = "check" THEN L!Idle(form) ELSE form)
        /\ checking' = L!NoAnswer /\ UNCHANGED <<published, required, records, ticked>>
    BY <1>6 DEF L!CheckArrives, L!CheckFails, L!serverVars
  <2>2. session' \in [consent: {"unknown", "granted", "required"}, types: SUBSET Types]
    BY <1>1, <1>6 DEF L!CheckArrives, L!CheckFails, L!Answered, Answers, ConsentType
  <2>3. /\ form' \in FormType /\ form'.list = form.list /\ form'.accepted = form.accepted
        /\ form'.doing = "send" => form' = form
    BY <1>1, <2>1 DEF L!Idle, FormType
  <2>4. QED
    BY <1>1, <2>1, <2>2, <2>3, FormStays DEF ConsentType
<1>7. CASE L!CallIsRefused \/ L!RefusalArrives
  BY <1>1, <1>2, <1>7 DEF L!CallIsRefused, L!RefusalArrives, L!serverVars, ConsentType
<1>8. CASE L!Redirect
  BY <1>1, <1>8, MountedForm, FormIsEmptied DEF L!Redirect, L!serverVars, ConsentType
<1>9. CASE L!LoadDocuments
  <2>1. form.doing # "send"
    BY <1>9 DEF L!LoadDocuments, ConsentInv, TicksAreOfTheList
  <2>2. UNCHANGED <<published, required, records, session, checking, ticked>>
    BY <1>9 DEF L!LoadDocuments, L!serverVars
  <2>3. CASE form' = L!Reloaded(form)
    <3>1. form' \in FormType /\ form'.accepted = {} /\ form'.doing = form.doing
      BY <1>1, <2>3 DEF L!Reloaded, FormType, ConsentType
    <3>2. QED
      BY <1>1, <2>1, <2>2, <3>1, FormIsEmptied DEF ConsentType
  <2>4. CASE form' = [form EXCEPT !.load = "error"]
    <3>1. /\ form' \in FormType /\ form'.list = form.list /\ form'.accepted = form.accepted
          /\ form'.doing = form.doing
      BY <1>1, <2>4 DEF FormType
    <3>2. QED
      BY <1>1, <2>1, <2>2, <3>1, FormStays DEF ConsentType
  <2>5. QED
    BY <1>9, <2>3, <2>4 DEF L!LoadDocuments
<1>10. ASSUME NEW type \in Types, L!Tick(type) PROVE ConsentInv'
  <2>1. /\ form' = [form EXCEPT !.accepted = @ \cup {type}]
        /\ ticked' = ticked \cup {<<type, form.list[type]>>}
        /\ UNCHANGED <<published, required, records, session, checking>>
    BY <1>10 DEF L!Tick, L!serverVars
  <2>2. /\ form' \in FormType /\ form'.list = form.list
        /\ form'.accepted = form.accepted \cup {type}
        /\ form'.doing = form.doing /\ form'.load = form.load /\ form'.sending = form.sending
    BY <1>1, <2>1 DEF FormType
  <2>3. ConsentType'
    BY <1>1, <2>1, <2>2 DEF ConsentType
  <2>4. TicksAreOfTheList'
    BY <2>1, <2>2 DEF ConsentInv, TicksAreOfTheList
  <2>5. L!ConsentIsOfShownVersion'
    BY <2>1 DEF ConsentInv, L!ConsentIsOfShownVersion
  <2>6. QED
    BY <2>3, <2>4, <2>5 DEF ConsentInv
<1>11. ASSUME NEW type \in Types, L!Untick(type) PROVE ConsentInv'
  <2>1. /\ form' = [form EXCEPT !.accepted = @ \ {type}]
        /\ UNCHANGED <<published, required, records, session, checking, ticked>>
    BY <1>11 DEF L!Untick, L!serverVars
  <2>2. /\ form' \in FormType /\ form'.list = form.list
        /\ form'.accepted \subseteq form.accepted
        /\ form'.doing = form.doing /\ form'.load = form.load /\ form'.sending = form.sending
    BY <1>1, <2>1 DEF FormType
  <2>3. QED
    BY <1>1, <2>1, <2>2, FormStays DEF ConsentType
<1>12. CASE L!OnSubmit
  <2>1. /\ form' = [form EXCEPT !.doing = "send", !.sending = L!RequiredTypes]
        /\ form.load = "ready" /\ L!RequiredTypes \subseteq form.accepted
        /\ UNCHANGED <<published, required, records, session, checking, ticked>>
    BY <1>12 DEF L!OnSubmit, L!Ready, L!serverVars
  <2>2. /\ form' \in FormType /\ form'.list = form.list /\ form'.accepted = form.accepted
        /\ form'.load = form.load /\ form'.sending \subseteq form.accepted
    BY <1>1, <2>1 DEF FormType
  <2>3. ConsentType'
    BY <1>1, <2>1, <2>2 DEF ConsentType
  <2>4. TicksAreOfTheList' /\ L!ConsentIsOfShownVersion'
    BY <2>1, <2>2 DEF ConsentInv, TicksAreOfTheList, L!ConsentIsOfShownVersion
  <2>5. QED
    BY <2>3, <2>4 DEF ConsentInv
<1>13. ASSUME NEW type \in Types, L!SubmitConsent(type) PROVE ConsentInv'
  <2>1. /\ form.doing = "send" /\ type \in form.sending
        /\ records' = L!Recorded(type, form.list[type])
        /\ form' = [form EXCEPT !.sending = @ \ {type},
                                !.doing = IF form.sending = {type} THEN "check" ELSE "send"]
        /\ UNCHANGED <<published, required, session, checking, ticked>>
    BY <1>13 DEF L!SubmitConsent
  <2>2. /\ form' \in FormType /\ form'.list = form.list /\ form'.accepted = form.accepted
        /\ form'.load = form.load /\ form'.sending \subseteq form.sending
    <3> DEFINE next == IF form.sending = {type} THEN "check" ELSE "send"
    <3>1. next \in {"send", "check"} /\ form' = [form EXCEPT !.sending = @ \ {type}, !.doing = next]
      BY <2>1
    <3> HIDE DEF next
    <3>2. QED
      BY <1>1, <3>1 DEF FormType
  <2>3. ConsentType' /\ L!ConsentIsOfShownVersion'
    BY <1>1, <2>1, <2>2, RecordStep DEF ConsentType
  <2>4. TicksAreOfTheList'
    BY <2>1, <2>2 DEF ConsentInv, TicksAreOfTheList
  <2>5. QED
    BY <2>3, <2>4 DEF ConsentInv
<1>14. ASSUME NEW type \in Types, L!SubmitRefused(type) PROVE ConsentInv'
  <2>1. /\ form' = [L!Idle(form) EXCEPT !.load = "loading"]
        /\ UNCHANGED <<published, required, records, session, checking, ticked>>
    BY <1>14 DEF L!SubmitRefused, L!serverVars
  <2>2. /\ form' \in FormType /\ form'.list = form.list /\ form'.accepted = form.accepted
        /\ form'.doing = "nothing"
    BY <1>1, <2>1 DEF FormType, L!Idle
  <2>3. QED
    BY <1>1, <2>1, <2>2, FormStays DEF ConsentType
<1>15. ASSUME NEW type \in Types, L!SubmitFails(type) PROVE ConsentInv'
  <2>1. /\ form.doing = "send" /\ type \in form.sending /\ form' = L!Idle(form)
        /\ records' = records \/ records' = L!Recorded(type, form.list[type])
        /\ UNCHANGED <<published, required, session, checking, ticked>>
    BY <1>15 DEF L!SubmitFails
  <2>2. /\ form' \in FormType /\ form'.list = form.list /\ form'.accepted = form.accepted
        /\ form'.doing = "nothing"
    BY <1>1, <2>1 DEF FormType, L!Idle
  <2>3. CASE records' = records
    BY <1>1, <2>1, <2>2, <2>3, FormStays DEF ConsentType
  <2>4. CASE records' = L!Recorded(type, form.list[type])
    <3>1. ConsentType' /\ L!ConsentIsOfShownVersion'
      BY <1>1, <2>1, <2>2, <2>4, RecordStep DEF ConsentType
    <3>2. TicksAreOfTheList'
      BY <2>1, <2>2 DEF ConsentInv, TicksAreOfTheList
    <3>3. QED
      BY <3>1, <3>2 DEF ConsentInv
  <2>5. QED
    BY <2>1, <2>3, <2>4
<1>16. QED
  BY <1>3, <1>4, <1>5, <1>6, <1>7, <1>8, <1>9, <1>10, <1>11, <1>12, <1>13, <1>14, <1>15
     DEF L!Next, L!Check, L!Refuse, L!Fill

\* The guard lets in exactly the users of whom the status says that all is granted,
\* and every consent on record was given with its version beside the box, whatever
\* is published, required, sent twice, refused or lost meanwhile (ConsentService,
\* ConsentGuard, ConsentsForm).
THEOREM ConsentsAreGiven == DocumentsSpec => []ConsentsAreSound
<1>1. DocumentsInit => ConsentInv
  BY ConsentInit DEF DocumentsInit
<1>2. ConsentInv /\ [DocumentsNext]_documentVars => ConsentInv'
  BY ConsentStep DEF DocumentsNext, InConsents, documentVars, consentVars
<1>3. ConsentInv => ConsentsAreSound
  <2>1. ConsentInv => L!TypeOK
    BY DEF ConsentInv, ConsentType, FormType, L!TypeOK
  <2>2. QED
    BY <2>1, GuardCountsWhatStatusReads DEF ConsentInv, ConsentType, ConsentsAreSound
<1>4. QED
  BY <1>1, <1>2, <1>3, PTL DEF DocumentsSpec
=============================================================================
