----------------------------- MODULE Contracts -----------------------------
(***************************************************************************)
(* ContractsService after a contract exists: editing its terms, marking    *)
(* the deposit, attaching the signed document, deleting it.  The status of *)
(* a contract is derived from the deposit and the document, and the terms  *)
(* an edit does not name are those that were there, but each handler takes *)
(* them from the row it read, not from the row it writes.                  *)
(*                                                                         *)
(* A handler is a read action and one action for every later statement     *)
(* and every file operation; handlers run in any order beside each other   *)
(* and the process may die between any two of them.                        *)
(***************************************************************************)
EXTENDS SalesSchema, FileStorage, Money

CONSTANTS
  Accountants,  \* users with UserRole.accountant
  Contracts,    \* identifiers of contracts
  Areas,        \* areaSqm, in hundredths of a square metre
  Prices,       \* pricePerSqmTyiyn
  Percents,     \* depositPercent, in hundredths of a percent
  Requests,     \* slots for the handlers in flight; their number is a bound
  MayDie        \* the handlers that may stop half-way

ASSUME NoneIsNoFile == None \notin Files
ASSUME NoneIsNoTerm == None \notin Areas \cup Prices \cup Percents
ASSUME TermsAssumption ==
  Areas \subseteq Nat \ {0} /\ Prices \subseteq Nat /\ Percents \subseteq 0 .. 10000
ASSUME AccountantAssumption == Accountants \cap (Heads \cup Sellers) = {}
ASSUME MayDieAssumption == MayDie \subseteq Requests

VARIABLES
  contract,  \* table Contract
  req,       \* what each handler in flight remembers
  stale      \* history: the handlers in flight of whose contract another handler
             \* has written a column they had read before

vars == <<contract, file, req, stale>>

Terms == [area: Areas, price: Prices, percent: Percents]

\* What a PATCH may say of the terms; None for a field it leaves out.
Bodies == [area: Areas \cup {None}, price: Prices \cup {None},
           percent: Percents \cup {None}]

\* computeAmounts.  What it refuses is a request that ends before it writes.
ComputeAmounts(terms) ==
  LET total == MulDivRoundHalfUp(terms.area, terms.price, 100)
  IN  [total |-> total, deposit |-> PercentOf(total, terms.percent)]

Amounts == {ComputeAmounts(terms) : terms \in Terms}

ContractRow == [status: ContractStatus \cup {"unborn", "deleted"},
                manager: Staff \cup {None},
                depositPaid: BOOLEAN,
                file: Files \cup {None},
                terms: Terms \cup {None},
                amounts: Amounts \cup {None}]

Unborn == [status |-> "unborn", manager |-> None, depositPaid |-> FALSE,
           file |-> None, terms |-> None, amounts |-> None]
Deleted == [Unborn EXCEPT !.status = "deleted"]

Idle == [op |-> "idle"]

Request ==
       {Idle}
  \cup [op: {"update"}, contract: Contracts, body: Bodies, terms: Terms,
        manager: Staff \cup {None}]
  \cup [op: {"deposit"}, contract: Contracts, paid: BOOLEAN, hasFile: BOOLEAN]
  \cup [op: {"attach"}, contract: Contracts, paid: BOOLEAN, old: Files \cup {None}]
  \cup [op: {"store", "install"}, contract: Contracts, paid: BOOLEAN,
        old: Files \cup {None}, new: Files]
  \cup [op: {"remove"}, contract: Contracts, old: Files \cup {None}]
  \cup [op: {"removeFile", "removeBytes"}, target: Files]

Exists(c) == contract[c].status \in ContractStatus

TypeOK ==
  /\ contract \in [Contracts -> ContractRow]
  /\ \A c \in Contracts : Exists(c) => contract[c].terms \in Terms
  /\ file \in [Files -> FileState]
  /\ req \in [Requests -> Request]
  /\ stale \subseteq Requests

Init ==
  /\ contract = [c \in Contracts |-> Unborn]
  /\ FileInit
  /\ req = [r \in Requests |-> Idle]
  /\ stale = {}

GoOn(r, request) == req' = [req EXCEPT ![r] = request]
End(r) == GoOn(r, Idle)

Begin(r, request) ==
  /\ req[r] = Idle
  /\ GoOn(r, request)
  /\ UNCHANGED <<contract, file, stale>>

\* What a handler does last: FileStorageService.remove of a file, if any.
RemoveThenEnd(r, f) ==
  IF f = None THEN End(r) ELSE GoOn(r, [op |-> "removeFile", target |-> f])

-----------------------------------------------------------------------------
\* findScoped, for sellers.
InScope(actor, c) == Exists(c) /\ contract[c].manager \in ManagerScope(actor)

\* findEditable: a sales manager loses edit rights once the contract is signed.
Editable(actor, c) ==
  /\ InScope(actor, c)
  /\ actor \in Sellers => contract[c].status # "signed"

DraftRow(m, terms) ==
  [Unborn EXCEPT !.status = "draft", !.manager = m, !.terms = terms,
                 !.amounts = ComputeAmounts(terms)]

\* Direct creation, and the row that the conversion of a booking creates.
Create(a, m, c, terms) ==
  /\ contract[c] = Unborn
  /\ m \in Assignable(a)
  /\ contract' = [contract EXCEPT ![c] = DraftRow(m, terms)]
  /\ UNCHANGED <<file, req, stale>>

\* A statement UPDATE ... WHERE id = c: it fails on a missing row and on a row
\* that breaks a CHECK.
Accepted(c, row) == Exists(c) /\ ContractRowAccepted(row)

Update(c, row) == contract' = [contract EXCEPT ![c] = IF Accepted(c, row) THEN row ELSE @]

Uploads == {"attach", "store", "install"}

\* The handlers that have read what handler r writes: a PATCH the terms, an
\* upload the deposit, a deposit mark whether there is a document.
Readers(r) ==
  {s \in Requests \ {r} :
     /\ \/ req[r].op = "update" /\ req[s].op = "update"
        \/ req[r].op = "deposit" /\ req[s].op \in Uploads
        \/ req[r].op = "install" /\ req[s].op = "deposit"
     /\ req[s].contract = req[r].contract}

\* Handler r has written: what the others have read is out of date, and r itself
\* relies on it no more.
Outdates(r) == stale' = (stale \cup Readers(r)) \ {r}

(***************************************************************************)
(* PATCH.  It writes all three terms and both amounts in one statement:    *)
(* the terms of the body, completed by those of the row it read.  None for *)
(* the manager stands for "the manager stays".                             *)
(***************************************************************************)
Given(new, old) == IF new = None THEN old ELSE new

\* Mutant: a deposit percent that the body leaves out becomes the default 30.
CompletedWithDefault(body, terms) ==
  [area |-> Given(body.area, terms.area), price |-> Given(body.price, terms.price),
   percent |-> Given(body.percent, 3000)]

Completed(body, terms) ==
  [area |-> Given(body.area, terms.area), price |-> Given(body.price, terms.price),
   percent |-> Given(body.percent, terms.percent)]

UpdateRead(r, a, c) ==
  /\ req[r] = Idle
  /\ Editable(a, c)
  /\ \E body \in Bodies, m \in Staff \cup {None} :
       /\ m # None => a \in Heads /\ m \in Assignable(a) /\ m # contract[c].manager
       /\ Begin(r, [op |-> "update", contract |-> c, body |-> body,
                    terms |-> Completed(body, contract[c].terms), manager |-> m])

\* Mutant: only the terms of the body are written, beside amounts computed with
\* those that were read.
EditedRowBodyOnly(row, body, terms, m) ==
  [row EXCEPT !.terms = Completed(body, @), !.amounts = ComputeAmounts(terms),
              !.manager = Given(m, @)]

EditedRow(row, body, terms, m) ==
  [row EXCEPT !.terms = terms, !.amounts = ComputeAmounts(terms), !.manager = Given(m, @)]

UpdateWrite(r) ==
  /\ req[r].op = "update"
  /\ LET c == req[r].contract
     IN  Update(c, EditedRow(contract[c], req[r].body, req[r].terms, req[r].manager))
  /\ Outdates(r)
  /\ End(r)
  /\ UNCHANGED file

(***************************************************************************)
(* The deposit mark, by a seller who may edit or by the accountant.        *)
(***************************************************************************)
MayMark(a, c, paid) ==
  \/ a \in Accountants /\ Exists(c)
  \/ a \in Staff /\ Editable(a, c) /\ (a \in Sellers => paid)

DepositRead(r, a, c, paid) ==
  /\ MayMark(a, c, paid)
  /\ Begin(r, [op |-> "deposit", contract |-> c, paid |-> paid,
               hasFile |-> contract[c].file # None])

MarkedRow(row, paid, hasFile) ==
  [row EXCEPT !.depositPaid = paid, !.status = DeriveContractStatus(paid, hasFile)]

DepositWrite(r) ==
  /\ req[r].op = "deposit"
  /\ LET c == req[r].contract
     IN  Update(c, MarkedRow(contract[c], req[r].paid, req[r].hasFile))
  /\ Outdates(r)
  /\ End(r)
  /\ UNCHANGED file

(***************************************************************************)
(* Attaching a document: store it, point the contract to it, remove the    *)
(* document it replaces; the new one is removed if the update fails.       *)
(***************************************************************************)
AttachRead(r, a, c) ==
  /\ Editable(a, c)
  /\ Begin(r, [op |-> "attach", contract |-> c, paid |-> contract[c].depositPaid,
               old |-> contract[c].file])

StoreBytes(r, f) ==
  /\ req[r].op = "attach"
  /\ WriteBytes(f)
  /\ GoOn(r, [op |-> "store", contract |-> req[r].contract, paid |-> req[r].paid,
              old |-> req[r].old, new |-> f])
  /\ UNCHANGED <<contract, stale>>

StoreRow(r) ==
  /\ req[r].op = "store"
  /\ CreateRow(req[r].new)
  /\ GoOn(r, [req[r] EXCEPT !.op = "install"])
  /\ UNCHANGED <<contract, stale>>

StoreFails(r) ==
  /\ req[r].op = "store"
  /\ DropBytes(req[r].new)
  /\ stale' = stale \ {r}
  /\ End(r)
  /\ UNCHANGED contract

\* Mutant: the status is derived from the document that was there before.
InstalledRowAsFound(row, f, paid) ==
  [row EXCEPT !.file = f, !.status = DeriveContractStatus(paid, row.file # None)]

InstalledRow(row, f, paid) ==
  [row EXCEPT !.file = f, !.status = DeriveContractStatus(paid, TRUE)]

\* Mutant: the replaced document is removed although the update has failed.
SupersededIsOld(c, row, old, new) == old

\* The file to remove after the update: the replaced one, or the new one if
\* the update has failed.
Superseded(c, row, old, new) == IF Accepted(c, row) THEN old ELSE new

Install(r) ==
  /\ req[r].op = "install"
  /\ LET c == req[r].contract
         row == InstalledRow(contract[c], req[r].new, req[r].paid)
     IN /\ Update(c, row)
        /\ RemoveThenEnd(r, Superseded(c, row, req[r].old, req[r].new))
  /\ Outdates(r)
  /\ UNCHANGED file

-----------------------------------------------------------------------------
RemoveRead(r, h, c) ==
  /\ InScope(h, c)
  /\ Begin(r, [op |-> "remove", contract |-> c, old |-> contract[c].file])

RemoveWrite(r) ==
  /\ req[r].op = "remove"
  /\ LET c == req[r].contract IN
     IF Exists(c)
       THEN contract' = [contract EXCEPT ![c] = Deleted] /\ RemoveThenEnd(r, req[r].old)
       ELSE UNCHANGED contract /\ End(r)
  /\ UNCHANGED <<file, stale>>

(***************************************************************************)
(* Deleting a StoredFile row clears the pointers to it (ON DELETE SET      *)
(* NULL), unless a contract would then break a CHECK.                      *)
(***************************************************************************)
DetachedRow(row, f) == IF row.file = f THEN [row EXCEPT !.file = None] ELSE row

FileRowDeletable(f) ==
  /\ file[f] = "stored"
  /\ \A c \in Contracts : Exists(c) => ContractRowAccepted(DetachedRow(contract[c], f))

RemoveFileRow(r) ==
  /\ req[r].op = "removeFile"
  /\ LET f == req[r].target IN
     IF FileRowDeletable(f)
       THEN /\ DeleteRow(f)
            /\ contract' = [c \in Contracts |-> DetachedRow(contract[c], f)]
            /\ GoOn(r, [op |-> "removeBytes", target |-> f])
       ELSE UNCHANGED <<file, contract>> /\ End(r)
  /\ UNCHANGED stale

RemoveFileBytes(r) ==
  /\ req[r].op = "removeBytes"
  /\ RemoveBytes(req[r].target)
  /\ End(r)
  /\ UNCHANGED <<contract, stale>>

\* The process dies, or a later check of the request refuses it.
Abandon(r) ==
  /\ r \in MayDie
  /\ req[r] # Idle
  /\ stale' = stale \ {r}
  /\ End(r)
  /\ UNCHANGED <<contract, file>>

EditStep(r) ==
  \/ \E a \in Staff, c \in Contracts : UpdateRead(r, a, c)
  \/ UpdateWrite(r)
  \/ \E a \in Staff \cup Accountants, c \in Contracts, paid \in BOOLEAN :
       DepositRead(r, a, c, paid)
  \/ DepositWrite(r)

AttachStep(r) ==
  \/ \E a \in Staff, c \in Contracts : AttachRead(r, a, c)
  \/ \E f \in Files : StoreBytes(r, f)
  \/ StoreRow(r)
  \/ StoreFails(r)
  \/ Install(r)

RemoveStep(r) ==
  \/ \E h \in Heads, c \in Contracts : RemoveRead(r, h, c)
  \/ RemoveWrite(r)
  \/ RemoveFileRow(r)
  \/ RemoveFileBytes(r)

Next ==
  \/ \E a \in Staff, m \in Staff, c \in Contracts, terms \in Terms : Create(a, m, c, terms)
  \/ \E r \in Requests : EditStep(r) \/ AttachStep(r) \/ RemoveStep(r) \/ Abandon(r)

Spec == Init /\ [][Next]_vars

-----------------------------------------------------------------------------
(***************************************************************************)
(* Properties                                                              *)
(***************************************************************************)

\* A contract that has a document keeps one that can be read, row and bytes,
\* until it is deleted, whatever uploads, replacements, failed updates and
\* crashes go on: only a replaced document is ever removed
\* (ContractsService.attachFile and remove, FileStorageService.remove).
DocumentIsNeverLost ==
  [][\A c \in Contracts :
       contract[c].file # None /\ contract'[c].status # "deleted"
         => contract'[c].file # None /\ file'[contract'[c].file] = "stored"]_vars

\* No document belongs to two contracts.
DocumentHasOneContract ==
  \A c, d \in Contracts :
    contract[c].file = contract[d].file /\ contract[c].file # None => c = d

Exact(c) ==
  Exists(c) =>
    contract[c].status = DeriveContractStatus(contract[c].depositPaid, contract[c].file # None)

\* In this step handler r writes the contract.
Writes(r, c) ==
  /\ req[r].op \in {"update", "deposit", "install"} /\ req[r].contract = c
  /\ req'[r] # req[r] /\ contract'[c] # contract[c]

\* A contract is signed just when it has its deposit and its document, and
\* deposit_paid just when it has the deposit alone.  No edit, deletion, removal of
\* a replaced document, failure or crash takes that away, and a deposit mark or an
\* upload that was not overtaken by one of the other kind restores it; only one
\* that was overtaken may leave a status that says too little (markDeposit,
\* attachFile, deriveContractStatus).
StatusIsExact ==
  [][\A c \in Contracts :
       /\ \A r \in Requests \ stale :
            req[r].op \in {"deposit", "install"} /\ Writes(r, c) => Exact(c)'
       /\ Exact(c) /\ (\A r \in stale : ~Writes(r, c)) => Exact(c)']_vars

\* The stored total and deposit are those of the stored area, price and percent,
\* also where overlapping edits, each completed by what it read, revert each
\* other's terms.
AmountsMatchTerms ==
  \A c \in Contracts : Exists(c) => contract[c].amounts = ComputeAmounts(contract[c].terms)

\* Overlapping edits leave amounts that match the terms, and an edit that no other
\* one overtook leaves the terms alone that its body does not name (update,
\* computeAmounts).
EditsAreSound ==
  [][/\ AmountsMatchTerms'
     /\ \A r \in Requests \ stale, c \in Contracts :
          req[r].op = "update" /\ Writes(r, c) =>
            LET body == req[r].body
                old == contract[c].terms
                new == contract'[c].terms
            IN  /\ body.area = None => new.area = old.area
                /\ body.price = None => new.price = old.price
                /\ body.percent = None => new.percent = old.percent]_vars
=============================================================================
