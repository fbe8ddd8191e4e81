------------------------------- MODULE Access -------------------------------
(***************************************************************************)
(* Who may do what, twice over: the frontend decides by role and by the    *)
(* copy of a record it shows which pages and buttons to offer (access.ts   *)
(* of each feature, and the screens), the server decides anew by role, by  *)
(* team and by the record as it is (the decorators of the controllers and  *)
(* the scopes of the services).                                            *)
(*                                                                         *)
(* One record is followed from its creation on, of one of six kinds.       *)
(* Everybody may have it open; while a page is open others change the      *)
(* record, and hand it to somebody else.                                   *)
(***************************************************************************)
EXTENDS FiniteSets, Naturals

CONSTANTS
  RoleOf,      \* the role of everybody who has an account
  TeamLead,    \* the head of sales a sales manager belongs to; None for others
  Leavers,     \* whose account may be disabled meanwhile
  MaxOpen,     \* how many pages are open at a time; a bound
  None

People == DOMAIN RoleOf

VARIABLES
  kind,      \* of the record that is followed
  disabled,  \* the accounts whose status is disabled
  record,    \* the record as the server has it
  shown,     \* the copy on the page of each person
  trespass   \* history: a write by somebody whose record it was not

vars == <<kind, disabled, record, shown, trespass>>

Active == People \ disabled

New == [status |-> "new record"]
Closed == [status |-> "closed"]

\* What somebody asks for: an edit, or to hand the record to somebody.
Do(what) == [what |-> what, target |-> None]
Give(what, target) == [what |-> what, target |-> target]

-----------------------------------------------------------------------------
(* The server: roles by route                                              *)

Sellers == {"director", "head_of_sales", "sales_manager"}
SellerEditors == {"head_of_sales", "sales_manager"}
ShiftRoles == {"head_of_sales", "sales_manager", "accountant"}
ReportRoles == {"director", "investor", "head_of_sales", "accountant"}
AllRoles == Sellers \cup {"accountant", "investor", "reception"}

BookingRoutes ==
  [read |-> Sellers, create |-> SellerEditors, edit |-> SellerEditors,
   assign |-> SellerEditors, cancel |-> SellerEditors, convert |-> SellerEditors]

ContractRoutes ==
  [read |-> Sellers \cup {"accountant"}, create |-> SellerEditors,
   edit |-> SellerEditors, assign |-> SellerEditors,
   deposit |-> SellerEditors \cup {"accountant"},
   upload |-> SellerEditors, download |-> Sellers]

LeadRoutes ==
  [read |-> Sellers \cup {"reception"}, create |-> {"reception"},
   assign |-> {"head_of_sales"}, reject |-> SellerEditors, convert |-> SellerEditors]

DayOffRoutes ==
  [read |-> Sellers \cup {"accountant"}, create |-> {"head_of_sales"}]

TransactionRoutes ==
  [read |-> {"director", "accountant"}, create |-> {"accountant"},
   edit |-> {"accountant"}, upload |-> {"accountant"}]

EntryRoutes ==
  [read |-> {"director", "accountant", "sales_manager"}, create |-> {"accountant"},
   edit |-> {"accountant"}, confirm |-> {"accountant"}]

Routes ==
  [booking |-> BookingRoutes, contract |-> ContractRoutes, lead |-> LeadRoutes,
   dayOff |-> DayOffRoutes, transaction |-> TransactionRoutes, entry |-> EntryRoutes]

\* The routes that pages read without a record.
PageRoutes ==
  [users |-> {"director", "head_of_sales"}, pending |-> {"director"},
   currentShift |-> ShiftRoles, shifts |-> Sellers \cup {"accountant"},
   payrollSettings |-> {"director", "accountant"}, payrollSummary |-> {"director"},
   summary |-> {"director", "accountant"},
   reports |-> ReportRoles, dashboard |-> {"director", "investor"},
   analytics |-> {"director", "head_of_sales"}]

(* The server: rows by actor                                               *)

TeamIds(p) == {q \in People : RoleOf[q] = "sales_manager" /\ TeamLead[q] = p}

ManagerScope(p) ==
  CASE RoleOf[p] = "director" -> People
    [] RoleOf[p] = "head_of_sales" -> {p} \cup TeamIds(p)
    [] RoleOf[p] = "sales_manager" -> {p}
    [] OTHER -> {}

\* Mutant: a head of sales sees the leads of the team only.
LeadScopeTeam(p, r) ==
  CASE RoleOf[p] = "director" -> TRUE
    [] RoleOf[p] = "head_of_sales" -> r.owner \in {p} \cup TeamIds(p)
    [] RoleOf[p] = "sales_manager" -> r.owner = p
    [] RoleOf[p] = "reception" -> r.creator = p
    [] OTHER -> FALSE

LeadScope(p, r) ==
  CASE RoleOf[p] = "director" -> TRUE
    [] RoleOf[p] = "head_of_sales" -> r.owner \in {None, p} \cup TeamIds(p)
    [] RoleOf[p] = "sales_manager" -> r.owner = p
    [] RoleOf[p] = "reception" -> r.creator = p
    [] OTHER -> FALSE

EntryScope(p, r) ==
  RoleOf[p] \in {"director", "accountant"} \/ r.owner = p

DayOffScope(p, r) ==
  CASE RoleOf[p] = "head_of_sales" -> r.owner \in TeamIds(p)
    [] RoleOf[p] = "sales_manager" -> r.owner = p
    [] OTHER -> TRUE

InScope(p, r) ==
  CASE kind = "booking" -> r.owner \in ManagerScope(p)
    [] kind = "contract" -> RoleOf[p] = "accountant" \/ r.owner \in ManagerScope(p)
    [] kind = "lead" -> LeadScope(p, r)
    [] kind = "dayOff" -> DayOffScope(p, r)
    [] kind = "transaction" -> TRUE
    [] kind = "entry" -> EntryScope(p, r)

Sees(p, r) ==
  IF r = New THEN TRUE ELSE RoleOf[p] \in Routes[kind].read /\ InScope(p, r)

ActiveSeller(q) == q \in Active /\ RoleOf[q] \in SellerEditors

\* Whether p may make q the manager of a record.
ResolveManagerId(p, q) ==
  CASE RoleOf[p] = "sales_manager" -> q \in {None, p}
    [] RoleOf[p] = "head_of_sales" ->
         (IF q = None THEN p ELSE q) \in {p} \cup TeamIds(p) /\ (q = None \/ ActiveSeller(q))
    [] RoleOf[p] = "director" -> q # None /\ ActiveSeller(q)
    [] OTHER -> FALSE

VisibleUsers(p) ==
  CASE RoleOf[p] = "director" -> People
    [] RoleOf[p] = "head_of_sales" -> {q \in People : TeamLead[q] = p}
    [] OTHER -> {}

DayOffEmployee(p, q) == q \in TeamIds(p) /\ q \in Active /\ RoleOf[q] \in ShiftRoles

(* The server: the checks of each handler on the record as it is           *)

\* An edit may name another manager, a sales manager's may not.
Reassigns(p, a, r) ==
  \/ a.target = r.owner
  \/ RoleOf[p] # "sales_manager" /\ ResolveManagerId(p, a.target)

PermitsBooking(p, a, r) ==
  \/ a.what = "create" /\ r = New /\ ResolveManagerId(p, a.target)
  \/ /\ r # New /\ r.owner \in ManagerScope(p)
     /\ \/ a.what \in {"edit", "cancel"} /\ r.status # "converted"
        \/ a.what = "assign" /\ r.status # "converted" /\ Reassigns(p, a, r)
        \/ a.what = "convert" /\ r.status = "active"

\* Mutant: a contract is found by its id alone.
FindEditableById(p, r) ==
  RoleOf[p] = "sales_manager" => r.status # "signed"

FindEditable(p, r) ==
  /\ r.owner \in ManagerScope(p)
  /\ RoleOf[p] = "sales_manager" => r.status # "signed"

PermitsContract(p, a, r) ==
  \/ a.what = "create" /\ r = New /\ ResolveManagerId(p, a.target)
  \/ r # New /\ a.what \in {"edit", "upload"} /\ FindEditable(p, r)
  \/ r # New /\ a.what = "assign" /\ FindEditable(p, r) /\ Reassigns(p, a, r)
  \/ r # New /\ a.what = "deposit" /\ (RoleOf[p] = "accountant" \/ FindEditable(p, r))
  \/ r # New /\ a.what = "download" /\ r.owner \in ManagerScope(p) /\ r.file

PermitsLead(p, a, r) ==
  \/ a.what = "create" /\ r = New
  \/ /\ r # New /\ LeadScope(p, r) /\ r.status # "converted"
     /\ \/ a.what = "assign" /\ r.status # "rejected"
           /\ a.target \in ({p} \cup TeamIds(p)) \cap Active
        \/ a.what = "reject"
        \/ a.what = "convert" /\ r.status # "rejected" /\ r.owner # None

PermitsTransaction(p, a, r) ==
  \/ a.what = "create" /\ r = New
  \/ r # New /\ a.what \in {"edit", "upload"} /\ r.creator = p /\ r.status = "open"

PermitsEntry(p, a, r) ==
  \/ a.what = "create" /\ r = New
  \/ r # New /\ a.what \in {"edit", "confirm"} /\ r.status = "draft"

\* What the server does not refuse.
Permits(p, a, r) ==
  /\ RoleOf[p] \in Routes[kind][a.what]
  /\ CASE kind = "booking" -> PermitsBooking(p, a, r)
       [] kind = "contract" -> PermitsContract(p, a, r)
       [] kind = "lead" -> PermitsLead(p, a, r)
       [] kind = "dayOff" -> a.what = "create" /\ r = New /\ DayOffEmployee(p, a.target)
       [] kind = "transaction" -> PermitsTransaction(p, a, r)
       [] kind = "entry" -> PermitsEntry(p, a, r)

(* What an action leaves of the record                                     *)

DeriveContractStatus(paid, file) ==
  IF paid /\ file THEN "signed" ELSE IF paid THEN "deposit_paid" ELSE "draft"

FirstStatus ==
  [booking |-> "active", contract |-> "draft", lead |-> "new",
   dayOff |-> "approved", transaction |-> "open", entry |-> "draft"]

Created(p, a) ==
  [owner |-> IF kind \in {"booking", "contract"} /\ a.target = None THEN p ELSE a.target,
   creator |-> p, status |-> FirstStatus[kind], paid |-> FALSE, file |-> FALSE]

After(p, a, r) ==
  CASE a.what = "create" -> Created(p, a)
    [] a.what = "assign" /\ kind = "lead" ->
         [r EXCEPT !.owner = a.target, !.status = "assigned"]
    [] a.what = "assign" /\ kind # "lead" -> [r EXCEPT !.owner = a.target]
    [] a.what = "convert" -> [r EXCEPT !.status = "converted"]
    [] a.what = "cancel" -> [r EXCEPT !.status = "cancelled"]
    [] a.what = "reject" -> [r EXCEPT !.status = "rejected"]
    [] a.what = "confirm" -> [r EXCEPT !.status = "confirmed"]
    [] a.what = "deposit" ->
         [r EXCEPT !.paid = TRUE, !.status = DeriveContractStatus(TRUE, r.file)]
    [] a.what = "upload" /\ kind = "contract" ->
         [r EXCEPT !.file = TRUE, !.status = DeriveContractStatus(r.paid, TRUE)]
    [] OTHER -> r

-----------------------------------------------------------------------------
(* The frontend: access.ts and what the screens make of it                 *)

Viewers ==
  [booking |-> Sellers, contract |-> Sellers \cup {"accountant"},
   lead |-> Sellers \cup {"reception"}, dayOff |-> ShiftRoles \cup {"director"},
   transaction |-> {"director", "accountant"},
   entry |-> {"director", "accountant", "sales_manager"}]

CanListUsers == {"director", "head_of_sales"}

AssignableManagerRoles(role) ==
  CASE role = "director" -> {"sales_manager", "head_of_sales"}
    [] role = "head_of_sales" -> {"sales_manager"}
    [] OTHER -> {}

AssignableDayOffRoles(role) ==
  CASE role = "director" -> {"head_of_sales", "accountant"}
    [] role = "head_of_sales" -> {"sales_manager"}
    [] OTHER -> {}

\* The people a select offers.
Options(p, roles) == {q \in VisibleUsers(p) \cap Active : RoleOf[q] \in roles}

Managers(p) == Options(p, AssignableManagerRoles(RoleOf[p]))

\* Only the director must choose; a sales manager has no choice.
ManagersOnCreate(p) ==
  Managers(p) \cup (IF RoleOf[p] = "director" THEN {} ELSE {None})

\* A head of sales is not of the team and is added to it.
ManagersOnReassign(p) ==
  Managers(p) \cup (IF RoleOf[p] = "head_of_sales" THEN {p} ELSE {})

Reassignments(p, r) ==
  {Give("assign", q) : q \in ManagersOnReassign(p) \ {r.owner}}

DoEach(whats) == {Do(what) : what \in whats}

BookingDetailScreen(p, r) ==
  IF r.status # "active" THEN {}
  ELSE DoEach({"edit", "cancel", "convert"}) \cup Reassignments(p, r)

\* Mutant: the form is offered for a contract that is signed, too.
CanEditContractSigned(p, r) == RoleOf[p] \in Sellers

CanEditContract(p, r) ==
  \/ RoleOf[p] \in {"director", "head_of_sales"}
  \/ RoleOf[p] = "sales_manager" /\ r.status # "signed"

CanConfirmDeposit == {"accountant", "director", "head_of_sales"}
CanManageContractFile == Sellers

\* Of the accountant's table the deposit only.
ContractDetailScreen(p, r) ==
  (IF CanEditContract(p, r) THEN {Do("edit")} \cup Reassignments(p, r) ELSE {})
    \cup (IF RoleOf[p] \in CanConfirmDeposit /\ ~r.paid THEN {Do("deposit")} ELSE {})
    \cup (IF RoleOf[p] \in CanManageContractFile THEN {Do("upload")} ELSE {})
    \cup (IF RoleOf[p] \in CanManageContractFile /\ r.file THEN {Do("download")} ELSE {})

LeadsScreen(p, r) ==
  LET unfinished == r.status \notin {"converted", "rejected"}
  IN (IF RoleOf[p] = "head_of_sales" /\ unfinished
      THEN {Give("assign", q) : q \in Options(p, {"sales_manager"}) \ {r.owner}} ELSE {})
     \cup (IF RoleOf[p] \in SellerEditors /\ r.status = "assigned" THEN {Do("convert")} ELSE {})
     \cup (IF RoleOf[p] \in SellerEditors /\ unfinished THEN {Do("reject")} ELSE {})

CanEditTransaction(p, r) ==
  RoleOf[p] = "accountant" /\ r.status = "open" /\ r.creator = p

CanManagePayroll(p) == RoleOf[p] = "accountant"

OffersNew(p) ==
  CASE kind \in {"booking", "contract"} ->
         IF RoleOf[p] \in Sellers THEN {Give("create", q) : q \in ManagersOnCreate(p)} ELSE {}
    [] kind = "lead" -> IF RoleOf[p] = "reception" THEN {Do("create")} ELSE {}
    [] kind = "dayOff" ->
         {Give("create", q) : q \in Options(p, AssignableDayOffRoles(RoleOf[p]))}
    [] kind = "transaction" -> IF RoleOf[p] = "accountant" THEN {Do("create")} ELSE {}
    [] kind = "entry" ->
         IF CanManagePayroll(p)
         THEN {Give("create", q) : q \in {x \in People : RoleOf[x] \in ShiftRoles}} ELSE {}

OffersOld(p, r) ==
  CASE kind = "booking" -> BookingDetailScreen(p, r)
    [] kind = "contract" -> ContractDetailScreen(p, r)
    [] kind = "lead" -> LeadsScreen(p, r)
    [] kind = "dayOff" -> {}
    [] kind = "transaction" ->
         IF CanEditTransaction(p, r) THEN DoEach({"edit", "upload"}) ELSE {}
    [] kind = "entry" ->
         IF CanManagePayroll(p) /\ r.status = "draft" THEN DoEach({"edit", "confirm"}) ELSE {}

\* What a page of p offers that shows r.
Offers(p, r) ==
  IF RoleOf[p] \notin Viewers[kind] \/ r = Closed THEN {}
  ELSE IF r = New THEN OffersNew(p) ELSE OffersOld(p, r)

\* The menu, and what each of its pages reads when it is opened.
NavRoles ==
  [dashboard |-> AllRoles, profile |-> AllRoles, reception |-> {"reception"},
   leads |-> Viewers.lead, bookings |-> Viewers.booking,
   contracts |-> Viewers.contract, shifts |-> Viewers.dayOff,
   payroll |-> Viewers.entry, finance |-> Viewers.transaction,
   reports |-> ReportRoles, users |-> CanListUsers]

NavItems(role) == {item \in DOMAIN NavRoles : role \in NavRoles[item]}

If(condition, reads) == IF condition THEN reads ELSE {}

Lists(kinds) == {Routes[k].read : k \in kinds}
Pages(names) == {PageRoutes[n] : n \in names}

Home(role) ==
  CASE role \in {"director", "investor"} -> Pages({"dashboard", "reports"})
    [] role = "head_of_sales" -> Pages({"reports", "currentShift", "analytics"})
    [] role = "sales_manager" -> Lists({"entry"}) \cup Pages({"currentShift"})
    [] role = "accountant" ->
         Lists({"entry", "contract"}) \cup Pages({"summary", "reports", "currentShift"})
    [] OTHER -> {}

\* The roles each route that a page reads is open to.
Reads(role, item) ==
  CASE item = "dashboard" -> Home(role)
    [] item = "leads" -> Lists({"lead"}) \cup If(role = "head_of_sales", Pages({"users"}))
    [] item = "bookings" -> Lists({"booking"}) \cup If(role \in CanListUsers, Pages({"users"}))
    [] item = "contracts" -> Lists({"contract"}) \cup If(role \in CanListUsers, Pages({"users"}))
    [] item = "shifts" ->
         Lists({"dayOff"}) \cup Pages({"shifts"})
           \cup If(role \in ShiftRoles, Pages({"currentShift"}))
           \cup If(role \in CanListUsers, Pages({"users"}))
    [] item = "payroll" ->
         Lists({"entry"})
           \cup If(role \in {"director", "accountant"}, Pages({"payrollSettings"}))
    [] item = "finance" -> Lists({"transaction"}) \cup Pages({"summary"})
    [] item = "reports" ->
         Pages({"reports"}) \cup If(role \in {"director", "head_of_sales"}, Pages({"analytics"}))
           \cup If(role = "director", Pages({"payrollSummary"}))
    [] item = "users" -> Pages({"users"}) \cup If(role = "director", Pages({"pending"}))
    [] OTHER -> {}

CreatableRoles ==
  [director |-> {"head_of_sales", "accountant", "investor", "reception"},
   head_of_sales |-> {"sales_manager"}, sales_manager |-> {}, accountant |-> {},
   investor |-> {}, reception |-> {}]

RoleCreationMatrix ==
  [director |-> {"head_of_sales", "accountant", "investor", "reception"},
   head_of_sales |-> {"sales_manager"}, sales_manager |-> {}, accountant |-> {},
   investor |-> {}, reception |-> {}]

-----------------------------------------------------------------------------

\* Whose business it is to do a to r.
Responsible(p, a, r) ==
  LET owned == r.owner # None /\ p \in {r.owner, TeamLead[r.owner]}
  IN CASE kind \in {"booking", "contract"} ->
            owned \/ (a.what = "deposit" /\ RoleOf[p] = "accountant")
       [] kind = "lead" ->
            IF a.what = "create" THEN RoleOf[p] = "reception"
            ELSE owned \/ (r.owner = None /\ RoleOf[p] = "head_of_sales")
       [] kind = "dayOff" -> TeamLead[r.owner] = p
       [] kind = "transaction" -> RoleOf[p] = "accountant" /\ r.creator = p
       [] kind = "entry" -> RoleOf[p] = "accountant"

Init ==
  /\ kind \in DOMAIN Routes
  /\ disabled = {}
  /\ record = New
  /\ shown = [p \in People |-> Closed]
  /\ trespass = FALSE

Open(p) ==
  /\ p \in Active /\ shown[p] = Closed /\ RoleOf[p] \in Viewers[kind]
  /\ Sees(p, record)
  /\ Cardinality({q \in People : shown[q] # Closed}) < MaxOpen
  /\ shown' = [shown EXCEPT ![p] = record]
  /\ UNCHANGED <<kind, disabled, record, trespass>>

Close(p) ==
  /\ shown[p] # Closed
  /\ shown' = [shown EXCEPT ![p] = Closed]
  /\ UNCHANGED <<kind, disabled, record, trespass>>

\* A page that is refused stays as it is; a page whose record is no longer its
\* reader's finds nothing when it reads the record again.
Click(p) ==
  \E a \in Offers(p, shown[p]) :
    /\ Permits(p, a, record)
    /\ record' = After(p, a, record)
    /\ shown' = [shown EXCEPT ![p] = IF Sees(p, record') THEN record' ELSE Closed]
    /\ trespass' =
         (trespass \/ (a.what # "download"
            /\ ~Responsible(p, a, IF a.what = "create" THEN record' ELSE record)))
    /\ UNCHANGED <<kind, disabled>>

\* By the API only; no page closes a month.
CloseMonth ==
  /\ kind = "transaction" /\ record # New /\ record.status = "open"
  /\ record' = [record EXCEPT !.status = "closed"]
  /\ UNCHANGED <<kind, disabled, shown, trespass>>

\* The account's tokens are refused from here on.
ExecuteDisableUser(p) ==
  /\ p \in Leavers \ disabled
  /\ disabled' = disabled \cup {p}
  /\ shown' = [shown EXCEPT ![p] = Closed]
  /\ UNCHANGED <<kind, record, trespass>>

Next ==
  \/ \E p \in People : Open(p) \/ Close(p) \/ Click(p)
  \/ CloseMonth
  \/ \E p \in Leavers : ExecuteDisableUser(p)

Spec == Init /\ [][Next]_vars

-----------------------------------------------------------------------------

TypeOK ==
  /\ kind \in DOMAIN Routes /\ disabled \subseteq Leavers /\ trespass \in BOOLEAN
  /\ DOMAIN shown = People

\* What the pages offer though the server always refuses it: a director's every
\* change of a booking, a contract or the days off, since these have been
\* withdrawn from the role, and the sales manager's other file for a contract
\* that is signed.
KnownRefusal(p, a) ==
  \/ RoleOf[p] = "director" /\ a.what # "download"
  \/ RoleOf[p] = "sales_manager" /\ a.what = "upload" /\ record.status = "signed"

Upcoming(p) ==
  IF Sees(p, record) THEN Offers(p, record) ELSE {}

\* On a page that is up to date a button is refused exactly if it is one of
\* the known ones: roles, teams, status and choices of the frontend agree with
\* those of the server (access.ts, EditBookingForm, LeadsScreen, ContractFile).
OfferedIsAllowed ==
  \A p \in Active : \A a \in Upcoming(p) :
    Permits(p, a, record) <=> ~KnownRefusal(p, a)

\* From pages however old nobody writes what is not theirs: not who has handed
\* a record on, not who has lost it to another team (findScoped and the others).
OnlyTheResponsibleWrite == ~trespass

Somebody(whats) ==
  \E p \in Active : \E a \in Upcoming(p) : a.what \in whats /\ Permits(p, a, record)

Staffed(p) == RoleOf[p] = "head_of_sales" /\ TeamIds(p) \cap Active # {}

OwnerOrHead == IF record.owner = None THEN {} ELSE {record.owner, TeamLead[record.owner]}

\* A record that is not finished has somebody whom a page offers the next step
\* and the server allows it, as long as its owner, or the owner's head, or for
\* a new lead a head with a team, or for a deposit an accountant, still has an
\* account (LeadsScreen, BookingDetailScreen, ContractDetailScreen,
\* AccountantContractsTable).
WorkIsOffered ==
  record # New =>
    /\ kind = "lead" /\ record.status = "new" /\ (\E p \in Active : Staffed(p)) =>
         Somebody({"assign"})
    /\ kind = "contract" /\ ~record.paid
         /\ (\E p \in Active : RoleOf[p] = "accountant") => Somebody({"deposit"})
    /\ OwnerOrHead \cap Active # {} =>
         /\ kind \in {"booking", "lead"} /\ record.status \in {"active", "assigned"} =>
              Somebody({"convert"})
         /\ kind = "contract" /\ ~record.file => Somebody({"upload"})

\* Every page of a role's menu is served what it reads, and the forms for
\* accounts offer the roles that may be created (navigation.ts, users/access.ts).
NavigationIsServed ==
  \A role \in AllRoles :
    /\ \A item \in NavItems(role) : \A roles \in Reads(role, item) : role \in roles
    /\ CreatableRoles[role] = RoleCreationMatrix[role]
=============================================================================
