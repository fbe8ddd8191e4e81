---------------------------- MODULE SalesSchema ----------------------------
(***************************************************************************)
(* The part of the sales module every other sales module shares: who may   *)
(* touch whose records (SalesAccessService) and which rows the database    *)
(* accepts (the CHECK constraints of the migrations).                      *)
(*                                                                         *)
(* A sales manager works on the records assigned to him, a head of sales   *)
(* on his own records and those of his team.  Teams do not change while    *)
(* the model runs, and every seller is active: what the checks on them     *)
(* reject is a request that ends before it writes.                         *)
(***************************************************************************)

CONSTANTS
  Heads,      \* heads of sales (UserRole.head_of_sales)
  Sellers,    \* sales managers (UserRole.sales_manager)
  Team,       \* the sales managers whose teamLeadId is a given head
  None        \* SQL NULL

ASSUME TeamAssumption == Team \in [Heads -> SUBSET Sellers]
ASSUME RolesAssumption == Heads \cap Sellers = {}
ASSUME NoneIsNobody == None \notin Heads \cup Sellers

Staff == Heads \cup Sellers

(***************************************************************************)
(* SalesAccessService.managerScope: the managers whose records an actor    *)
(* can load.  A record outside of it is simply not found.                  *)
(***************************************************************************)
ManagerScope(actor) ==
  IF actor \in Heads THEN {actor} \cup Team[actor] ELSE {actor}

(***************************************************************************)
(* SalesAccessService.resolveManagerId: the managers an actor may assign a *)
(* record to.  A sales manager always gets himself.                        *)
(***************************************************************************)
Assignable(actor) ==
  IF actor \in Heads THEN {actor} \cup Team[actor] ELSE {actor}

LeadStatus == {"new", "assigned", "converted", "rejected"}
BookingStatus == {"active", "converted", "cancelled"}
ContractStatus == {"draft", "deposit_paid", "signed"}

\* Mutant: a rejected lead may keep its booking.
LeadRowAcceptedOneWay(row) ==
  row.status = "converted" => row.booking # None

(***************************************************************************)
(* CHECK "Lead_converted_has_booking": a converted lead refers to its      *)
(* booking and no other lead does.                                         *)
(***************************************************************************)
LeadRowAccepted(row) ==
  (row.status = "converted") <=> (row.booking # None)

(***************************************************************************)
(* CHECKs "Contract_signed_requires_deposit_and_file" and                  *)
(* "Contract_deposit_paid_status".                                         *)
(***************************************************************************)
ContractRowAccepted(row) ==
  /\ row.status = "signed" => row.depositPaid /\ row.file # None
  /\ row.status = "draft" \/ row.depositPaid

\* deriveContractStatus: signed = deposit paid and contract file attached.
DeriveContractStatus(depositPaid, hasFile) ==
  IF depositPaid /\ hasFile THEN "signed"
  ELSE IF depositPaid THEN "deposit_paid"
  ELSE "draft"
=============================================================================
