------------------------------- MODULE Funnel -------------------------------
(***************************************************************************)
(* The sales funnel: a lead registered at the reception becomes a booking, *)
(* a booking becomes a contract (LeadsService, BookingsService and the     *)
(* conversion and deletion of ContractsService).                           *)
(*                                                                         *)
(* An HTTP handler is a sequence of awaited database statements, and many  *)
(* handlers run at once: every handler below is a read action that checks  *)
(* what it loaded, followed by a write action that may find the row        *)
(* changed.  A write is atomic: it is one statement or one interactive     *)
(* transaction, and the constraints of the database accept or refuse it as *)
(* a whole.  Identifiers are UUIDs and are never used twice.               *)
(***************************************************************************)
EXTENDS SalesSchema, FiniteSets

CONSTANTS
  Leads,      \* identifiers of leads
  Bookings,   \* identifiers of bookings
  Contracts,  \* identifiers of contracts
  Requests    \* slots for the handlers in flight; their number is a bound

ASSUME NoneIsNoId == None \notin Leads \cup Bookings \cup Contracts

VARIABLES
  lead,      \* table Lead
  booking,   \* table Booking; "origin" is a history field: the lead it grew from
  contract,  \* table Contract, its link to the booking only
  req        \* what each handler in flight remembers from its reads

vars == <<lead, booking, contract, req>>

LeadRow == [status: LeadStatus \cup {"unborn"},
            manager: Staff \cup {None},
            booking: Bookings \cup {None}]

BookingRow == [status: BookingStatus \cup {"unborn", "deleted"},
               manager: Staff \cup {None},
               origin: Leads \cup {None}]

ContractRow == [status: {"unborn", "present", "deleted"},
                manager: Staff \cup {None},
                booking: Bookings \cup {None}]

Idle == [op |-> "idle"]

Request ==
       {Idle}
  \cup [op: {"assign", "convertLead"}, lead: Leads, manager: Staff]
  \cup [op: {"reject"}, lead: Leads]
  \cup [op: {"updateBooking"}, booking: Bookings,
        status: {"keep", "active", "cancelled"}, manager: Staff \cup {None}]
  \cup [op: {"removeBooking"}, booking: Bookings]
  \cup [op: {"convertBooking"}, booking: Bookings, manager: Staff]
  \cup [op: {"removeContract"}, contract: Contracts]

TypeOK ==
  /\ lead \in [Leads -> LeadRow]
  /\ booking \in [Bookings -> BookingRow]
  /\ contract \in [Contracts -> ContractRow]
  /\ req \in [Requests -> Request]

Init ==
  /\ lead = [l \in Leads |->
               [status |-> "unborn", manager |-> None, booking |-> None]]
  /\ booking = [b \in Bookings |->
                  [status |-> "unborn", manager |-> None, origin |-> None]]
  /\ contract = [c \in Contracts |->
                   [status |-> "unborn", manager |-> None, booking |-> None]]
  /\ req = [r \in Requests |-> Idle]

BookingExists(b) == booking[b].status \in BookingStatus

\* A handler has done its reads and its checks and goes on to write.
Begin(r, request) ==
  /\ req[r] = Idle
  /\ req' = [req EXCEPT ![r] = request]
  /\ UNCHANGED <<lead, booking, contract>>

\* A handler answers; the write actions say what it did to the tables.
End(r) == req' = [req EXCEPT ![r] = Idle]

-----------------------------------------------------------------------------
(***************************************************************************)
(* Leads                                                                   *)
(***************************************************************************)

\* LeadsService.scope, for the roles that change a lead.
LeadInScope(actor, l) ==
  /\ lead[l].status \in LeadStatus
  /\ \/ actor \in Heads /\ lead[l].manager = None
     \/ lead[l].manager \in ManagerScope(actor)

CreateLead(l) ==
  /\ lead[l].status = "unborn"
  /\ lead' = [lead EXCEPT ![l].status = "new"]
  /\ UNCHANGED <<booking, contract, req>>

AssignRead(r, h, l, m) ==
  /\ LeadInScope(h, l)
  /\ lead[l].status \notin {"converted", "rejected"}
  /\ m \in Assignable(h)
  /\ Begin(r, [op |-> "assign", lead |-> l, manager |-> m])

\* The update names the lead by its id only; a CHECK may still refuse it.
AssignWrite(r) ==
  /\ req[r].op = "assign"
  /\ LET l == req[r].lead
         row == [lead[l] EXCEPT !.manager = req[r].manager, !.status = "assigned"]
     IN lead' = [lead EXCEPT ![l] = IF LeadRowAccepted(row) THEN row ELSE @]
  /\ End(r)
  /\ UNCHANGED <<booking, contract>>

RejectRead(r, a, l) ==
  /\ LeadInScope(a, l)
  /\ lead[l].status # "converted"
  /\ Begin(r, [op |-> "reject", lead |-> l])

RejectWrite(r) ==
  /\ req[r].op = "reject"
  /\ LET l == req[r].lead
         row == [lead[l] EXCEPT !.status = "rejected"]
     IN lead' = [lead EXCEPT ![l] = IF LeadRowAccepted(row) THEN row ELSE @]
  /\ End(r)
  /\ UNCHANGED <<booking, contract>>

ConvertLeadRead(r, a, l) ==
  /\ LeadInScope(a, l)
  /\ lead[l].status \notin {"converted", "rejected"}
  /\ lead[l].manager # None
  /\ Begin(r, [op |-> "convertLead", lead |-> l, manager |-> lead[l].manager])

\* Mutant: the update that claims the lead is unconditional.
LeadClaimableAlways(l) == lead[l].status \in LeadStatus

\* The WHERE of the conditional update that claims the lead.
LeadClaimable(l) ==
  /\ lead[l].status \in {"new", "assigned"}
  /\ lead[l].booking = None

(***************************************************************************)
(* One transaction: the booking is created for the manager read before,    *)
(* then the lead is claimed; a claim that matches no row rolls both back.  *)
(***************************************************************************)
ConvertLeadWrite(r, b) ==
  /\ req[r].op = "convertLead"
  /\ booking[b].status = "unborn"
  /\ LET l == req[r].lead IN
     \/ /\ LeadClaimable(l)
        /\ booking' = [booking EXCEPT ![b] =
             [status |-> "active", manager |-> req[r].manager, origin |-> l]]
        /\ lead' = [lead EXCEPT ![l].status = "converted", ![l].booking = b]
     \/ /\ ~LeadClaimable(l)
        /\ UNCHANGED <<booking, lead>>
  /\ End(r)
  /\ UNCHANGED contract

-----------------------------------------------------------------------------
(***************************************************************************)
(* Bookings                                                                *)
(***************************************************************************)

\* BookingsService.findScoped.
BookingInScope(actor, b) ==
  BookingExists(b) /\ booking[b].manager \in ManagerScope(actor)

CreateBooking(a, m, b) ==
  /\ booking[b].status = "unborn"
  /\ m \in Assignable(a)
  /\ booking' = [booking EXCEPT ![b].status = "active", ![b].manager = m]
  /\ UNCHANGED <<lead, contract, req>>

\* "keep" and None stand for the fields the body of the PATCH leaves out.
UpdateBookingRead(r, a, b, status, m) ==
  /\ BookingInScope(a, b)
  /\ booking[b].status # "converted"
  /\ m # None => a \in Heads /\ m \in Assignable(a) /\ m # booking[b].manager
  /\ Begin(r, [op |-> "updateBooking", booking |-> b, status |-> status,
               manager |-> m])

UpdateBookingWrite(r) ==
  /\ req[r].op = "updateBooking"
  /\ LET b == req[r].booking
         row == [booking[b] EXCEPT
                   !.status = IF req[r].status = "keep" THEN @ ELSE req[r].status,
                   !.manager = IF req[r].manager = None THEN @ ELSE req[r].manager]
     IN booking' = [booking EXCEPT ![b] = IF BookingExists(b) THEN row ELSE @]
  /\ End(r)
  /\ UNCHANGED <<lead, contract>>

RemoveBookingRead(r, h, b) ==
  /\ BookingInScope(h, b)
  /\ Begin(r, [op |-> "removeBooking", booking |-> b])

(***************************************************************************)
(* What the foreign keys make of the rows that refer to a deleted booking  *)
(* (ON DELETE SET NULL), and whether the database accepts the result.      *)
(***************************************************************************)
LeadAfterBookingDelete(l, b) ==
  IF lead[l].booking = b THEN [lead[l] EXCEPT !.booking = None] ELSE lead[l]

\* Mutant: the database accepts every deletion.
BookingDeletableAlways(b) == BookingExists(b)

BookingDeletable(b) ==
  /\ BookingExists(b)
  /\ \A l \in Leads : LeadRowAccepted(LeadAfterBookingDelete(l, b))

RemoveBookingWrite(r) ==
  /\ req[r].op = "removeBooking"
  /\ LET b == req[r].booking IN
     \/ /\ BookingDeletable(b)
        /\ booking' = [booking EXCEPT ![b].status = "deleted", ![b].manager = None]
        /\ lead' = [l \in Leads |-> LeadAfterBookingDelete(l, b)]
        /\ contract' = [c \in Contracts |->
             IF contract[c].booking = b THEN [contract[c] EXCEPT !.booking = None]
                                        ELSE contract[c]]
     \/ /\ ~BookingDeletable(b)
        /\ UNCHANGED <<booking, lead, contract>>
  /\ End(r)

-----------------------------------------------------------------------------
(***************************************************************************)
(* From a booking to a contract                                            *)
(***************************************************************************)

ConvertBookingRead(r, a, b) ==
  /\ BookingInScope(a, b)
  /\ booking[b].status = "active"
  /\ Begin(r, [op |-> "convertBooking", booking |-> b,
               manager |-> booking[b].manager])

\* Mutant: there is no unique index.
NoContractOfAnything(b) == TRUE

\* The unique index on Contract.bookingId.
NoContractOf(b) == \A c \in Contracts : contract[c].booking # b

(***************************************************************************)
(* One transaction: the booking is flipped active -> converted if it still *)
(* is active, and the contract created; the unique index may refuse it.    *)
(***************************************************************************)
ConvertBookingWrite(r, c) ==
  /\ req[r].op = "convertBooking"
  /\ contract[c].status = "unborn"
  /\ LET b == req[r].booking
         accepted == booking[b].status = "active" /\ NoContractOf(b)
     IN
     \/ /\ accepted
        /\ booking' = [booking EXCEPT ![b].status = "converted"]
        /\ contract' = [contract EXCEPT ![c] =
             [status |-> "present", manager |-> req[r].manager, booking |-> b]]
     \/ /\ ~accepted
        /\ UNCHANGED <<booking, contract>>
  /\ End(r)
  /\ UNCHANGED lead

RemoveContractRead(r, h, c) ==
  /\ contract[c].status = "present"
  /\ contract[c].manager \in ManagerScope(h)
  /\ Begin(r, [op |-> "removeContract", contract |-> c])

\* Deleting a row that is already gone fails and changes nothing.
RemoveContractWrite(r) ==
  /\ req[r].op = "removeContract"
  /\ contract' = [contract EXCEPT ![req[r].contract] =
       [status |-> "deleted", manager |-> None, booking |-> None]]
  /\ End(r)
  /\ UNCHANGED <<lead, booking>>

-----------------------------------------------------------------------------
\* A handler that stops between its read and its write: the process dies, or
\* a later check of the same request (a team, an amount) refuses it.
Abandon(r) ==
  /\ req[r] # Idle
  /\ End(r)
  /\ UNCHANGED <<lead, booking, contract>>

LeadStep(r) ==
  \/ \E h \in Heads, l \in Leads, m \in Staff : AssignRead(r, h, l, m)
  \/ AssignWrite(r)
  \/ \E a \in Staff, l \in Leads : RejectRead(r, a, l)
  \/ RejectWrite(r)
  \/ \E a \in Staff, l \in Leads : ConvertLeadRead(r, a, l)
  \/ \E b \in Bookings : ConvertLeadWrite(r, b)

BookingStep(r) ==
  \/ \E a \in Staff, b \in Bookings, m \in Staff \cup {None} :
       \E status \in {"keep", "active", "cancelled"} :
         UpdateBookingRead(r, a, b, status, m)
  \/ UpdateBookingWrite(r)
  \/ \E h \in Heads, b \in Bookings : RemoveBookingRead(r, h, b)
  \/ RemoveBookingWrite(r)

ContractStep(r) ==
  \/ \E a \in Staff, b \in Bookings : ConvertBookingRead(r, a, b)
  \/ \E c \in Contracts : ConvertBookingWrite(r, c)
  \/ \E h \in Heads, c \in Contracts : RemoveContractRead(r, h, c)
  \/ RemoveContractWrite(r)

Next ==
  \/ \E l \in Leads : CreateLead(l)
  \/ \E a \in Staff, m \in Staff, b \in Bookings : CreateBooking(a, m, b)
  \/ \E r \in Requests :
       LeadStep(r) \/ BookingStep(r) \/ ContractStep(r) \/ Abandon(r)

Spec == Init /\ [][Next]_vars

-----------------------------------------------------------------------------
(***************************************************************************)
(* Properties                                                              *)
(***************************************************************************)

\* The link between a lead and its booking is exact in both directions: the
\* booking a lead refers to exists and grew from that lead, and a booking that
\* grew from a lead is the one the lead refers to.  So a lead never yields two
\* bookings, however many convert calls overlap (LeadsService.convert).
LeadAndBookingAgree ==
  \A l \in Leads, b \in Bookings :
    /\ lead[l].booking = b <=> booking[b].origin = l
    /\ lead[l].booking = b => BookingExists(b)

\* Two contracts are never made of one booking, even when a stale PATCH has
\* made a converted booking active again and it is converted a second time
\* (ContractsService.createFromBooking, unique index on Contract.bookingId).
OneContractPerBooking ==
  \A c1, c2 \in Contracts :
    contract[c1].booking = contract[c2].booking /\ contract[c1].booking # None
      => c1 = c2

\* Both: what a record grew from has grown into it alone.
LinksAreExact == LeadAndBookingAgree /\ OneContractPerBooking

\* A converted lead stays converted: an assign or a reject that read it before
\* the conversion writes by id only, and is refused by the database.
ConvertedLeadIsFinal ==
  [][\A l \in Leads : lead[l].status = "converted" => lead'[l] = lead[l]]_vars

\* The conversion of leads implements the one-shot binding of leads to
\* bookings: no deletion and no foreign key action ever undoes it.
Conversion == INSTANCE OneShot WITH
  Sources <- Leads, Targets <- Bookings, Unbound <- None,
  bound <- [l \in Leads |-> lead[l].booking]
LeadConversionIsOneShot == Conversion!Spec
=============================================================================
