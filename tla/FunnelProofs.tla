---------------------------- MODULE FunnelProofs ----------------------------
(***************************************************************************)
(* Proofs about Funnel, for any staff, any number of rows and any number   *)
(* of handlers in flight.                                                  *)
(***************************************************************************)
EXTENDS Funnel, TLAPS

\* What a handler in flight remembers, by the operation it carries out.
LEMMA RequestFields ==
  ASSUME NEW x \in Request
  PROVE  /\ x.op \in {"assign", "convertLead"} => x.lead \in Leads /\ x.manager \in Staff
         /\ x.op = "reject" => x.lead \in Leads
         /\ x.op = "updateBooking" =>
              /\ x.booking \in Bookings
              /\ x.status \in {"keep", "active", "cancelled"}
              /\ x.manager \in Staff \cup {None}
         /\ x.op = "removeBooking" => x.booking \in Bookings
         /\ x.op = "convertBooking" => x.booking \in Bookings /\ x.manager \in Staff
         /\ x.op = "removeContract" => x.contract \in Contracts
BY DEF Request, Idle

LEMMA IdleIsARequest == Idle \in Request
BY DEF Request

\* A write action's End keeps the memory of the other handlers.
LEMMA EndKeepsType ==
  ASSUME TypeOK, NEW r \in Requests, End(r)
  PROVE  req' \in [Requests -> Request]
BY IdleIsARequest DEF TypeOK, End

\* A read action's Begin keeps the type.
LEMMA BeginKeepsType ==
  ASSUME TypeOK, NEW r \in Requests, NEW x \in Request, Begin(r, x)
  PROVE  TypeOK'
BY DEF TypeOK, Begin

LEMMA LeadWriteKeepsType ==
  ASSUME TypeOK, NEW l \in Leads, NEW row \in LeadRow,
         lead' = [lead EXCEPT ![l] = IF LeadRowAccepted(row) THEN row ELSE @]
  PROVE  lead' \in [Leads -> LeadRow]
BY DEF TypeOK

\* Every reachable state has the types the tables and the handlers declare.
THEOREM TypeCorrect == Spec => []TypeOK
<1>1. Init => TypeOK
  BY IdleIsARequest DEF Init, TypeOK, LeadRow, BookingRow, ContractRow
<1>2. TypeOK /\ [Next]_vars => TypeOK'
  <2> SUFFICES ASSUME TypeOK, [Next]_vars PROVE TypeOK'
    OBVIOUS
  <2>1. CASE UNCHANGED vars
    BY <2>1 DEF vars, TypeOK
  <2>2. ASSUME NEW l \in Leads, CreateLead(l) PROVE TypeOK'
    BY <2>2 DEF CreateLead, TypeOK, LeadRow, LeadStatus
  <2>3. ASSUME NEW a \in Staff, NEW m \in Staff, NEW b \in Bookings, CreateBooking(a, m, b)
        PROVE  TypeOK'
    BY <2>3 DEF CreateBooking, TypeOK, BookingRow, BookingStatus
  <2>4. ASSUME NEW r \in Requests, LeadStep(r) PROVE TypeOK'
    <3>1. ASSUME NEW h \in Heads, NEW l \in Leads, NEW m \in Staff, AssignRead(r, h, l, m)
          PROVE  TypeOK'
      <4>1. [op |-> "assign", lead |-> l, manager |-> m] \in Request
        BY DEF Request
      <4>2. QED
        BY <3>1, <4>1, BeginKeepsType DEF AssignRead
    <3>2. CASE AssignWrite(r)
      <4>1. req[r].lead \in Leads /\ req[r].manager \in Staff
        BY <3>2, RequestFields DEF AssignWrite, TypeOK
      <4>2. [lead[req[r].lead] EXCEPT !.manager = req[r].manager, !.status = "assigned"]
              \in LeadRow
        BY <4>1 DEF TypeOK, LeadRow, LeadStatus
      <4>3. lead' \in [Leads -> LeadRow]
        BY <3>2, <4>1, <4>2, LeadWriteKeepsType DEF AssignWrite
      <4>4. QED
        BY <3>2, <4>3, EndKeepsType DEF AssignWrite, TypeOK
    <3>3. ASSUME NEW a \in Staff, NEW l \in Leads, RejectRead(r, a, l) PROVE TypeOK'
      <4>1. [op |-> "reject", lead |-> l] \in Request
        BY DEF Request
      <4>2. QED
        BY <3>3, <4>1, BeginKeepsType DEF RejectRead
    <3>4. CASE RejectWrite(r)
      <4>1. req[r].lead \in Leads
        BY <3>4, RequestFields DEF RejectWrite, TypeOK
      <4>2. [lead[req[r].lead] EXCEPT !.status = "rejected"] \in LeadRow
        BY <4>1 DEF TypeOK, LeadRow, LeadStatus
      <4>3. lead' \in [Leads -> LeadRow]
        BY <3>4, <4>1, <4>2, LeadWriteKeepsType DEF RejectWrite
      <4>4. QED
        BY <3>4, <4>3, EndKeepsType DEF RejectWrite, TypeOK
    <3>5. ASSUME NEW a \in Staff, NEW l \in Leads, ConvertLeadRead(r, a, l) PROVE TypeOK'
      <4>1. lead[l].manager \in Staff
        BY <3>5 DEF ConvertLeadRead, TypeOK, LeadRow
      <4>2. [op |-> "convertLead", lead |-> l, manager |-> lead[l].manager] \in Request
        BY <4>1 DEF Request
      <4>3. QED
        BY <3>5, <4>2, BeginKeepsType DEF ConvertLeadRead
    <3>6. ASSUME NEW b \in Bookings, ConvertLeadWrite(r, b) PROVE TypeOK'
      <4>1. req[r].lead \in Leads /\ req[r].manager \in Staff
        BY <3>6, RequestFields DEF ConvertLeadWrite, TypeOK
      <4>2. req' \in [Requests -> Request]
        BY <3>6, EndKeepsType DEF ConvertLeadWrite
      <4>3. booking' \in [Bookings -> BookingRow]
        BY <3>6, <4>1 DEF ConvertLeadWrite, TypeOK, BookingRow, BookingStatus
      <4>4. lead' \in [Leads -> LeadRow]
        BY <3>6, <4>1 DEF ConvertLeadWrite, TypeOK, LeadRow, LeadStatus
      <4>5. QED
        BY <3>6, <4>2, <4>3, <4>4 DEF ConvertLeadWrite, TypeOK
    <3>7. QED
      BY <2>4, <3>1, <3>2, <3>3, <3>4, <3>5, <3>6 DEF LeadStep
  <2>5. ASSUME NEW r \in Requests, BookingStep(r) PROVE TypeOK'
    <3>1. ASSUME NEW a \in Staff, NEW b \in Bookings, NEW m \in Staff \cup {None},
                 NEW status \in {"keep", "active", "cancelled"},
                 UpdateBookingRead(r, a, b, status, m)
          PROVE  TypeOK'
      <4>1. [op |-> "updateBooking", booking |-> b, status |-> status, manager |-> m]
              \in Request
        BY DEF Request
      <4>2. QED
        BY <3>1, <4>1, BeginKeepsType DEF UpdateBookingRead
    <3>2. CASE UpdateBookingWrite(r)
      <4>1. /\ req[r].booking \in Bookings
            /\ req[r].status \in {"keep", "active", "cancelled"}
            /\ req[r].manager \in Staff \cup {None}
        BY <3>2, RequestFields DEF UpdateBookingWrite, TypeOK
      <4> DEFINE b == req[r].booking
                 status == IF req[r].status = "keep" THEN booking[b].status ELSE req[r].status
                 manager == IF req[r].manager = None THEN booking[b].manager ELSE req[r].manager
      <4>2. booking[b] \in BookingRow
        BY <4>1 DEF TypeOK
      <4>3. /\ status \in BookingStatus \cup {"unborn", "deleted"}
            /\ manager \in Staff \cup {None}
        BY <4>1, <4>2 DEF BookingRow, BookingStatus
      <4>4. [booking[b] EXCEPT !.status = status, !.manager = manager] \in BookingRow
        BY <4>2, <4>3 DEF BookingRow
      <4>5. booking' = [booking EXCEPT ![b] =
              IF BookingExists(b) THEN [booking[b] EXCEPT !.status = status, !.manager = manager]
                                  ELSE booking[b]]
        BY <3>2 DEF UpdateBookingWrite
      <4> HIDE DEF b, status, manager
      <4>6. booking' \in [Bookings -> BookingRow]
        BY <4>2, <4>4, <4>5 DEF TypeOK
      <4>7. QED
        BY <3>2, <4>6, EndKeepsType DEF UpdateBookingWrite, TypeOK
    <3>3. ASSUME NEW h \in Heads, NEW b \in Bookings, RemoveBookingRead(r, h, b)
          PROVE  TypeOK'
      <4>1. [op |-> "removeBooking", booking |-> b] \in Request
        BY DEF Request
      <4>2. QED
        BY <3>3, <4>1, BeginKeepsType DEF RemoveBookingRead
    <3>4. CASE RemoveBookingWrite(r)
      <4>1. req[r].booking \in Bookings
        BY <3>4, RequestFields DEF RemoveBookingWrite, TypeOK
      <4>2. booking' \in [Bookings -> BookingRow]
        BY <3>4, <4>1 DEF RemoveBookingWrite, TypeOK, BookingRow
      <4>3. lead' \in [Leads -> LeadRow]
        BY <3>4, <4>1 DEF RemoveBookingWrite, LeadAfterBookingDelete, TypeOK, LeadRow
      <4>4. contract' \in [Contracts -> ContractRow]
        BY <3>4, <4>1 DEF RemoveBookingWrite, TypeOK, ContractRow
      <4>5. QED
        BY <3>4, <4>2, <4>3, <4>4, EndKeepsType DEF RemoveBookingWrite, TypeOK
    <3>5. QED
      BY <2>5, <3>1, <3>2, <3>3, <3>4 DEF BookingStep
  <2>6. ASSUME NEW r \in Requests, ContractStep(r) PROVE TypeOK'
    <3>1. ASSUME NEW a \in Staff, NEW b \in Bookings, ConvertBookingRead(r, a, b)
          PROVE  TypeOK'
      <4>1. booking[b].manager \in Staff
        BY <3>1, NoneIsNobody, TeamAssumption
           DEF ConvertBookingRead, BookingInScope, ManagerScope, Staff
      <4>2. [op |-> "convertBooking", booking |-> b, manager |-> booking[b].manager]
              \in Request
        BY <4>1 DEF Request
      <4>3. QED
        BY <3>1, <4>2, BeginKeepsType DEF ConvertBookingRead
    <3>2. ASSUME NEW c \in Contracts, ConvertBookingWrite(r, c) PROVE TypeOK'
      <4>1. req[r].booking \in Bookings /\ req[r].manager \in Staff
        BY <3>2, RequestFields DEF ConvertBookingWrite, TypeOK
      <4>2. booking' \in [Bookings -> BookingRow]
        BY <3>2, <4>1 DEF ConvertBookingWrite, TypeOK, BookingRow, BookingStatus
      <4>3. contract' \in [Contracts -> ContractRow]
        BY <3>2, <4>1 DEF ConvertBookingWrite, TypeOK, ContractRow
      <4>4. QED
        BY <3>2, <4>2, <4>3, EndKeepsType DEF ConvertBookingWrite, TypeOK
    <3>3. ASSUME NEW h \in Heads, NEW c \in Contracts, RemoveContractRead(r, h, c)
          PROVE  TypeOK'
      <4>1. [op |-> "removeContract", contract |-> c] \in Request
        BY DEF Request
      <4>2. QED
        BY <3>3, <4>1, BeginKeepsType DEF RemoveContractRead
    <3>4. CASE RemoveContractWrite(r)
      <4>1. contract' \in [Contracts -> ContractRow]
        BY <3>4 DEF RemoveContractWrite, TypeOK, ContractRow
      <4>2. QED
        BY <3>4, <4>1, EndKeepsType DEF RemoveContractWrite, TypeOK
    <3>5. QED
      BY <2>6, <3>1, <3>2, <3>3, <3>4 DEF ContractStep
  <2>7. ASSUME NEW r \in Requests, Abandon(r) PROVE TypeOK'
    BY <2>7, EndKeepsType DEF Abandon, TypeOK
  <2>8. QED
    BY <2>1, <2>2, <2>3, <2>4, <2>5, <2>6, <2>7 DEF Next
<1>3. QED
  BY <1>1, <1>2, PTL DEF Spec

-----------------------------------------------------------------------------
(***************************************************************************)
(* Leads and bookings.  The agreement of the two tables is inductive once  *)
(* it is joined with the CHECK on Lead: the deletion of a booking a lead   *)
(* refers to would leave a converted lead without one, so it is refused.   *)
(***************************************************************************)

\* What the database guarantees of the table Lead.
LeadRowsAccepted == \A l \in Leads : LeadRowAccepted(lead[l])

FunnelInv == TypeOK /\ LeadRowsAccepted /\ LeadAndBookingAgree

LEMMA NoBookingIsNone == None \notin Bookings /\ None \notin Leads
BY NoneIsNoId

\* Only a lead without a booking refers to no booking.
LEMMA DeletableBookingHasNoLead ==
  ASSUME FunnelInv, NEW b \in Bookings, BookingDeletable(b)
  PROVE  \A l \in Leads : lead[l].booking # b /\ LeadAfterBookingDelete(l, b) = lead[l]
<1> SUFFICES ASSUME NEW l \in Leads, lead[l].booking = b PROVE FALSE
  BY DEF LeadAfterBookingDelete
<1>1. LeadRowAccepted(lead[l]) /\ lead[l] \in LeadRow
  BY DEF FunnelInv, LeadRowsAccepted, TypeOK
<1>2. lead[l].status = "converted"
  BY <1>1, NoBookingIsNone DEF LeadRowAccepted
<1>3. LeadRowAccepted([lead[l] EXCEPT !.booking = None])
  BY DEF BookingDeletable, LeadAfterBookingDelete
<1>4. QED
  BY <1>1, <1>2, <1>3 DEF LeadRowAccepted, LeadRow

\* What a step does to the links between leads and bookings: nothing, or one
\* lead without a booking is bound to a booking no lead refers to.
BindsAtMostOne ==
  \/ \A l \in Leads : lead'[l].booking = lead[l].booking
  \/ \E l \in Leads, b \in Bookings :
       /\ lead[l].booking = None
       /\ \A k \in Leads : lead[k].booking # b
       /\ lead' = [lead EXCEPT ![l].status = "converted", ![l].booking = b]

ConvertedKept == \A l \in Leads : lead[l].status = "converted" => lead'[l] = lead[l]

FunnelGoal == LeadRowsAccepted' /\ LeadAndBookingAgree' /\ ConvertedKept /\ BindsAtMostOne

\* Steps that leave the table Lead alone and lose no booking a lead refers to.
LEMMA LeadsUntouched ==
  ASSUME FunnelInv, lead' = lead,
         \A b \in Bookings :
           /\ booking'[b].origin = booking[b].origin
           /\ BookingExists(b) => BookingExists(b)' \/ \A l \in Leads : lead[l].booking # b
  PROVE  FunnelGoal
BY DEF FunnelInv, FunnelGoal, LeadRowsAccepted, LeadRowAccepted, LeadAndBookingAgree,
       ConvertedKept, BindsAtMostOne

\* Steps that rewrite one lead by its id, keeping its booking, under the CHECK.
LEMMA LeadRewritten ==
  ASSUME FunnelInv, UNCHANGED booking, NEW l \in Leads, NEW row \in LeadRow,
         row.booking = lead[l].booking, row.status # "converted",
         lead' = [lead EXCEPT ![l] = IF LeadRowAccepted(row) THEN row ELSE @]
  PROVE  FunnelGoal
<1>1. /\ \A k \in Leads : lead[k] \in LeadRow /\ LeadRowAccepted(lead[k])
      /\ \A k \in Leads \ {l} : lead'[k] = lead[k]
      /\ lead'[l] = IF LeadRowAccepted(row) THEN row ELSE lead[l]
  BY DEF FunnelInv, TypeOK, LeadRowsAccepted
<1>2. \A k \in Leads : lead'[k].booking = lead[k].booking
  BY <1>1
<1>3. LeadRowsAccepted'
  BY <1>1 DEF LeadRowsAccepted, LeadRowAccepted
<1>4. ConvertedKept
  BY <1>1 DEF ConvertedKept, LeadRowAccepted
<1>5. LeadAndBookingAgree'
  BY <1>2 DEF FunnelInv, LeadAndBookingAgree, BookingExists
<1>6. QED
  BY <1>2, <1>3, <1>4, <1>5 DEF FunnelGoal, BindsAtMostOne

\* The transaction that converts a lead.
LEMMA LeadConverted ==
  ASSUME FunnelInv, NEW l \in Leads, NEW b \in Bookings, NEW m \in Staff,
         LeadClaimable(l), booking[b].status = "unborn",
         booking' = [booking EXCEPT ![b] = [status |-> "active", manager |-> m, origin |-> l]],
         lead' = [lead EXCEPT ![l].status = "converted", ![l].booking = b]
  PROVE  FunnelGoal
<1>1. /\ \A k \in Leads : lead[k] \in LeadRow /\ LeadRowAccepted(lead[k])
      /\ \A k \in Leads \ {l} : lead'[k] = lead[k]
      /\ lead'[l].booking = b /\ lead'[l].status = "converted"
  BY DEF FunnelInv, TypeOK, LeadRowsAccepted, LeadRow
<1>2. /\ \A x \in Bookings \ {b} : booking'[x] = booking[x]
      /\ booking'[b].origin = l /\ booking'[b].status = "active"
  BY DEF FunnelInv, TypeOK
<1>3. lead[l].booking = None /\ lead[l].status # "converted"
  BY DEF LeadClaimable
<1>4. \A k \in Leads : lead[k].booking # b
  BY DEF FunnelInv, LeadAndBookingAgree, BookingExists, BookingStatus
<1>5. LeadRowsAccepted'
  BY <1>1, NoBookingIsNone DEF LeadRowsAccepted, LeadRowAccepted
<1>6. ConvertedKept
  BY <1>1, <1>3 DEF ConvertedKept
<1>7. LeadAndBookingAgree'
  <2> SUFFICES ASSUME NEW k \in Leads, NEW x \in Bookings
               PROVE  /\ lead'[k].booking = x <=> booking'[x].origin = k
                      /\ lead'[k].booking = x => BookingExists(x)'
    BY DEF LeadAndBookingAgree
  <2>1. CASE k = l /\ x = b
    BY <2>1, <1>1, <1>2 DEF BookingExists, BookingStatus
  <2>2. CASE k = l /\ x # b
    BY <2>2, <1>1, <1>2, <1>3, NoBookingIsNone DEF FunnelInv, LeadAndBookingAgree
  <2>3. CASE k # l /\ x = b
    BY <2>3, <1>1, <1>2, <1>4
  <2>4. CASE k # l /\ x # b
    <3>1. lead'[k] = lead[k] /\ booking'[x] = booking[x]
      BY <2>4, <1>1, <1>2
    <3>2. /\ lead[k].booking = x <=> booking[x].origin = k
          /\ lead[k].booking = x => booking[x].status \in BookingStatus
      BY DEF FunnelInv, LeadAndBookingAgree, BookingExists
    <3>3. QED
      BY <3>1, <3>2 DEF BookingExists
  <2>5. QED
    BY <2>1, <2>2, <2>3, <2>4
<1>8. QED
  BY <1>3, <1>4, <1>5, <1>6, <1>7 DEF FunnelGoal, BindsAtMostOne

LEMMA FunnelStep ==
  ASSUME FunnelInv, [Next]_vars
  PROVE  FunnelGoal
<1> USE DEF BookingExists, BookingStatus
<1>0. TypeOK
  BY DEF FunnelInv
<1>1. CASE UNCHANGED <<lead, booking>>
  BY <1>1, LeadsUntouched
<1>2. ASSUME NEW l \in Leads, CreateLead(l) PROVE FunnelGoal
  <2> DEFINE row == [lead[l] EXCEPT !.status = "new"]
  <2>1. /\ row \in LeadRow /\ row.booking = lead[l].booking /\ row.status # "converted"
        /\ LeadRowAccepted(row)
    BY <1>0, <1>2 DEF CreateLead, TypeOK, LeadRow, LeadStatus, FunnelInv,
                      LeadRowsAccepted, LeadRowAccepted
  <2>2. lead' = [lead EXCEPT ![l] = IF LeadRowAccepted(row) THEN row ELSE @] /\ UNCHANGED booking
    BY <1>2, <2>1 DEF CreateLead
  <2>3. QED
    BY <2>1, <2>2, LeadRewritten
<1>3. ASSUME NEW a \in Staff, NEW m \in Staff, NEW b \in Bookings, CreateBooking(a, m, b)
      PROVE  FunnelGoal
  BY <1>3, <1>0, LeadsUntouched DEF CreateBooking, TypeOK, BookingRow
<1>4. ASSUME NEW r \in Requests, AssignWrite(r) PROVE FunnelGoal
  <2> DEFINE row == [lead[req[r].lead] EXCEPT !.manager = req[r].manager, !.status = "assigned"]
  <2>1. req[r].lead \in Leads /\ req[r].manager \in Staff
    BY <1>4, <1>0, RequestFields DEF AssignWrite, TypeOK
  <2>2. row \in LeadRow /\ row.booking = lead[req[r].lead].booking /\ row.status # "converted"
    BY <1>0, <2>1 DEF TypeOK, LeadRow, LeadStatus
  <2>3. QED
    BY <1>4, <2>1, <2>2, LeadRewritten DEF AssignWrite
<1>5. ASSUME NEW r \in Requests, RejectWrite(r) PROVE FunnelGoal
  <2> DEFINE row == [lead[req[r].lead] EXCEPT !.status = "rejected"]
  <2>1. req[r].lead \in Leads
    BY <1>5, <1>0, RequestFields DEF RejectWrite, TypeOK
  <2>2. row \in LeadRow /\ row.booking = lead[req[r].lead].booking /\ row.status # "converted"
    BY <1>0, <2>1 DEF TypeOK, LeadRow, LeadStatus
  <2>3. QED
    BY <1>5, <2>1, <2>2, LeadRewritten DEF RejectWrite
<1>6. ASSUME NEW r \in Requests, NEW b \in Bookings, ConvertLeadWrite(r, b) PROVE FunnelGoal
  <2>1. req[r].lead \in Leads /\ req[r].manager \in Staff
    BY <1>6, <1>0, RequestFields DEF ConvertLeadWrite, TypeOK
  <2>2. CASE LeadClaimable(req[r].lead)
    BY <1>6, <2>1, <2>2, LeadConverted DEF ConvertLeadWrite
  <2>3. CASE ~LeadClaimable(req[r].lead)
    BY <1>6, <2>3, <1>1 DEF ConvertLeadWrite
  <2>4. QED
    BY <2>2, <2>3
<1>7. ASSUME NEW r \in Requests, UpdateBookingWrite(r) PROVE FunnelGoal
  <2> DEFINE b == req[r].booking
             status == IF req[r].status = "keep" THEN booking[b].status ELSE req[r].status
             manager == IF req[r].manager = None THEN booking[b].manager ELSE req[r].manager
             row == [booking[b] EXCEPT !.status = status, !.manager = manager]
  <2>1. b \in Bookings /\ req[r].status \in {"keep", "active", "cancelled"}
    BY <1>7, <1>0, RequestFields DEF UpdateBookingWrite, TypeOK
  <2>2. booking \in [Bookings -> BookingRow] /\ booking[b] \in BookingRow
    BY <2>1, <1>0 DEF TypeOK
  <2>3. /\ lead' = lead
        /\ booking' = [booking EXCEPT ![b] = IF BookingExists(b) THEN row ELSE booking[b]]
    BY <1>7 DEF UpdateBookingWrite
  <2>4. row.origin = booking[b].origin /\ row.status = status
    BY <2>2 DEF BookingRow
  <2>5. BookingExists(b) => status \in BookingStatus
    BY <2>1
  <2> HIDE DEF b, status, manager, row
  <2>6. /\ \A x \in Bookings \ {b} : booking'[x] = booking[x]
        /\ booking'[b] = IF BookingExists(b) THEN row ELSE booking[b]
    BY <2>1, <2>2, <2>3
  <2>7. \A x \in Bookings : booking'[x].origin = booking[x].origin
    BY <2>4, <2>6
  <2>8. \A x \in Bookings : BookingExists(x) => BookingExists(x)'
    BY <2>4, <2>5, <2>6
  <2>9. QED
    BY <2>3, <2>7, <2>8, LeadsUntouched
<1>8. ASSUME NEW r \in Requests, RemoveBookingWrite(r) PROVE FunnelGoal
  <2> DEFINE b == req[r].booking
  <2>1. b \in Bookings
    BY <1>8, <1>0, RequestFields DEF RemoveBookingWrite, TypeOK
  <2>2. CASE ~BookingDeletable(b)
    BY <1>8, <2>2, <1>1 DEF RemoveBookingWrite
  <2>3. CASE BookingDeletable(b)
    <3>1. \A l \in Leads : lead[l].booking # b /\ LeadAfterBookingDelete(l, b) = lead[l]
      BY <2>1, <2>3, DeletableBookingHasNoLead
    <3>2. /\ booking' = [booking EXCEPT ![b].status = "deleted", ![b].manager = None]
          /\ lead' = [l \in Leads |-> LeadAfterBookingDelete(l, b)]
      BY <1>8, <2>3 DEF RemoveBookingWrite
    <3>3. lead' = lead
      BY <3>1, <3>2, <1>0 DEF TypeOK
    <3>4. \A x \in Bookings : /\ booking'[x].origin = booking[x].origin
                              /\ x # b => booking'[x] = booking[x]
      BY <3>2, <2>1, <1>0 DEF TypeOK, BookingRow
    <3>5. QED
      BY <3>1, <3>3, <3>4, LeadsUntouched
  <2>4. QED
    BY <2>2, <2>3
<1>9. ASSUME NEW r \in Requests, NEW c \in Contracts, ConvertBookingWrite(r, c) PROVE FunnelGoal
  BY <1>9, <1>0, LeadsUntouched DEF ConvertBookingWrite, TypeOK, BookingRow
<1>10. QED
  BY <1>1, <1>2, <1>3, <1>4, <1>5, <1>6, <1>7, <1>8, <1>9
     DEF Next, vars, LeadStep, BookingStep, ContractStep, AssignRead, RejectRead,
         ConvertLeadRead, UpdateBookingRead, RemoveBookingRead, ConvertBookingRead,
         RemoveContractRead, RemoveContractWrite, Begin, Abandon

LEMMA FunnelInvInit == Init => FunnelInv
<1> SUFFICES ASSUME Init PROVE FunnelInv
  OBVIOUS
<1>1. TypeOK
  BY IdleIsARequest DEF Init, TypeOK, LeadRow, BookingRow, ContractRow
<1>2. LeadRowsAccepted
  BY DEF Init, LeadRowsAccepted, LeadRowAccepted
<1>3. LeadAndBookingAgree
  BY NoBookingIsNone DEF Init, LeadAndBookingAgree
<1>4. QED
  BY <1>1, <1>2, <1>3 DEF FunnelInv

LEMMA FunnelInvariant == Spec => []FunnelInv
<1>1. FunnelInv /\ TypeOK' /\ [Next]_vars => FunnelInv'
  BY FunnelStep DEF FunnelInv, FunnelGoal
<1>2. QED
  BY <1>1, FunnelInvInit, TypeCorrect, PTL DEF Spec

\* A lead and its booking refer to each other in every reachable state: two
\* overlapping conversions of a lead never leave two bookings.
THEOREM LeadNeverHasTwoBookings == Spec => []LeadAndBookingAgree
<1>1. FunnelInv => LeadAndBookingAgree
  BY DEF FunnelInv
<1>2. QED
  BY <1>1, FunnelInvariant, PTL

\* Nothing changes the row of a converted lead, stale writers included.
THEOREM ConvertedLeadNeverChanges == Spec => ConvertedLeadIsFinal
<1>1. FunnelInv /\ [Next]_vars
        => [\A l \in Leads : lead[l].status = "converted" => lead'[l] = lead[l]]_vars
  BY FunnelStep DEF FunnelGoal, ConvertedKept
<1>2. QED
  BY <1>1, FunnelInvariant, PTL DEF Spec, ConvertedLeadIsFinal

\* The conversion of leads implements the one-shot binding of module OneShot.
THEOREM LeadConversionImplementsOneShot == Spec => LeadConversionIsOneShot
<1> DEFINE links == [l \in Leads |-> lead[l].booking]
<1>1. Init => Conversion!Init
  <2> SUFFICES ASSUME Init PROVE links = [l \in Leads |-> None]
    BY DEF Conversion!Init
  <2>1. \A l \in Leads : lead[l].booking = None
    BY DEF Init
  <2>2. QED
    BY <2>1
<1>2. FunnelInv /\ [Next]_vars => [Conversion!Next]_links
  <2> SUFFICES ASSUME FunnelInv, [Next]_vars PROVE [Conversion!Next]_links
    OBVIOUS
  <2>1. BindsAtMostOne
    BY FunnelStep DEF FunnelGoal
  <2>2. CASE \A l \in Leads : lead'[l].booking = lead[l].booking
    BY <2>2
  <2>3. ASSUME NEW l \in Leads, NEW b \in Bookings,
               lead[l].booking = None,
               \A k \in Leads : lead[k].booking # b,
               lead' = [lead EXCEPT ![l].status = "converted", ![l].booking = b]
        PROVE  Conversion!Next
    <3>1. /\ lead'[l].booking = b
          /\ \A k \in Leads \ {l} : lead'[k].booking = lead[k].booking
      BY <2>3 DEF FunnelInv, TypeOK, LeadRow
    <3>2. links' = [links EXCEPT ![l] = b]
      BY <3>1
    <3>3. links[l] = None /\ \A other \in Leads : links[other] # b
      BY <2>3
    <3>4. Conversion!Bind(l, b)
      BY <3>2, <3>3 DEF Conversion!Bind
    <3>5. QED
      BY <3>4 DEF Conversion!Next
  <2>4. QED
    BY <2>1, <2>2, <2>3 DEF BindsAtMostOne
<1>3. QED
  BY <1>1, <1>2, FunnelInvariant, PTL DEF Spec, LeadConversionIsOneShot, Conversion!Spec

-----------------------------------------------------------------------------
\* No two contracts are ever linked to one booking: the unique index decides
\* when the status of the booking no longer does.
THEOREM BookingNeverHasTwoContracts == Spec => []OneContractPerBooking
<1>1. Init => OneContractPerBooking
  BY DEF Init, OneContractPerBooking
<1>2. TypeOK /\ OneContractPerBooking /\ [Next]_vars => OneContractPerBooking'
  <2> SUFFICES ASSUME TypeOK, OneContractPerBooking, [Next]_vars
               PROVE  OneContractPerBooking'
    OBVIOUS
  <2>1. CASE UNCHANGED contract
    BY <2>1 DEF OneContractPerBooking
  <2>2. ASSUME NEW r \in Requests, NEW c \in Contracts, ConvertBookingWrite(r, c)
        PROVE  OneContractPerBooking'
    <3>1. CASE UNCHANGED contract
      BY <3>1, <2>1
    <3>2. CASE /\ NoContractOf(req[r].booking)
               /\ contract' = [contract EXCEPT ![c] =
                    [status |-> "present", manager |-> req[r].manager,
                     booking |-> req[r].booking]]
      BY <3>2 DEF NoContractOf, OneContractPerBooking, TypeOK
    <3>3. QED
      BY <2>2, <3>1, <3>2 DEF ConvertBookingWrite
  <2>3. ASSUME NEW r \in Requests, RemoveContractWrite(r) PROVE OneContractPerBooking'
    BY <2>3 DEF RemoveContractWrite, OneContractPerBooking, TypeOK
  <2>4. ASSUME NEW r \in Requests, RemoveBookingWrite(r) PROVE OneContractPerBooking'
    <3>1. CASE UNCHANGED contract
      BY <3>1, <2>1
    <3>2. CASE contract' = [c \in Contracts |->
                 IF contract[c].booking = req[r].booking
                   THEN [contract[c] EXCEPT !.booking = None] ELSE contract[c]]
      <4>1. \A c \in Contracts : contract'[c].booking \in {None, contract[c].booking}
        BY <3>2 DEF TypeOK, ContractRow
      <4>2. QED
        BY <4>1 DEF OneContractPerBooking
    <3>3. QED
      BY <2>4, <3>1, <3>2 DEF RemoveBookingWrite
  <2>5. QED
    BY <2>1, <2>2, <2>3, <2>4
       DEF Next, vars, CreateLead, CreateBooking, LeadStep, BookingStep, ContractStep,
           AssignRead, AssignWrite, RejectRead, RejectWrite, ConvertLeadRead,
           ConvertLeadWrite, UpdateBookingRead, UpdateBookingWrite, RemoveBookingRead,
           ConvertBookingRead, RemoveContractRead, Begin, Abandon
<1>3. QED
  BY <1>1, <1>2, TypeCorrect, PTL DEF Spec

\* The links of the funnel are exact (LeadsService.convert, createFromBooking).
THEOREM LinksStayExact == Spec => []LinksAreExact
BY LeadNeverHasTwoBookings, BookingNeverHasTwoContracts, PTL DEF LinksAreExact
=============================================================================
