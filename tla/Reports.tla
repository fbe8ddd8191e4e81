------------------------------- MODULE Reports -------------------------------
(***************************************************************************)
(* The daily report of one type and one day (ReportsService): what it      *)
(* holds is aggregated first and stored by a later statement.  It is       *)
(* generated when an employee of the day closes a shift (ShiftsService),   *)
(* and again when the Director asks for it.                                *)
(*                                                                         *)
(* What the report aggregates (transactions of the day, or bookings,       *)
(* contracts, deposits and the attendance of the team) is reduced to the   *)
(* number of changes made to it so far.                                    *)
(***************************************************************************)
EXTENDS Naturals

CONSTANTS
  Shifts,      \* the shifts of the day whose closing generates the report
  Requests,    \* slots of requests; their number is a bound
  MaxChanges,  \* bound: how often the aggregated rows change
  NULL

VARIABLES
  changes,   \* the number of changes made to the aggregated rows
  shift,     \* table Shift, by shift
  report,    \* the row of table DailyReport
  req,       \* the requests in flight, "for" the shift they close or for NULL
  closedAt,  \* history: the changes made before a shift was closed, by shift
  cause      \* history: the shift whose closing stored the report, or NULL for
             \* a request of the Director

vars == <<changes, shift, report, req, closedAt, cause>>

Idle == [op |-> "idle"]
NoReport == [content |-> NULL, sourceShiftId |-> NULL]

Init ==
  /\ changes = 0
  /\ shift = [s \in Shifts |-> "open"]
  /\ report = NoReport
  /\ req = [r \in Requests |-> Idle]
  /\ closedAt = [s \in Shifts |-> 0]
  /\ cause = NULL

Goto(r, next) == req' = [req EXCEPT ![r] = next]

\* Everybody else goes on recording, after the closing of a shift as well.
Change ==
  /\ changes < MaxChanges
  /\ changes' = changes + 1
  /\ UNCHANGED <<shift, report, req, closedAt, cause>>

\* ShiftsService.close finds the open shift ...
CloseRead(r, s) ==
  /\ req[r] = Idle
  /\ shift[s] = "open"
  /\ Goto(r, [op |-> "claim", for |-> s])
  /\ UNCHANGED <<changes, shift, report, closedAt, cause>>

\* Mutant: closes the shift whatever it has become.
CloseBlindly(r) ==
  /\ req[r].op = "claim"
  /\ shift' = [shift EXCEPT ![req[r].for] = "closed"]
  /\ closedAt' = [closedAt EXCEPT ![req[r].for] = changes]
  /\ Goto(r, [op |-> "aggregate", for |-> req[r].for])
  /\ UNCHANGED <<changes, report, cause>>

\* ... and closes it, unless another request has.
CloseClaim(r) ==
  /\ req[r].op = "claim"
  /\ LET s == req[r].for
     IN IF shift[s] = "open"
        THEN /\ shift' = [shift EXCEPT ![s] = "closed"]
             /\ closedAt' = [closedAt EXCEPT ![s] = changes]
             /\ Goto(r, [op |-> "aggregate", for |-> s])
        ELSE Goto(r, Idle) /\ UNCHANGED <<shift, closedAt>>
  /\ UNCHANGED <<changes, report, cause>>

\* ReportsController.regenerate
Regenerate(r) ==
  /\ req[r] = Idle
  /\ Goto(r, [op |-> "aggregate", for |-> NULL])
  /\ UNCHANGED <<changes, shift, report, closedAt, cause>>

\* financialContent, salesContent
Aggregate(r) ==
  /\ req[r].op = "aggregate"
  /\ Goto(r, [op |-> "store", for |-> req[r].for, content |-> changes])
  /\ UNCHANGED <<changes, shift, report, closedAt, cause>>

\* The upsert: a request of the Director leaves the shift that is named there.
Store(r) ==
  /\ req[r].op = "store"
  /\ LET s == req[r].for
     IN /\ report' = [content |-> req[r].content,
                      sourceShiftId |-> IF s = NULL THEN report.sourceShiftId ELSE s]
        /\ cause' = s
  /\ Goto(r, Idle)
  /\ UNCHANGED <<changes, shift, closedAt>>

\* A statement fails, or the process dies.  generateSafely leaves the shift
\* closed.
Fail(r) ==
  /\ req[r] # Idle
  /\ Goto(r, Idle)
  /\ UNCHANGED <<changes, shift, report, closedAt, cause>>

Next ==
  \/ Change
  \/ \E r \in Requests :
       \/ \E s \in Shifts : CloseRead(r, s)
       \/ CloseClaim(r) \/ Regenerate(r) \/ Aggregate(r) \/ Store(r) \/ Fail(r)

Spec == Init /\ [][Next]_vars

-----------------------------------------------------------------------------

\* A report that the closing of a shift has stored holds all that was recorded
\* before the shift it names was closed, whoever else closes a shift or asks
\* for the report meanwhile (ShiftsService.close, ReportsService.generate).
ReportCoversItsShift ==
  cause # NULL =>
    /\ report.sourceShiftId = cause
    /\ report.content >= closedAt[cause]
=============================================================================
