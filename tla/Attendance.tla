----------------------------- MODULE Attendance -----------------------------
(***************************************************************************)
(* Shifts, days off, and the daily job that records the working days on    *)
(* which an employee had neither (ShiftsService, DayOffsService,           *)
(* MissedShiftsService).                                                   *)
(*                                                                         *)
(* Days are numbered and today is a clock: midnight may fall between any   *)
(* two statements of a handler or of the job.  The job is started at every *)
(* start of a server and once a day; it may be down at midnight, stop      *)
(* half-way, and run in several processes at once.                         *)
(***************************************************************************)
EXTENDS Naturals, FiniteSets

CONSTANTS
  Employees,    \* accounts with a shift button (SHIFT_ROLES)
  DayOffs,      \* ids of rows of DayOff, all unborn at first
  Requests,     \* slots of HTTP requests in flight; their number is a bound
  Runs,         \* slots of runs of the job; their number is a bound
  WorkingDays,  \* the days that are WORKING_WEEKDAYS
  Lookback,     \* MISSED_SHIFT_LOOKBACK_DAYS
  LastDay,      \* bound: the clock stops on this day
  MaxFailures,  \* bound: how often a run stops half-way
  None

ASSUME AttendanceAssumption ==
  /\ WorkingDays \subseteq Nat
  /\ Lookback \in Nat
  /\ LastDay \in Nat
  /\ MaxFailures \in Nat
  /\ None \notin Employees

VARIABLES
  today,     \* BusinessCalendar.today
  account,   \* table User: the status of an employee's account
  hired,     \* table User: the day of createdAt
  shift,     \* table Shift: the status of the row of an employee and a day
  dayOff,    \* table DayOff; "timely" is a history field: the row was written
             \* when its day was not over
  req,       \* what each request in flight goes on to do
  run,       \* what each run of the job goes on to do
  failures   \* how many runs have stopped half-way

vars == <<today, account, hired, shift, dayOff, req, run, failures>>

Days == 0 .. LastDay

DayOffRow ==
       [state: {"unborn"}, user: {None}, date: {0}, timely: {FALSE}]
  \cup [state: {"present", "deleted"}, user: Employees, date: Days, timely: BOOLEAN]

Idle == [op |-> "idle"]

Request ==
       {Idle}
  \cup [op: {"open"}, user: Employees]
  \cup [op: {"openOn", "close", "grant"}, user: Employees, date: Days]
  \cup [op: {"move"}, id: DayOffs, date: Days]
  \cup [op: {"withdraw"}, id: DayOffs]

\* A run has the days "left" to look at; with "insert" it is about to record
\* the "users" it found for a day.
JobRun ==
       {Idle}
  \cup [op: {"select"}, left: SUBSET Days]
  \cup [op: {"insert"}, left: SUBSET Days, date: Days, users: SUBSET Employees]

Present(i) == dayOff[i].state = "present"

\* The last conjunct: an employee has rows of Shift only for days since his
\* account was created, none for a future day, and a missed one only for a day
\* that is over and that did not begin before the account.
TypeOK ==
  /\ today \in Days
  /\ account \in [Employees -> {"unborn", "active", "disabled"}]
  /\ hired \in [Employees -> Days]
  /\ shift \in [Employees -> [Days -> {"none", "open", "closed", "missed"}]]
  /\ dayOff \in [DayOffs -> DayOffRow]
  /\ req \in [Requests -> Request]
  /\ run \in [Runs -> JobRun]
  /\ failures \in 0 .. MaxFailures
  /\ \A u \in Employees, d \in Days :
       /\ shift[u][d] # "none" => account[u] # "unborn" /\ hired[u] <= d /\ d <= today
       /\ shift[u][d] = "missed" => hired[u] < d /\ d < today

Init ==
  /\ today = 0
  /\ account = [u \in Employees |-> "unborn"]
  /\ hired = [u \in Employees |-> 0]
  /\ shift = [u \in Employees |-> [d \in Days |-> "none"]]
  /\ dayOff = [i \in DayOffs |->
                 [state |-> "unborn", user |-> None, date |-> 0, timely |-> FALSE]]
  /\ req = [r \in Requests |-> Idle]
  /\ run = [j \in Runs |-> Idle]
  /\ failures = 0

HasDayOff(u, d) ==
  \E i \in DayOffs : Present(i) /\ dayOff[i].user = u /\ dayOff[i].date = d

\* A request has done its reads and its checks and goes on to write.
Begin(r, request) ==
  /\ req[r] = Idle
  /\ req' = [req EXCEPT ![r] = request]
  /\ UNCHANGED <<today, account, hired, shift, dayOff, run, failures>>

\* A request answers; the write actions say what it did to the tables.
End(r) == req' = [req EXCEPT ![r] = Idle]

\* A request fails before its next statement, or its process stops.
Abandon(r) ==
  /\ req[r] # Idle
  /\ End(r)
  /\ UNCHANGED <<today, account, hired, shift, dayOff, run, failures>>

-----------------------------------------------------------------------------
(***************************************************************************)
(* The calendar and the accounts                                           *)
(***************************************************************************)

Midnight ==
  /\ today < LastDay
  /\ today' = today + 1
  /\ UNCHANGED <<account, hired, shift, dayOff, req, run, failures>>

Hire(u) ==
  /\ account[u] = "unborn"
  /\ account' = [account EXCEPT ![u] = "active"]
  /\ hired' = [hired EXCEPT ![u] = today]
  /\ UNCHANGED <<today, shift, dayOff, req, run, failures>>

\* A disabled account is never enabled again.
Disable(u) ==
  /\ account[u] = "active"
  /\ account' = [account EXCEPT ![u] = "disabled"]
  /\ UNCHANGED <<today, hired, shift, dayOff, req, run, failures>>

-----------------------------------------------------------------------------
(***************************************************************************)
(* ShiftsService                                                           *)
(***************************************************************************)

OpenShifts(u) == {d \in Days : shift[u][d] = "open"}

OpenRead(r, u) ==
  /\ account[u] = "active"
  /\ OpenShifts(u) = {}
  /\ Begin(r, [op |-> "open", user |-> u])

\* The day is asked for after the answer of the database has come.
OpenDate(r) ==
  /\ req[r].op = "open"
  /\ req' = [req EXCEPT ![r] = [op |-> "openOn", user |-> req[r].user, date |-> today]]
  /\ UNCHANGED <<today, account, hired, shift, dayOff, run, failures>>

\* The unique key on the user and the date refuses a second row.
OpenWrite(r) ==
  /\ req[r].op = "openOn"
  /\ shift' = [shift EXCEPT ![req[r].user][req[r].date] =
                 IF @ = "none" THEN "open" ELSE @]
  /\ End(r)
  /\ UNCHANGED <<today, account, hired, dayOff, run, failures>>

CloseRead(r, u, d) ==
  /\ account[u] = "active"
  /\ d \in OpenShifts(u)
  /\ \A e \in OpenShifts(u) : e <= d
  /\ Begin(r, [op |-> "close", user |-> u, date |-> d])

CloseWrite(r) ==
  /\ req[r].op = "close"
  /\ shift' = [shift EXCEPT ![req[r].user][req[r].date] =
                 IF @ = "open" THEN "closed" ELSE @]
  /\ End(r)
  /\ UNCHANGED <<today, account, hired, dayOff, run, failures>>

-----------------------------------------------------------------------------
(***************************************************************************)
(* DayOffsService, on behalf of a Director or of the head of the team      *)
(***************************************************************************)

GrantRead(r, u, d) ==
  /\ d >= today
  /\ account[u] = "active"
  /\ shift[u][d] = "none"
  /\ Begin(r, [op |-> "grant", user |-> u, date |-> d])

GrantWrite(r, i) ==
  /\ req[r].op = "grant"
  /\ dayOff[i].state = "unborn"
  /\ dayOff' = [dayOff EXCEPT ![i] =
       IF HasDayOff(req[r].user, req[r].date) THEN @
       ELSE [state |-> "present", user |-> req[r].user, date |-> req[r].date,
             timely |-> today <= req[r].date]]
  /\ End(r)
  /\ UNCHANGED <<today, account, hired, shift, run, failures>>

MoveRead(r, i, d) ==
  /\ Present(i)
  /\ dayOff[i].date >= today
  /\ d >= today
  /\ shift[dayOff[i].user][d] = "none"
  /\ Begin(r, [op |-> "move", id |-> i, date |-> d])

\* The update names the row by its id; a deleted row, and a date that is taken,
\* fail it.
MoveWrite(r) ==
  /\ req[r].op = "move"
  /\ LET i == req[r].id
         d == req[r].date
         free == \A j \in DayOffs \ {i} :
                   ~(Present(j) /\ dayOff[j].user = dayOff[i].user /\ dayOff[j].date = d)
     IN dayOff' = [dayOff EXCEPT ![i] =
          IF Present(i) /\ free THEN [@ EXCEPT !.date = d, !.timely = today <= d] ELSE @]
  /\ End(r)
  /\ UNCHANGED <<today, account, hired, shift, run, failures>>

WithdrawRead(r, i) ==
  /\ Present(i)
  /\ dayOff[i].date >= today
  /\ Begin(r, [op |-> "withdraw", id |-> i])

\* The delete of a row that is gone fails.
WithdrawWrite(r) ==
  /\ req[r].op = "withdraw"
  /\ dayOff' = [dayOff EXCEPT ![req[r].id].state =
                  IF Present(req[r].id) THEN "deleted" ELSE @]
  /\ End(r)
  /\ UNCHANGED <<today, account, hired, shift, run, failures>>

-----------------------------------------------------------------------------
(***************************************************************************)
(* MissedShiftsService: onApplicationBootstrap, catchUp, recordMissedFor   *)
(***************************************************************************)

\* Mutant: only yesterday is looked at.
Yesterday(d) == {e \in WorkingDays \cap Days : e + 1 = d}

\* BusinessCalendar.pastWorkingDays
PastWorkingDays(d) == {e \in WorkingDays \cap Days : e < d /\ d <= e + Lookback}

\* Mutant: the days off are not asked for.
AbsentOrOff(d) ==
  {u \in Employees : account[u] = "active" /\ hired[u] < d /\ shift[u][d] = "none"}

\* The employees who were there before that day and have neither a shift nor a
\* day off on it.
Absent(d) ==
  {u \in Employees : /\ account[u] = "active"
                     /\ hired[u] < d
                     /\ shift[u][d] = "none"
                     /\ ~HasDayOff(u, d)}

RunStart(j) ==
  /\ run[j] = Idle
  /\ run' = [run EXCEPT ![j] = [op |-> "select", left |-> PastWorkingDays(today)]]
  /\ UNCHANGED <<today, account, hired, shift, dayOff, req, failures>>

\* The most recent day comes first.
RunSelect(j) ==
  /\ run[j].op = "select"
  /\ \E d \in run[j].left :
       /\ \A e \in run[j].left : e <= d
       /\ run' = [run EXCEPT ![j] =
            IF d < today /\ Absent(d) # {}
            THEN [op |-> "insert", left |-> @.left \ {d}, date |-> d, users |-> Absent(d)]
            ELSE [op |-> "select", left |-> @.left \ {d}]]
  /\ UNCHANGED <<today, account, hired, shift, dayOff, req, failures>>

\* Mutant: rows that are there are overwritten.
InsertOver(j) ==
  /\ run[j].op = "insert"
  /\ shift' = [u \in Employees |-> [d \in Days |->
       IF d = run[j].date /\ u \in run[j].users THEN "missed" ELSE shift[u][d]]]
  /\ run' = [run EXCEPT ![j] = [op |-> "select", left |-> @.left]]
  /\ UNCHANGED <<today, account, hired, dayOff, req, failures>>

\* Rows that are there are skipped.
RunInsert(j) ==
  /\ run[j].op = "insert"
  /\ shift' = [u \in Employees |-> [d \in Days |->
       IF d = run[j].date /\ u \in run[j].users /\ shift[u][d] = "none"
       THEN "missed" ELSE shift[u][d]]]
  /\ run' = [run EXCEPT ![j] = [op |-> "select", left |-> @.left]]
  /\ UNCHANGED <<today, account, hired, dayOff, req, failures>>

RunEnd(j) ==
  /\ run[j].op = "select"
  /\ run[j].left = {}
  /\ run' = [run EXCEPT ![j] = Idle]
  /\ UNCHANGED <<today, account, hired, shift, dayOff, req, failures>>

\* A statement fails and runSafely logs it, or the process stops.
RunFail(j) ==
  /\ run[j] # Idle
  /\ failures < MaxFailures
  /\ failures' = failures + 1
  /\ run' = [run EXCEPT ![j] = Idle]
  /\ UNCHANGED <<today, account, hired, shift, dayOff, req>>

-----------------------------------------------------------------------------
ShiftStep(r) ==
  \/ \E u \in Employees : OpenRead(r, u)
  \/ OpenDate(r)
  \/ OpenWrite(r)
  \/ \E u \in Employees, d \in Days : CloseRead(r, u, d)
  \/ CloseWrite(r)

DayOffStep(r) ==
  \/ \E u \in Employees, d \in Days : GrantRead(r, u, d)
  \/ \E i \in DayOffs : GrantWrite(r, i)
  \/ \E i \in DayOffs, d \in Days : MoveRead(r, i, d)
  \/ MoveWrite(r)
  \/ \E i \in DayOffs : WithdrawRead(r, i)
  \/ WithdrawWrite(r)

RunProceeds(j) == RunSelect(j) \/ RunInsert(j) \/ RunEnd(j)

Next ==
  \/ Midnight
  \/ \E u \in Employees : Hire(u) \/ Disable(u)
  \/ \E r \in Requests : ShiftStep(r) \/ DayOffStep(r) \/ Abandon(r)
  \/ \E j \in Runs : RunStart(j) \/ RunProceeds(j) \/ RunFail(j)

\* The cron job starts a run every day and every start of a server starts one;
\* a run that does not fail gets an answer to each of its statements.
Fairness == \A j \in Runs : WF_vars(RunStart(j)) /\ WF_vars(RunProceeds(j))

Spec == Init /\ [][Next]_vars /\ Fairness

-----------------------------------------------------------------------------
(***************************************************************************)
(* Properties                                                              *)
(***************************************************************************)

\* What is recorded for a day stays: an employee who pressed the button is not
\* marked missed by a run that found him absent before, a missed day is not
\* opened any more by a request that took its date before midnight, and a shift
\* is only ever closed (ShiftsService, MissedShiftsService.recordMissedFor).
RecordedDayIsFinal ==
  [][\A u \in Employees, d \in Days :
       \/ shift[u][d] = "none"
       \/ shift'[u][d] = shift[u][d]
       \/ shift[u][d] = "open" /\ shift'[u][d] = "closed"]_vars

\* A day off that was written before its day was over counts: no run records
\* that day as missed, however late it selects and however late it inserts
\* (DayOffsService.create and update, MissedShiftsService.recordMissedFor).
DayOffIsRespected ==
  \A i \in DayOffs :
    Present(i) /\ dayOff[i].timely => shift[dayOff[i].user][dayOff[i].date] # "missed"

\* No past working day is forgotten: although runs fail, overlap, and are not
\* started on some days, and although a day off may be withdrawn by a request
\* that is still in flight when its day is over, every working day of an active
\* employee is in the end a shift, a day off or missed, unless it has dropped
\* out of the lookback before (MissedShiftsService.catchUp).
Unaccounted(u, d) ==
  /\ account[u] = "active"
  /\ hired[u] < d /\ d < today /\ d \in WorkingDays
  /\ shift[u][d] = "none"
  /\ ~HasDayOff(u, d)

NoDayIsForgotten ==
  \A u \in Employees, d \in Days :
    (d < today /\ d \in WorkingDays) ~> (~Unaccounted(u, d) \/ today > d + Lookback)
=============================================================================
