-------------------------- MODULE AttendanceProofs --------------------------
(***************************************************************************)
(* Proofs about Attendance, for any number of employees, days off,         *)
(* requests and overlapping runs, any working days and any lookback.       *)
(***************************************************************************)
EXTENDS Attendance, TLAPS

LEMMA RequestFields ==
  ASSUME NEW x \in Request
  PROVE  /\ x.op \in {"open", "openOn", "close", "grant"} => x.user \in Employees
         /\ x.op \in {"openOn", "close", "grant", "move"} => x.date \in Days
         /\ x.op \in {"move", "withdraw"} => x.id \in DayOffs
BY DEF Request, Idle

LEMMA Requested ==
  /\ Idle \in Request
  /\ \A u \in Employees : [op |-> "open", user |-> u] \in Request
  /\ \A u \in Employees, d \in Days :
       /\ [op |-> "openOn", user |-> u, date |-> d] \in Request
       /\ [op |-> "close", user |-> u, date |-> d] \in Request
       /\ [op |-> "grant", user |-> u, date |-> d] \in Request
  /\ \A i \in DayOffs : [op |-> "withdraw", id |-> i] \in Request
  /\ \A i \in DayOffs, d \in Days : [op |-> "move", id |-> i, date |-> d] \in Request
BY DEF Request

LEMMA RunFields ==
  ASSUME NEW x \in JobRun
  PROVE  /\ x.op \in {"select", "insert"} => x.left \subseteq Days
         /\ x.op = "insert" => x.date \in Days /\ x.users \subseteq Employees
BY DEF JobRun, Idle

LEMMA RowFacts ==
  ASSUME NEW x \in DayOffRow
  PROVE  /\ x.state \in {"unborn", "present", "deleted"}
         /\ x.date \in Days /\ x.timely \in BOOLEAN
         /\ x.state # "unborn" => x.user \in Employees
<1>1. 0 \in Days
  BY AttendanceAssumption DEF Days
<1>2. QED
  BY <1>1 DEF DayOffRow

LEMMA DaysAreNumbers == Days \subseteq Nat
BY AttendanceAssumption DEF Days

-----------------------------------------------------------------------------
(***************************************************************************)
(* The inductive invariant.  A request that is about to open a shift has   *)
(* taken a day that is not in the future; a run that is about to record a  *)
(* day has taken one that is over, and employees without a timely day off  *)
(* on it: a day off that is written from then on is late.                  *)
(***************************************************************************)
HiredInThePast == \A u \in Employees : hired[u] <= today

RequestOK(x) ==
  /\ x.op \in {"open", "openOn"} => account[x.user] # "unborn"
  /\ x.op = "openOn" => hired[x.user] <= x.date /\ x.date <= today

TimelyDayOff(u, d) ==
  \E i \in DayOffs : /\ Present(i) /\ dayOff[i].timely
                     /\ dayOff[i].user = u /\ dayOff[i].date = d

RunOK(x) ==
  x.op = "insert" =>
    /\ x.date < today
    /\ \A u \in x.users : /\ account[u] # "unborn"
                          /\ hired[u] < x.date
                          /\ ~TimelyDayOff(u, x.date)

AttendanceInv ==
  /\ TypeOK
  /\ HiredInThePast
  /\ \A r \in Requests : RequestOK(req[r])
  /\ \A j \in Runs : RunOK(run[j])
  /\ DayOffIsRespected

LEMMA AttendanceInvInit == Init => AttendanceInv
<1> SUFFICES ASSUME Init PROVE AttendanceInv
  OBVIOUS
<1>1. 0 \in Days /\ 0 \in 0 .. MaxFailures
  BY AttendanceAssumption DEF Days
<1>2. Idle \in Request /\ Idle \in JobRun
  BY DEF Request, JobRun
<1>3. [state |-> "unborn", user |-> None, date |-> 0, timely |-> FALSE] \in DayOffRow
  BY <1>1 DEF DayOffRow
<1>4. TypeOK
  BY <1>1, <1>2, <1>3 DEF Init, TypeOK, Present
<1>5. QED
  BY <1>4 DEF Init, AttendanceInv, HiredInThePast, RequestOK, RunOK, Idle,
              DayOffIsRespected, Present

-----------------------------------------------------------------------------
(***************************************************************************)
(* Steps of a request and of a run that change no table.                   *)
(***************************************************************************)
LEMMA RequestGoesOn ==
  ASSUME AttendanceInv, NEW r \in Requests, NEW x \in Request, RequestOK(x),
         req' = [req EXCEPT ![r] = x],
         UNCHANGED <<today, account, hired, shift, dayOff, run, failures>>
  PROVE  AttendanceInv'
<1>1. req' \in [Requests -> Request]
  BY DEF AttendanceInv, TypeOK
<1>2. TypeOK'
  BY <1>1 DEF AttendanceInv, TypeOK
<1>3. ASSUME NEW q \in Requests PROVE RequestOK(req[q])'
  <2>1. CASE q = r
    BY <2>1 DEF AttendanceInv, TypeOK, RequestOK
  <2>2. CASE q # r
    BY <2>2 DEF AttendanceInv, TypeOK, RequestOK
  <2>3. QED
    BY <2>1, <2>2
<1>4. \A j \in Runs : RunOK(run[j])'
  BY DEF AttendanceInv, RunOK, TimelyDayOff, Present
<1>5. QED
  BY <1>2, <1>3, <1>4 DEF AttendanceInv, HiredInThePast, DayOffIsRespected, Present

LEMMA RunGoesOn ==
  ASSUME AttendanceInv, NEW j \in Runs, NEW x \in JobRun, RunOK(x),
         run' = [run EXCEPT ![j] = x], failures' \in 0 .. MaxFailures,
         UNCHANGED <<today, account, hired, shift, dayOff, req>>
  PROVE  AttendanceInv'
<1>1. run' \in [Runs -> JobRun]
  BY DEF AttendanceInv, TypeOK
<1>2. TypeOK'
  BY <1>1 DEF AttendanceInv, TypeOK
<1>3. ASSUME NEW k \in Runs PROVE RunOK(run[k])'
  <2>1. RunOK(run'[k])
    <3>1. CASE k = j
      BY <3>1 DEF AttendanceInv, TypeOK
    <3>2. CASE k # j
      BY <3>2 DEF AttendanceInv, TypeOK
    <3>3. QED
      BY <3>1, <3>2
  <2>2. QED
    BY <2>1 DEF RunOK, TimelyDayOff, Present
<1>4. \A r \in Requests : RequestOK(req[r])'
  BY DEF AttendanceInv, RequestOK
<1>5. QED
  BY <1>2, <1>3, <1>4 DEF AttendanceInv, HiredInThePast, DayOffIsRespected, Present

\* A request that answers, or is given up.
LEMMA Answered == Idle \in Request /\ RequestOK(Idle)
BY Requested DEF RequestOK, Idle

-----------------------------------------------------------------------------
(***************************************************************************)
(* The calendar and the accounts                                           *)
(***************************************************************************)
LEMMA MidnightStep ==
  ASSUME AttendanceInv, Midnight
  PROVE  AttendanceInv'
<1>1. today \in Nat /\ today' = today + 1 /\ today' \in Days
  BY AttendanceAssumption DEF AttendanceInv, TypeOK, Midnight, Days
<1>2. \A n \in Nat : (n <= today => n <= today') /\ (n < today => n < today')
  BY <1>1
<1>3. TypeOK'
  BY <1>1, <1>2, DaysAreNumbers DEF AttendanceInv, TypeOK, Midnight
<1>4. HiredInThePast'
  BY <1>2, DaysAreNumbers DEF AttendanceInv, TypeOK, HiredInThePast, Midnight
<1>5. ASSUME NEW r \in Requests PROVE RequestOK(req[r])'
  <2>1. req[r].op = "openOn" => req[r].date \in Nat
    BY RequestFields, DaysAreNumbers DEF AttendanceInv, TypeOK
  <2>2. QED
    BY <1>2, <2>1 DEF AttendanceInv, RequestOK, Midnight
<1>6. ASSUME NEW j \in Runs PROVE RunOK(run[j])'
  <2>1. run[j].op = "insert" => run[j].date \in Nat
    BY RunFields, DaysAreNumbers DEF AttendanceInv, TypeOK
  <2>2. QED
    BY <1>2, <2>1 DEF AttendanceInv, RunOK, TimelyDayOff, Present, Midnight
<1>7. QED
  BY <1>3, <1>4, <1>5, <1>6
     DEF AttendanceInv, DayOffIsRespected, Present, Midnight

\* Nothing in the tables belongs to an account that is not there yet.
LEMMA HireStep ==
  ASSUME AttendanceInv, NEW u \in Employees, Hire(u)
  PROVE  AttendanceInv'
<1>1. \A d \in Days : shift[u][d] = "none"
  BY DEF AttendanceInv, TypeOK, Hire
<1>2. /\ account' \in [Employees -> {"unborn", "active", "disabled"}]
      /\ hired' \in [Employees -> Days]
      /\ account'[u] = "active" /\ hired'[u] = today
      /\ \A v \in Employees \ {u} : account'[v] = account[v] /\ hired'[v] = hired[v]
  BY DEF AttendanceInv, TypeOK, Hire
<1>3. TypeOK'
  BY <1>1, <1>2 DEF AttendanceInv, TypeOK, Hire
<1>4. HiredInThePast'
  BY <1>2, DaysAreNumbers DEF AttendanceInv, TypeOK, HiredInThePast, Hire
<1>5. ASSUME NEW r \in Requests PROVE RequestOK(req[r])'
  <2>1. req[r].op \in {"open", "openOn"} => req[r].user \in Employees \ {u}
    BY RequestFields DEF AttendanceInv, TypeOK, RequestOK, Hire
  <2>2. QED
    BY <1>2, <2>1 DEF AttendanceInv, RequestOK, Hire
<1>6. ASSUME NEW j \in Runs PROVE RunOK(run[j])'
  <2>1. run[j].op = "insert" => run[j].users \subseteq Employees \ {u}
    BY RunFields DEF AttendanceInv, TypeOK, RunOK, Hire
  <2>2. QED
    BY <1>2, <2>1 DEF AttendanceInv, RunOK, TimelyDayOff, Present, Hire
<1>7. QED
  BY <1>3, <1>4, <1>5, <1>6 DEF AttendanceInv, DayOffIsRespected, Present, Hire

LEMMA DisableStep ==
  ASSUME AttendanceInv, NEW u \in Employees, Disable(u)
  PROVE  AttendanceInv'
<1>1. /\ account' \in [Employees -> {"unborn", "active", "disabled"}]
      /\ \A v \in Employees : account'[v] = "unborn" <=> account[v] = "unborn"
  BY DEF AttendanceInv, TypeOK, Disable
<1>2. TypeOK'
  BY <1>1 DEF AttendanceInv, TypeOK, Disable
<1>3. ASSUME NEW r \in Requests PROVE RequestOK(req[r])'
  BY <1>1, RequestFields DEF AttendanceInv, TypeOK, RequestOK, Disable
<1>4. ASSUME NEW j \in Runs PROVE RunOK(run[j])'
  BY <1>1, RunFields DEF AttendanceInv, TypeOK, RunOK, TimelyDayOff, Present, Disable
<1>5. QED
  BY <1>2, <1>3, <1>4
     DEF AttendanceInv, HiredInThePast, DayOffIsRespected, Present, Disable

-----------------------------------------------------------------------------
(***************************************************************************)
(* Requests that write                                                     *)
(***************************************************************************)
LEMMA OpenWriteStep ==
  ASSUME AttendanceInv, NEW r \in Requests, OpenWrite(r)
  PROVE  AttendanceInv'
<1>1. PICK x \in Request : x = req[r]
  BY DEF AttendanceInv, TypeOK
<1>2. /\ x.op = "openOn" /\ x.user \in Employees /\ x.date \in Days
      /\ account[x.user] # "unborn" /\ hired[x.user] <= x.date /\ x.date <= today
  BY <1>1, RequestFields DEF AttendanceInv, RequestOK, OpenWrite
<1>3. /\ shift' \in [Employees -> [Days -> {"none", "open", "closed", "missed"}]]
      /\ \A u \in Employees, d \in Days :
           \/ shift'[u][d] = shift[u][d]
           \/ u = x.user /\ d = x.date /\ shift'[u][d] = "open"
  BY <1>1, <1>2 DEF AttendanceInv, TypeOK, OpenWrite
<1>4. req' \in [Requests -> Request] /\ \A q \in Requests : RequestOK(req'[q])
  BY Answered DEF AttendanceInv, TypeOK, OpenWrite, End
<1>5. TypeOK'
  BY <1>2, <1>3, <1>4 DEF AttendanceInv, TypeOK, OpenWrite
<1>6. DayOffIsRespected'
  <2> SUFFICES ASSUME NEW i \in DayOffs, Present(i), dayOff[i].timely
               PROVE  shift'[dayOff[i].user][dayOff[i].date] # "missed"
    BY DEF DayOffIsRespected, Present, OpenWrite
  <2>1. dayOff[i].user \in Employees /\ dayOff[i].date \in Days
    BY RowFacts DEF AttendanceInv, TypeOK, Present
  <2>2. shift[dayOff[i].user][dayOff[i].date] # "missed"
    BY DEF AttendanceInv, DayOffIsRespected
  <2>3. QED
    BY <1>3, <2>1, <2>2
<1>7. \A q \in Requests : RequestOK(req[q])'
  BY <1>4 DEF RequestOK, OpenWrite
<1>8. \A j \in Runs : RunOK(run[j])'
  BY DEF AttendanceInv, RunOK, TimelyDayOff, Present, OpenWrite
<1>9. QED
  BY <1>5, <1>6, <1>7, <1>8 DEF AttendanceInv, HiredInThePast, OpenWrite

LEMMA CloseWriteStep ==
  ASSUME AttendanceInv, NEW r \in Requests, CloseWrite(r)
  PROVE  AttendanceInv'
<1>1. PICK x \in Request : x = req[r]
  BY DEF AttendanceInv, TypeOK
<1>2. x.op = "close" /\ x.user \in Employees /\ x.date \in Days
  BY <1>1, RequestFields DEF CloseWrite
<1>3. /\ shift' \in [Employees -> [Days -> {"none", "open", "closed", "missed"}]]
      /\ \A u, d : \/ shift'[u][d] = shift[u][d]
                   \/ /\ u = x.user /\ d = x.date
                      /\ shift[u][d] = "open" /\ shift'[u][d] = "closed"
  BY <1>1, <1>2 DEF AttendanceInv, TypeOK, CloseWrite
<1>4. req' \in [Requests -> Request] /\ \A q \in Requests : RequestOK(req'[q])
  BY Answered DEF AttendanceInv, TypeOK, CloseWrite, End
<1>5. TypeOK'
  BY <1>2, <1>3, <1>4 DEF AttendanceInv, TypeOK, CloseWrite
<1>6. DayOffIsRespected'
  BY <1>3 DEF AttendanceInv, DayOffIsRespected, Present, CloseWrite
<1>7. \A q \in Requests : RequestOK(req[q])'
  BY <1>4 DEF RequestOK, CloseWrite
<1>8. \A j \in Runs : RunOK(run[j])'
  BY DEF AttendanceInv, RunOK, TimelyDayOff, Present, CloseWrite
<1>9. QED
  BY <1>5, <1>6, <1>7, <1>8 DEF AttendanceInv, HiredInThePast, CloseWrite

\* A day off that is written for a day that is not over was not recorded as
\* missed, and no run is about to record it.
LEMMA DayOffWritten ==
  ASSUME AttendanceInv, NEW r \in Requests, End(r), NEW i \in DayOffs,
         NEW row \in DayOffRow, dayOff' = [dayOff EXCEPT ![i] = row],
         row.state = "present" /\ row.timely => today <= row.date,
         UNCHANGED <<today, account, hired, shift, run, failures>>
  PROVE  AttendanceInv'
<1>1. /\ dayOff' \in [DayOffs -> DayOffRow] /\ dayOff'[i] = row
      /\ \A k \in DayOffs \ {i} : dayOff'[k] = dayOff[k]
  BY DEF AttendanceInv, TypeOK
<1>2. req' \in [Requests -> Request] /\ \A q \in Requests : RequestOK(req'[q])
  BY Answered DEF AttendanceInv, TypeOK, End
<1>3. TypeOK'
  BY <1>1, <1>2 DEF AttendanceInv, TypeOK
<1>4. row.date \in Nat /\ row.date \in Days /\ today \in Nat
  BY RowFacts, DaysAreNumbers DEF AttendanceInv, TypeOK
<1>5. ASSUME row.state = "present", row.timely
      PROVE  shift[row.user][row.date] # "missed"
  <2>1. row.user \in Employees /\ today <= row.date
    BY <1>5, RowFacts
  <2>2. QED
    BY <1>4, <2>1 DEF AttendanceInv, TypeOK
<1>6. DayOffIsRespected'
  <2> SUFFICES ASSUME NEW k \in DayOffs, dayOff'[k].state = "present", dayOff'[k].timely
               PROVE  shift[dayOff'[k].user][dayOff'[k].date] # "missed"
    BY DEF DayOffIsRespected, Present
  <2>1. CASE k = i
    BY <1>1, <1>5, <2>1
  <2>2. CASE k # i
    BY <1>1, <2>2 DEF AttendanceInv, DayOffIsRespected, Present
  <2>3. QED
    BY <2>1, <2>2
<1>7. ASSUME NEW j \in Runs PROVE RunOK(run[j])'
  <2> SUFFICES ASSUME run[j].op = "insert", NEW u \in run[j].users,
                      NEW k \in DayOffs, dayOff'[k].state = "present", dayOff'[k].timely,
                      dayOff'[k].user = u, dayOff'[k].date = run[j].date
               PROVE  FALSE
    BY DEF AttendanceInv, RunOK, TimelyDayOff, Present
  <2>1. run[j].date < today /\ ~TimelyDayOff(u, run[j].date) /\ run[j].date \in Nat
    BY RunFields, DaysAreNumbers DEF AttendanceInv, TypeOK, RunOK
  <2>2. CASE k = i
    BY <1>1, <1>4, <2>1, <2>2
  <2>3. CASE k # i
    BY <1>1, <2>1, <2>3 DEF TimelyDayOff, Present
  <2>4. QED
    BY <2>2, <2>3
<1>8. \A q \in Requests : RequestOK(req[q])'
  BY <1>2 DEF RequestOK
<1>9. QED
  BY <1>3, <1>6, <1>7, <1>8 DEF AttendanceInv, HiredInThePast

\* A write that the database refuses.
LEMMA DayOffRefused ==
  ASSUME AttendanceInv, NEW r \in Requests, End(r),
         UNCHANGED <<today, account, hired, shift, dayOff, run, failures>>
  PROVE  AttendanceInv'
<1>1. PICK x \in Request : x = Idle /\ RequestOK(x)
  BY Answered
<1>2. req' = [req EXCEPT ![r] = x]
  BY <1>1 DEF End
<1>3. QED
  BY <1>1, <1>2, RequestGoesOn

LEMMA GrantWriteStep ==
  ASSUME AttendanceInv, NEW r \in Requests, NEW i \in DayOffs, GrantWrite(r, i)
  PROVE  AttendanceInv'
<1>1. req[r].user \in Employees /\ req[r].date \in Days
  BY RequestFields DEF AttendanceInv, TypeOK, GrantWrite
<1>2. CASE HasDayOff(req[r].user, req[r].date)
  <2>1. dayOff' = dayOff
    BY <1>2 DEF AttendanceInv, TypeOK, GrantWrite
  <2>2. QED
    BY <2>1, DayOffRefused DEF GrantWrite
<1>3. CASE ~HasDayOff(req[r].user, req[r].date)
  <2>1. PICK row : row = [state |-> "present", user |-> req[r].user, date |-> req[r].date,
                          timely |-> today <= req[r].date]
    OBVIOUS
  <2>2. row \in DayOffRow
    <3>1. (today <= req[r].date) \in BOOLEAN
      OBVIOUS
    <3>2. QED
      BY <1>1, <2>1, <3>1 DEF DayOffRow
  <2>3. dayOff' = [dayOff EXCEPT ![i] = row]
    BY <1>3, <2>1 DEF GrantWrite
  <2>4. row.state = "present" /\ row.timely => today <= row.date
    BY <2>1
  <2>5. QED
    BY <2>2, <2>3, <2>4, DayOffWritten DEF GrantWrite
<1>4. QED
  BY <1>2, <1>3

LEMMA MoveWriteStep ==
  ASSUME AttendanceInv, NEW r \in Requests, MoveWrite(r)
  PROVE  AttendanceInv'
<1>1. PICK i \in DayOffs : i = req[r].id
  BY RequestFields DEF AttendanceInv, TypeOK, MoveWrite
<1>2. req[r].date \in Days
  BY RequestFields DEF AttendanceInv, TypeOK, MoveWrite
<1>3. PICK row : row = [dayOff[i] EXCEPT !.date = req[r].date,
                                         !.timely = today <= req[r].date]
  OBVIOUS
<1>4. dayOff' = dayOff \/ (Present(i) /\ dayOff' = [dayOff EXCEPT ![i] = row])
  BY <1>1, <1>3 DEF AttendanceInv, TypeOK, MoveWrite
<1>5. Present(i) => /\ row \in DayOffRow
                    /\ row.state = "present" /\ row.timely => today <= row.date
  <2>1. dayOff[i] \in DayOffRow /\ (today <= req[r].date) \in BOOLEAN
    BY DEF AttendanceInv, TypeOK
  <2>2. QED
    BY <1>2, <1>3, <2>1 DEF DayOffRow, Present
<1>6. QED
  BY <1>4, <1>5, DayOffRefused, DayOffWritten DEF MoveWrite

LEMMA WithdrawWriteStep ==
  ASSUME AttendanceInv, NEW r \in Requests, WithdrawWrite(r)
  PROVE  AttendanceInv'
<1>1. PICK i \in DayOffs : i = req[r].id
  BY RequestFields DEF AttendanceInv, TypeOK, WithdrawWrite
<1>2. PICK row : row = [dayOff[i] EXCEPT !.state = "deleted"]
  OBVIOUS
<1>3. dayOff' = dayOff \/ (Present(i) /\ dayOff' = [dayOff EXCEPT ![i] = row])
  <2>1. CASE Present(i)
    BY <1>1, <1>2, <2>1 DEF AttendanceInv, TypeOK, WithdrawWrite
  <2>2. CASE ~Present(i)
    <3>1. dayOff' = [dayOff EXCEPT ![i].state = @]
      BY <1>1, <2>2 DEF WithdrawWrite
    <3>2. dayOff[i] \in DayOffRow /\ dayOff \in [DayOffs -> DayOffRow]
      BY DEF AttendanceInv, TypeOK
    <3>3. [dayOff[i] EXCEPT !.state = @] = dayOff[i]
      BY <3>2 DEF DayOffRow
    <3>4. QED
      BY <3>1, <3>2, <3>3
  <2>3. QED
    BY <2>1, <2>2
<1>4. dayOff[i] \in DayOffRow
  BY DEF AttendanceInv, TypeOK
<1>5. Present(i) => row \in DayOffRow /\ row.state = "deleted"
  BY <1>2, <1>4 DEF DayOffRow, Present
<1>6. QED
  BY <1>3, <1>5, DayOffRefused, DayOffWritten DEF WithdrawWrite

-----------------------------------------------------------------------------
(***************************************************************************)
(* The runs of the job                                                     *)
(***************************************************************************)
LEMMA RunSelectStep ==
  ASSUME AttendanceInv, NEW j \in Runs, RunSelect(j)
  PROVE  AttendanceInv'
<1>1. PICK y \in JobRun : y = run[j]
  BY DEF AttendanceInv, TypeOK
<1>2. y.left \subseteq Days /\ failures \in 0 .. MaxFailures
  BY <1>1, RunFields DEF RunSelect, AttendanceInv, TypeOK
<1>3. PICK d \in y.left :
        run' = [run EXCEPT ![j] =
          IF d < today /\ Absent(d) # {}
          THEN [op |-> "insert", left |-> y.left \ {d}, date |-> d, users |-> Absent(d)]
          ELSE [op |-> "select", left |-> y.left \ {d}]]
  BY <1>1 DEF RunSelect
<1>4. CASE d < today /\ Absent(d) # {}
  <2>1. PICK x : x = [op |-> "insert", left |-> y.left \ {d}, date |-> d,
                      users |-> Absent(d)]
    OBVIOUS
  <2>2. x \in JobRun
    BY <1>2, <1>3, <2>1 DEF JobRun, Absent
  <2>3. \A u \in Absent(d) : /\ account[u] # "unborn" /\ hired[u] < d
                             /\ ~TimelyDayOff(u, d)
    BY DEF Absent, HasDayOff, TimelyDayOff
  <2>4. RunOK(x)
    BY <1>4, <2>1, <2>3 DEF RunOK
  <2>5. run' = [run EXCEPT ![j] = x]
    BY <1>3, <1>4, <2>1
  <2>6. QED
    BY <1>2, <2>2, <2>4, <2>5, RunGoesOn DEF RunSelect
<1>5. CASE ~(d < today /\ Absent(d) # {})
  <2>1. PICK x : x = [op |-> "select", left |-> y.left \ {d}]
    OBVIOUS
  <2>2. x \in JobRun /\ RunOK(x)
    BY <1>2, <2>1 DEF JobRun, RunOK
  <2>3. run' = [run EXCEPT ![j] = x]
    BY <1>3, <1>5, <2>1
  <2>4. QED
    BY <1>2, <2>2, <2>3, RunGoesOn DEF RunSelect
<1>6. QED
  BY <1>4, <1>5

LEMMA RunInsertStep ==
  ASSUME AttendanceInv, NEW j \in Runs, RunInsert(j)
  PROVE  AttendanceInv'
<1>1. PICK y \in JobRun : y = run[j]
  BY DEF AttendanceInv, TypeOK
<1>2. /\ y.op = "insert" /\ y.date \in Days /\ y.users \subseteq Employees
      /\ y.left \subseteq Days
  BY <1>1, RunFields DEF RunInsert
<1>3. /\ y.date < today
      /\ \A u \in y.users : /\ account[u] # "unborn" /\ hired[u] < y.date
                            /\ ~TimelyDayOff(u, y.date)
  BY <1>1, <1>2 DEF AttendanceInv, RunOK
<1>4. shift' = [u \in Employees |-> [d \in Days |->
        IF d = y.date /\ u \in y.users /\ shift[u][d] = "none"
        THEN "missed" ELSE shift[u][d]]]
  BY <1>1 DEF RunInsert
<1>5. /\ shift' \in [Employees -> [Days -> {"none", "open", "closed", "missed"}]]
      /\ \A u \in Employees, d \in Days :
           \/ shift'[u][d] = shift[u][d]
           \/ d = y.date /\ u \in y.users /\ shift'[u][d] = "missed"
  BY <1>4 DEF AttendanceInv, TypeOK
<1>6. PICK x : x = [op |-> "select", left |-> y.left]
  OBVIOUS
<1>7. x \in JobRun /\ x.op = "select" /\ run' = [run EXCEPT ![j] = x]
  BY <1>1, <1>2, <1>6 DEF JobRun, RunInsert
<1>8. run' \in [Runs -> JobRun]
  BY <1>7 DEF AttendanceInv, TypeOK
<1>9. y.date <= today /\ \A u \in y.users : hired[u] <= y.date
  <2>1. /\ y.date \in Nat /\ today \in Nat
        /\ \A u \in y.users : hired[u] \in Nat
    BY <1>2, DaysAreNumbers DEF AttendanceInv, TypeOK
  <2>2. QED
    BY <1>3, <2>1
<1>10. TypeOK'
  BY <1>3, <1>5, <1>8, <1>9 DEF AttendanceInv, TypeOK, RunInsert
<1>11. ASSUME NEW k \in Runs PROVE RunOK(run[k])'
  BY <1>7 DEF AttendanceInv, TypeOK, RunOK, TimelyDayOff, Present, RunInsert
<1>12. \A r \in Requests : RequestOK(req[r])'
  BY DEF AttendanceInv, RequestOK, RunInsert
<1>13. DayOffIsRespected'
  <2> SUFFICES ASSUME NEW i \in DayOffs, Present(i), dayOff[i].timely
               PROVE  shift'[dayOff[i].user][dayOff[i].date] # "missed"
    BY DEF DayOffIsRespected, Present, RunInsert
  <2>1. dayOff[i].user \in Employees /\ dayOff[i].date \in Days
    BY RowFacts DEF AttendanceInv, TypeOK, Present
  <2>2. shift[dayOff[i].user][dayOff[i].date] # "missed"
    BY DEF AttendanceInv, DayOffIsRespected
  <2>3. ~(dayOff[i].date = y.date /\ dayOff[i].user \in y.users)
    BY <1>3 DEF TimelyDayOff
  <2>4. QED
    BY <1>5, <2>1, <2>2, <2>3
<1>14. QED
  BY <1>10, <1>11, <1>12, <1>13 DEF AttendanceInv, HiredInThePast, RunInsert

-----------------------------------------------------------------------------
(***************************************************************************)
(* Every step keeps the invariant                                          *)
(***************************************************************************)
LEMMA ShiftSteps ==
  ASSUME AttendanceInv, NEW r \in Requests, ShiftStep(r)
  PROVE  AttendanceInv'
<1>1. ASSUME NEW u \in Employees, OpenRead(r, u) PROVE AttendanceInv'
  <2>1. PICK x : x = [op |-> "open", user |-> u]
    OBVIOUS
  <2>2. x \in Request /\ RequestOK(x)
    BY <1>1, <2>1, Requested DEF RequestOK, OpenRead
  <2>3. QED
    BY <1>1, <2>1, <2>2, RequestGoesOn DEF OpenRead, Begin
<1>2. CASE OpenDate(r)
  <2>1. PICK u : u = req[r].user
    OBVIOUS
  <2>2. PICK x : x = [op |-> "openOn", user |-> u, date |-> today]
    OBVIOUS
  <2>3. u \in Employees /\ account[u] # "unborn" /\ today \in Days
    BY <1>2, <2>1, RequestFields DEF AttendanceInv, TypeOK, RequestOK, OpenDate
  <2>4. today <= today /\ hired[u] <= today
    BY <2>3, DaysAreNumbers DEF AttendanceInv, HiredInThePast
  <2>5. x \in Request /\ RequestOK(x)
    BY <2>2, <2>3, <2>4, Requested DEF RequestOK
  <2>6. req' = [req EXCEPT ![r] = x]
    BY <1>2, <2>1, <2>2 DEF OpenDate
  <2>7. QED
    BY <1>2, <2>5, <2>6, RequestGoesOn DEF OpenDate
<1>3. CASE OpenWrite(r)
  BY <1>3, OpenWriteStep
<1>4. ASSUME NEW u \in Employees, NEW d \in Days, CloseRead(r, u, d) PROVE AttendanceInv'
  <2>1. PICK x : x = [op |-> "close", user |-> u, date |-> d]
    OBVIOUS
  <2>2. x \in Request /\ RequestOK(x)
    BY <2>1, Requested DEF RequestOK
  <2>3. QED
    BY <1>4, <2>1, <2>2, RequestGoesOn DEF CloseRead, Begin
<1>5. CASE CloseWrite(r)
  BY <1>5, CloseWriteStep
<1>6. QED
  BY <1>1, <1>2, <1>3, <1>4, <1>5 DEF ShiftStep

LEMMA DayOffSteps ==
  ASSUME AttendanceInv, NEW r \in Requests, DayOffStep(r)
  PROVE  AttendanceInv'
<1>1. ASSUME NEW u \in Employees, NEW d \in Days, GrantRead(r, u, d) PROVE AttendanceInv'
  <2>1. PICK x : x = [op |-> "grant", user |-> u, date |-> d]
    OBVIOUS
  <2>2. x \in Request /\ RequestOK(x)
    BY <2>1, Requested DEF RequestOK
  <2>3. QED
    BY <1>1, <2>1, <2>2, RequestGoesOn DEF GrantRead, Begin
<1>2. ASSUME NEW i \in DayOffs, GrantWrite(r, i) PROVE AttendanceInv'
  BY <1>2, GrantWriteStep
<1>3. ASSUME NEW i \in DayOffs, NEW d \in Days, MoveRead(r, i, d) PROVE AttendanceInv'
  <2>1. PICK x : x = [op |-> "move", id |-> i, date |-> d]
    OBVIOUS
  <2>2. x \in Request /\ RequestOK(x)
    BY <2>1, Requested DEF RequestOK
  <2>3. QED
    BY <1>3, <2>1, <2>2, RequestGoesOn DEF MoveRead, Begin
<1>4. CASE MoveWrite(r)
  BY <1>4, MoveWriteStep
<1>5. ASSUME NEW i \in DayOffs, WithdrawRead(r, i) PROVE AttendanceInv'
  <2>1. PICK x : x = [op |-> "withdraw", id |-> i]
    OBVIOUS
  <2>2. x \in Request /\ RequestOK(x)
    BY <2>1, Requested DEF RequestOK
  <2>3. QED
    BY <1>5, <2>1, <2>2, RequestGoesOn DEF WithdrawRead, Begin
<1>6. CASE WithdrawWrite(r)
  BY <1>6, WithdrawWriteStep
<1>7. QED
  BY <1>1, <1>2, <1>3, <1>4, <1>5, <1>6 DEF DayOffStep

LEMMA RunSteps ==
  ASSUME AttendanceInv, NEW j \in Runs,
         RunStart(j) \/ RunProceeds(j) \/ RunFail(j)
  PROVE  AttendanceInv'
<1>0. failures \in 0 .. MaxFailures
  BY DEF AttendanceInv, TypeOK
<1>1. Idle \in JobRun /\ RunOK(Idle)
  BY DEF JobRun, RunOK, Idle
<1>2. CASE RunStart(j)
  <2>1. PICK x : x = [op |-> "select", left |-> PastWorkingDays(today)]
    OBVIOUS
  <2>2. x \in JobRun /\ RunOK(x)
    BY <2>1 DEF JobRun, RunOK, PastWorkingDays
  <2>3. QED
    BY <1>0, <1>2, <2>1, <2>2, RunGoesOn DEF RunStart
<1>3. CASE RunSelect(j)
  BY <1>3, RunSelectStep
<1>4. CASE RunInsert(j)
  BY <1>4, RunInsertStep
<1>5. CASE RunEnd(j)
  BY <1>0, <1>1, <1>5, RunGoesOn DEF RunEnd
<1>6. CASE RunFail(j)
  <2>1. failures' \in 0 .. MaxFailures
    BY <1>0, <1>6, AttendanceAssumption DEF RunFail
  <2>2. QED
    BY <1>1, <1>6, <2>1, RunGoesOn DEF RunFail
<1>7. QED
  BY <1>2, <1>3, <1>4, <1>5, <1>6 DEF RunProceeds

LEMMA AttendanceInvStep == AttendanceInv /\ [Next]_vars => AttendanceInv'
<1> SUFFICES ASSUME AttendanceInv, [Next]_vars PROVE AttendanceInv'
  OBVIOUS
<1>1. CASE Midnight
  BY <1>1, MidnightStep
<1>2. ASSUME NEW u \in Employees, Hire(u) PROVE AttendanceInv'
  BY <1>2, HireStep
<1>3. ASSUME NEW u \in Employees, Disable(u) PROVE AttendanceInv'
  BY <1>3, DisableStep
<1>4. ASSUME NEW r \in Requests, ShiftStep(r) PROVE AttendanceInv'
  BY <1>4, ShiftSteps
<1>5. ASSUME NEW r \in Requests, DayOffStep(r) PROVE AttendanceInv'
  BY <1>5, DayOffSteps
<1>6. ASSUME NEW r \in Requests, Abandon(r) PROVE AttendanceInv'
  BY <1>6, DayOffRefused DEF Abandon
<1>7. ASSUME NEW j \in Runs, RunStart(j) \/ RunProceeds(j) \/ RunFail(j)
      PROVE  AttendanceInv'
  BY <1>7, RunSteps
<1>8. CASE UNCHANGED vars
  BY <1>8 DEF vars, AttendanceInv, TypeOK, HiredInThePast, RequestOK, RunOK,
              TimelyDayOff, Present, DayOffIsRespected
<1>9. QED
  BY <1>1, <1>2, <1>3, <1>4, <1>5, <1>6, <1>7, <1>8 DEF Next

LEMMA Invariance == Spec => []AttendanceInv
BY AttendanceInvInit, AttendanceInvStep, PTL DEF Spec

-----------------------------------------------------------------------------
(***************************************************************************)
(* The theorems                                                            *)
(***************************************************************************)

\* Types, and the days a row of Shift may be for: since the account was
\* created, never in the future, and missed only when the day is over.
THEOREM TypeCorrect == Spec => []TypeOK
<1>1. AttendanceInv => TypeOK
  BY DEF AttendanceInv
<1>2. QED
  BY <1>1, Invariance, PTL

\* A day off that was written before its day was over is never recorded as
\* missed, by any number of runs that select and insert at any time.
THEOREM TimelyDayOffCounts == Spec => []DayOffIsRespected
<1>1. AttendanceInv => DayOffIsRespected
  BY DEF AttendanceInv
<1>2. QED
  BY <1>1, Invariance, PTL

\* What RecordedDayIsFinal says of a step.
Recorded ==
  \A u \in Employees, d \in Days :
    \/ shift[u][d] = "none"
    \/ shift'[u][d] = shift[u][d]
    \/ shift[u][d] = "open" /\ shift'[u][d] = "closed"

\* The steps that write a shift, each in the presence of any row.
LEMMA ShiftsAreKept == TypeOK /\ [Next]_vars => Recorded
<1> SUFFICES ASSUME TypeOK, [Next]_vars PROVE Recorded
  OBVIOUS
<1>1. ASSUME NEW r \in Requests, OpenWrite(r) PROVE Recorded
  <2>1. PICK v, e : v = req[r].user /\ e = req[r].date
    OBVIOUS
  <2>2. shift' = [shift EXCEPT ![v][e] = IF @ = "none" THEN "open" ELSE @]
    BY <1>1, <2>1 DEF OpenWrite
  <2>3. QED
    BY <2>2 DEF Recorded, TypeOK
<1>2. ASSUME NEW r \in Requests, CloseWrite(r) PROVE Recorded
  <2>1. PICK v, e : v = req[r].user /\ e = req[r].date
    OBVIOUS
  <2>2. shift' = [shift EXCEPT ![v][e] = IF @ = "open" THEN "closed" ELSE @]
    BY <1>2, <2>1 DEF CloseWrite
  <2>3. QED
    BY <2>2 DEF Recorded, TypeOK
<1>3. ASSUME NEW j \in Runs, RunInsert(j) PROVE Recorded
  BY <1>3 DEF RunInsert, Recorded
<1>4. ASSUME NEW r \in Requests, ShiftStep(r) PROVE Recorded
  <2>1. CASE UNCHANGED shift
    BY <2>1 DEF Recorded
  <2>2. CASE OpenWrite(r) \/ CloseWrite(r)
    BY <1>1, <1>2, <2>2
  <2>3. QED
    BY <1>4, <2>1, <2>2 DEF ShiftStep, OpenRead, OpenDate, CloseRead, Begin
<1>5. ASSUME NEW r \in Requests, DayOffStep(r) \/ Abandon(r) PROVE UNCHANGED shift
  BY <1>5 DEF DayOffStep, Abandon, GrantRead, GrantWrite, MoveRead, MoveWrite,
              WithdrawRead, WithdrawWrite, Begin
<1>6. ASSUME NEW j \in Runs, RunStart(j) \/ RunProceeds(j) \/ RunFail(j) PROVE Recorded
  <2>1. CASE RunInsert(j)
    BY <1>3, <2>1
  <2>2. CASE UNCHANGED shift
    BY <2>2 DEF Recorded
  <2>3. QED
    BY <1>6, <2>1, <2>2 DEF RunStart, RunProceeds, RunSelect, RunEnd, RunFail
<1>7. ASSUME Midnight \/ (\E u \in Employees : Hire(u) \/ Disable(u)) \/ UNCHANGED vars
      PROVE  UNCHANGED shift
  BY <1>7 DEF Midnight, Hire, Disable, vars
<1>8. UNCHANGED shift => Recorded
  BY DEF Recorded
<1>9. QED
  BY <1>4, <1>5, <1>6, <1>7, <1>8 DEF Next

\* A recorded day never changes but for the closing of an open shift, under any
\* interleaving of requests and runs.
THEOREM RecordsAreFinal == Spec => RecordedDayIsFinal
<1>1. AttendanceInv /\ [Next]_vars => [Recorded]_vars
  BY ShiftsAreKept DEF AttendanceInv
<1>2. Spec => [][Recorded]_vars
  BY <1>1, Invariance, PTL DEF Spec
<1>3. [][Recorded]_vars <=> RecordedDayIsFinal
  BY DEF RecordedDayIsFinal, Recorded
<1>4. QED
  BY <1>2, <1>3, PTL
=============================================================================
