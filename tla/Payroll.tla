------------------------------ MODULE Payroll ------------------------------
(***************************************************************************)
(* PayrollService: the settings, the generation of the entries of a month, *)
(* the accountant's edits and the confirmation.                            *)
(*                                                                         *)
(* A generation takes its settings and its employees once and then, for    *)
(* each employee, counts, looks for the entry and writes, in statements of *)
(* their own.  An edit computes all amounts from the entry it read.  So    *)
(* every amount may be computed from values that are not in the row any    *)
(* more when it is written.  Months are numbered.                          *)
(***************************************************************************)
EXTENDS Integers, Money

CONSTANTS
  Employees,    \* accounts with a role of SHIFT_ROLES
  HiredIn,      \* the month each of these accounts is created in
  Generations,  \* slots of generate requests; their number is a bound
  Requests,     \* slots of edits; their number is a bound
  FineRates,    \* the fines per missed shift that may be set
  TaxRates,     \* the tax rates that may be set, in hundredths of a percent
  Bases,        \* the salaries an accountant may enter
  Fines,        \* the fines an accountant may enter
  LastMonth,    \* bound: the clock stops in this month
  MaxMissed     \* bound: missed shifts of an employee in a month

ASSUME PayrollAssumption ==
  /\ HiredIn \in [Employees -> Nat]
  /\ FineRates \subseteq Nat
  /\ TaxRates \subseteq 0 .. 10000
  /\ Bases \subseteq Nat
  /\ Fines \subseteq Nat
  /\ LastMonth \in Nat \ {0}
  /\ MaxMissed \in Nat

VARIABLES
  month,     \* periodOf(today)
  active,    \* table User: the accounts that are not disabled
  missed,    \* table Shift: the missed shifts of an employee in a month
  settings,  \* table PayrollSettings, a set of at most one row
  entry,     \* table PayrollEntry: the row of an employee and a month
  gen,       \* what each generation goes on to do
  req        \* what each edit goes on to write

vars == <<month, active, missed, settings, entry, gen, req>>

Months == 1 .. LastMonth

NoEntry == [state |-> "none"]

Amounts == [fine: Nat, tax: Nat, final: Int]

Rates == [fineRate: FineRates, taxRate: TaxRates]

Entry ==
  {NoEntry} \cup
  [state: {"draft", "confirmed"}, base: Nat, missed: Nat, rates: Rates,
   amounts: Amounts, manual: BOOLEAN]

Idle == [op |-> "idle"]

Generation ==
       {Idle}
  \cup [op: {"next"}, period: Months, rates: Rates, left: SUBSET Employees]
  \cup [op: {"find", "previous"}, period: Months, rates: Rates,
        left: SUBSET Employees, user: Employees, missed: Nat]
  \cup [op: {"create"}, period: Months, rates: Rates, left: SUBSET Employees,
        user: Employees, missed: Nat, base: Nat]
  \cup [op: {"refresh"}, period: Months, rates: Rates, left: SUBSET Employees,
        user: Employees, missed: Nat, amounts: Amounts]

Request ==
  {Idle} \cup
  [op: {"edit"}, user: Employees, period: Months, base: Nat, manual: BOOLEAN,
   amounts: Amounts]

\* The tax never exceeds the salary, whatever the rate and the rounding.
TaxWithin(base, amounts) == amounts.tax <= base

\* Types, and the amounts of every row and of every write to come
\* (computePayroll, percentOf).
TypeOK ==
  /\ month \in Months
  /\ active \subseteq Employees
  /\ missed \in [Employees -> [Months -> 0 .. MaxMissed]]
  /\ settings \subseteq Rates
  /\ entry \in [Employees -> [Months -> Entry]]
  /\ gen \in [Generations -> Generation]
  /\ req \in [Requests -> Request]
  /\ \A u \in Employees, p \in Months :
       entry[u][p] # NoEntry => TaxWithin(entry[u][p].base, entry[u][p].amounts)
  /\ \A r \in Requests : req[r] # Idle => TaxWithin(req[r].base, req[r].amounts)

Init ==
  /\ month = 1
  /\ active = Employees
  /\ missed = [u \in Employees |-> [p \in Months |-> 0]]
  /\ settings = {}
  /\ entry = [u \in Employees |-> [p \in Months |-> NoEntry]]
  /\ gen = [g \in Generations |-> Idle]
  /\ req = [r \in Requests |-> Idle]

tables == <<month, active, missed, settings, entry>>

-----------------------------------------------------------------------------
(***************************************************************************)
(* What other components do to the tables payroll reads                    *)
(***************************************************************************)

NewMonth ==
  /\ month < LastMonth
  /\ month' = month + 1
  /\ UNCHANGED <<active, missed, settings, entry, gen, req>>

Disable(u) ==
  /\ u \in active
  /\ HiredIn[u] <= month
  /\ active' = active \ {u}
  /\ UNCHANGED <<month, missed, settings, entry, gen, req>>

\* The daily job (Attendance) records a shift as missed, this month or, when
\* it catches up, a month before.  A recorded shift stays recorded.
RecordMissed(u, p) ==
  /\ u \in active
  /\ HiredIn[u] <= p /\ p <= month
  /\ missed[u][p] < MaxMissed
  /\ missed' = [missed EXCEPT ![u][p] = @ + 1]
  /\ UNCHANGED <<month, active, settings, entry, gen, req>>

-----------------------------------------------------------------------------
PutSettings(s) ==
  /\ settings' = {s}
  /\ UNCHANGED <<month, active, missed, entry, gen, req>>

ComputePayroll(base, n, rates, manual, fineOverride) ==
  LET fine == IF manual THEN fineOverride ELSE n * rates.fineRate
      tax  == PercentOf(base, rates.taxRate)
  IN [fine |-> fine, tax |-> tax, final |-> base - fine - tax]

-----------------------------------------------------------------------------
(***************************************************************************)
(* PayrollService.generate                                                 *)
(***************************************************************************)

\* Mutant: the last day of the range is the first of the next month.
MissedToNextMonth(u, p) ==
  missed[u][p] + (IF p + 1 \in Months THEN missed[u][p + 1] ELSE 0)

MissedCount(u, p) == missed[u][p]

\* Mutant: the entry of an earlier month need not be confirmed.
EarlierEntries(u, p) == {q \in Months : q < p /\ entry[u][q].state # "none"}

ConfirmedBefore(u, p) == {q \in Months : q < p /\ entry[u][q].state = "confirmed"}

\* The salary of the last of those months, 0 when there is none.
PreviousBase(u, p) ==
  LET before == ConfirmedBefore(u, p)
  IN IF before = {} THEN 0
     ELSE entry[u][CHOOSE q \in before : \A o \in before : o <= q].base

GenGoesOn(g, state) ==
  /\ gen' = [gen EXCEPT ![g] = state]
  /\ UNCHANGED req

\* The loop goes on with the next employee.
NextOf(g) == [op |-> "next", period |-> gen[g].period, rates |-> gen[g].rates,
              left |-> gen[g].left]

GenStart(g, p) ==
  /\ gen[g] = Idle
  /\ p <= month
  /\ \E s \in settings :
       GenGoesOn(g, [op |-> "next", period |-> p, rates |-> s,
                     left |-> {u \in active : HiredIn[u] <= p}])
  /\ UNCHANGED tables

GenCount(g, u) ==
  /\ gen[g].op = "next"
  /\ u \in gen[g].left
  /\ GenGoesOn(g, [op |-> "find", period |-> gen[g].period, rates |-> gen[g].rates,
                   left |-> gen[g].left \ {u}, user |-> u,
                   missed |-> MissedCount(u, gen[g].period)])
  /\ UNCHANGED tables

GenFind(g) ==
  /\ gen[g].op = "find"
  /\ LET s == gen[g]
         e == entry[s.user][s.period]
     IN \/ /\ e.state = "confirmed"
           /\ GenGoesOn(g, NextOf(g))
        \/ /\ e.state = "none"
           /\ GenGoesOn(g, [s EXCEPT !.op = "previous"])
        \/ /\ e.state = "draft"
           /\ GenGoesOn(g, [op |-> "refresh", period |-> s.period, rates |-> s.rates,
                            left |-> s.left, user |-> s.user, missed |-> s.missed,
                            amounts |-> ComputePayroll(e.base, s.missed, s.rates,
                                                       e.manual, e.amounts.fine)])
  /\ UNCHANGED tables

GenPrevious(g) ==
  /\ gen[g].op = "previous"
  /\ LET s == gen[g]
     IN GenGoesOn(g, [op |-> "create", period |-> s.period, rates |-> s.rates,
                      left |-> s.left, user |-> s.user, missed |-> s.missed,
                      base |-> PreviousBase(s.user, s.period)])
  /\ UNCHANGED tables

\* The unique key on user and period refuses a second row, and generate
\* takes that refusal (P2002) for success.
GenCreate(g) ==
  /\ gen[g].op = "create"
  /\ LET s == gen[g]
     IN entry' = [entry EXCEPT ![s.user][s.period] =
          IF @ # NoEntry THEN @
          ELSE [state |-> "draft", base |-> s.base, missed |-> s.missed,
                rates |-> s.rates, manual |-> FALSE,
                amounts |-> ComputePayroll(s.base, s.missed, s.rates, FALSE, 0)]]
  /\ GenGoesOn(g, NextOf(g))
  /\ UNCHANGED <<month, active, missed, settings>>

\* Mutant: the table has no such CHECK.
AnyRow(base, amounts) == TRUE

\* The CHECK PayrollEntry_final_formula.
FinalFormula(base, amounts) == amounts.final = base - amounts.fine - amounts.tax

\* Mutant: the update has no condition on the status.
RefreshAnyway(g) ==
  /\ gen[g].op = "refresh"
  /\ LET s == gen[g]
     IN /\ FinalFormula(entry[s.user][s.period].base, s.amounts)
        /\ entry' = [entry EXCEPT ![s.user][s.period] =
             [@ EXCEPT !.missed = s.missed, !.rates = s.rates, !.amounts = s.amounts]]
        /\ GenGoesOn(g, NextOf(g))
  /\ UNCHANGED <<month, active, missed, settings>>

\* The salary and the flag of the row are not written: when an edit has given
\* it another salary in between, the CHECK refuses the row and the request
\* fails with employees left.
GenRefresh(g) ==
  /\ gen[g].op = "refresh"
  /\ LET s == gen[g]
         e == entry[s.user][s.period]
     IN \/ /\ e.state = "confirmed"
           /\ GenGoesOn(g, NextOf(g))
           /\ UNCHANGED entry
        \/ /\ e.state = "draft"
           /\ FinalFormula(e.base, s.amounts)
           /\ entry' = [entry EXCEPT ![s.user][s.period] =
                [@ EXCEPT !.missed = s.missed, !.rates = s.rates, !.amounts = s.amounts]]
           /\ GenGoesOn(g, NextOf(g))
        \/ /\ e.state = "draft"
           /\ ~FinalFormula(e.base, s.amounts)
           /\ GenGoesOn(g, Idle)
           /\ UNCHANGED entry
  /\ UNCHANGED <<month, active, missed, settings>>

\* All employees are done, or a statement fails or the process stops.
GenEnd(g) ==
  /\ gen[g] # Idle
  /\ GenGoesOn(g, Idle)
  /\ UNCHANGED tables

-----------------------------------------------------------------------------
(***************************************************************************)
(* PayrollService.update and confirm                                       *)
(***************************************************************************)

\* Both fields of the form are optional: a salary or a fine that is not given
\* keeps what the entry that was read had, and a fine once given stays manual.
EditRead(r, u, p) ==
  /\ req[r] = Idle
  /\ entry[u][p].state = "draft"
  /\ LET e == entry[u][p]
     IN \E base \in Bases \cup {e.base},
           override \in {[manual |-> e.manual, fine |-> e.amounts.fine]}
                          \cup [manual: {TRUE}, fine: Fines] :
          req' = [req EXCEPT ![r] =
            [op |-> "edit", user |-> u, period |-> p, base |-> base,
             manual |-> override.manual,
             amounts |-> ComputePayroll(base, e.missed, e.rates,
                                        override.manual, override.fine)]]
  /\ UNCHANGED <<month, active, missed, settings, entry, gen>>

EditWrite(r) ==
  /\ req[r].op = "edit"
  /\ LET q == req[r]
     IN entry' = [entry EXCEPT ![q.user][q.period] =
          IF @.state = "draft"
          THEN [@ EXCEPT !.base = q.base, !.manual = q.manual, !.amounts = q.amounts]
          ELSE @]
  /\ req' = [req EXCEPT ![r] = Idle]
  /\ UNCHANGED <<month, active, missed, settings, gen>>

EditFail(r) ==
  /\ req[r] # Idle
  /\ req' = [req EXCEPT ![r] = Idle]
  /\ UNCHANGED <<month, active, missed, settings, entry, gen>>

\* The read before this update only tells a missing row, and no row is deleted.
Confirm(u, p) ==
  /\ entry[u][p].state = "draft"
  /\ entry' = [entry EXCEPT ![u][p].state = "confirmed"]
  /\ UNCHANGED <<month, active, missed, settings, gen, req>>

-----------------------------------------------------------------------------
GenStep(g) ==
  \/ \E p \in Months : GenStart(g, p)
  \/ \E u \in Employees : GenCount(g, u)
  \/ GenFind(g) \/ GenPrevious(g) \/ GenCreate(g) \/ GenRefresh(g)
  \/ GenEnd(g)

EditStep(r) ==
  \/ \E u \in Employees, p \in Months : EditRead(r, u, p)
  \/ EditWrite(r) \/ EditFail(r)

Next ==
  \/ NewMonth
  \/ \E u \in Employees : Disable(u)
  \/ \E u \in Employees, p \in Months : RecordMissed(u, p) \/ Confirm(u, p)
  \/ \E s \in Rates : PutSettings(s)
  \/ \E g \in Generations : GenStep(g)
  \/ \E r \in Requests : EditStep(r)

Spec == Init /\ [][Next]_vars

-----------------------------------------------------------------------------
(***************************************************************************)
(* Properties                                                              *)
(***************************************************************************)

Exists(u, p) == entry[u][p] # NoEntry

\* What an employee is paid is the salary of the row less its fine and its tax,
\* also when a generation wrote amounts it computed from a salary that an edit
\* has replaced since (generate, update, the CHECK on the table).
FinalIsExact ==
  \A u \in Employees, p \in Months : Exists(u, p) =>
    LET e == entry[u][p]
    IN e.amounts.final = e.base - e.amounts.fine - e.amounts.tax

\* The count an entry goes by, however old, is of shifts that were missed in its
\* own month (missedCount, generate).
FinedForOwnMonth ==
  \A u \in Employees, p \in Months : Exists(u, p) =>
    entry[u][p].missed <= missed[u][p]

\* No rate and no rounding takes more tax than there is salary (percentOf).
TaxIsWithinSalary ==
  \A u \in Employees, p \in Months :
    Exists(u, p) => TaxWithin(entry[u][p].base, entry[u][p].amounts)

\* All three: an entry is exact in what it pays, in what it counts and in its tax.
EntriesAreExact == FinalIsExact /\ FinedForOwnMonth /\ TaxIsWithinSalary

\* A new entry has no salary, or that of a confirmed entry of the employee in an
\* earlier month as it is when the new one appears, and not that of a draft which
\* was edited after it was looked up (generate).
SalaryIsCarriedOver ==
  [][\A u \in Employees, p \in Months :
       ~Exists(u, p) /\ entry'[u][p] # NoEntry =>
         \/ entry'[u][p].base = 0
         \/ \E q \in Months :
              /\ q < p
              /\ entry[u][q].state = "confirmed"
              /\ entry[u][q].base = entry'[u][p].base]_vars

\* A confirmed entry never changes: neither a generation nor an edit that read
\* it as a draft touches it (generate, update, confirm).
ConfirmedIsFinal ==
  [][\A u \in Employees, p \in Months :
       entry[u][p].state = "confirmed" => entry'[u][p] = entry[u][p]]_vars
=============================================================================
