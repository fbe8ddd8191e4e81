------------------------------ MODULE Dashboard ------------------------------
(***************************************************************************)
(* What the managers of the company are shown: the summary on the home     *)
(* page of the Director and the investors, the analytics of the sellers,   *)
(* and the sales report of a day.  The server reads several tables, one    *)
(* statement each and none of them in a transaction, adds up, and answers; *)
(* the frontend refuses an answer that is not of the form it expects, and  *)
(* draws the others (DashboardService, ReportsService, parse.ts,           *)
(* dashboardCharts.ts).  Of a behaviour one of the three is looked at.     *)
(*                                                                         *)
(* All rows are of the period that is asked for.  Every area and every     *)
(* price is 1, so that a sum over rows is their number; amounts of         *)
(* operations and of the payroll are in whole som.                         *)
(***************************************************************************)
EXTENDS FiniteSets, FiniteSetsExt, Functions, Integers

CONSTANTS
  Sellers,     \* who has at most one row in each of the tables
  Operations,  \* identifiers of rows of Transaction
  Amounts,     \* amounts of operations
  Base, Fine,  \* a salary, and the fine for a missed shift
  Thousand,    \* 1000: amounts from here on have a short form
  MaxChanges   \* how often a row changes; a bound

VARIABLES
  view,       \* "summary", "analytics" or "sales"
  table,      \* the tables: booking, contract, entry (of the payroll) and shift
              \* by seller, those with a day off, those not disabled, operation
  got,        \* what the statements of the request have found
  screen,     \* "pending", "failed", "refused" (by the parser), "page"
  response,   \* the answer that is on the page
  changes,
  early       \* history: who had opened a shift when the request began

vars == <<view, table, got, screen, response, changes, early>>

BookingStatus == {"active", "converted", "cancelled"}
ContractStatus == {"draft", "deposit_paid", "signed"}
Categories == {"sale_deposit", "other_income", "payroll"}

\* INCOME_CATEGORIES
CategoryType(c) == IF c = "payroll" THEN "expense" ELSE "income"

\* CHECK "Transaction_type_category"
OperationAccepted(row) == row.type = CategoryType(row.category)

NoOperation == [type |-> "none", category |-> "none", amount |-> 0]
OperationRows ==
  {row \in [type: {"income", "expense"}, category: Categories, amount: Amounts] :
     OperationAccepted(row)}

\* computePayroll, for a month with or without a missed shift: nothing keeps the
\* final amount from being negative.
FinalAmount(missed) == Base - missed * Fine
EntryRows ==
  [status: {"draft", "confirmed"}, final: {FinalAmount(missed) : missed \in 0 .. 1}]

-----------------------------------------------------------------------------
(* The server                                                              *)

ByStatus(column, statuses) ==
  [st \in statuses |-> Cardinality({s \in Sellers : column[s] = st})]

\* AccountingService.summary: the totals by the type of the rows, the
\* breakdown by category, with a type of its own.
AccountingSummary ==
  LET amount == [o \in Operations |-> table.operation[o].amount]
      OfType(type) == {o \in Operations : table.operation[o].type = type}
      OfCategory(c) == {o \in Operations : table.operation[o].category = c}
      Total(type) == SumFunctionOnSet(amount, OfType(type))
  IN [income     |-> Total("income"),
      expense    |-> Total("expense"),
      net        |-> Total("income") - Total("expense"),
      byCategory |->
        [c \in Categories |->
           [type |-> CategoryType(c), count |-> Cardinality(OfCategory(c)),
            amount |-> SumFunctionOnSet(amount, OfCategory(c))]]]

\* The statements of a request, and which others a statement waits for.
Statements ==
  CASE view = "summary"   -> {"bookings", "contracts", "deposits", "payroll", "missed", "accounting"}
    [] view = "analytics" -> {"sellers", "users", "bookingsOf", "signedOf", "shiftsOf", "dayOffsOf"}
    [] view = "sales"     -> {"bookings", "contracts", "deposits", "team", "shiftsOf", "dayOffsOf"}

After(q) ==
  CASE view = "analytics" /\ q # "sellers"               -> {"sellers"}
    [] view = "sales" /\ q = "team"                      -> {"bookings", "contracts", "deposits"}
    [] view = "sales" /\ q \in {"shiftsOf", "dayOffsOf"} -> {"team"}
    [] OTHER                                             -> {}

Members == IF view = "sales" THEN got["team"] ELSE got["sellers"]

\* Mutant: only those who are still active.
FindUsersActive == Members \cap table.active

\* The employees of the analytics, by their identifiers.
FindUsers == Members

\* Who has opened a shift, worked or works.
OpenedShift(s) == table.shift[s] \in {"open", "closed"}

Found(q) ==
  CASE q = "bookings"   -> ByStatus(table.booking, BookingStatus)
    [] q = "contracts"  -> ByStatus(table.contract, ContractStatus)
    [] q = "deposits"   -> Cardinality({s \in Sellers : table.contract[s] \in {"deposit_paid", "signed"}})
    [] q = "payroll"    -> SumFunctionOnSet([s \in Sellers |-> table.entry[s].final],
                                            {s \in Sellers : table.entry[s].status = "confirmed"})
    [] q = "missed"     -> Cardinality({s \in Sellers : table.shift[s] = "missed"})
    [] q = "accounting" -> AccountingSummary
    [] q \in {"sellers", "team"} -> table.active
    [] q = "users"      -> FindUsers
    [] q = "bookingsOf" -> {s \in Members : table.booking[s] # "none"}
    [] q = "signedOf"   -> {s \in Members : table.contract[s] = "signed"}
    [] q = "shiftsOf"   -> [s \in Members |-> table.shift[s]]
    [] q = "dayOffsOf"  -> table.dayOff \cap Members

\* DashboardService.summary
Summary ==
  [bookings |-> got["bookings"], contracts |-> got["contracts"],
   deposits |-> got["deposits"], payroll |-> got["payroll"],
   missed |-> got["missed"], accounting |-> got["accounting"]]

\* DashboardService.salesAnalytics
SalesAnalytics ==
  LET One(P) == IF P THEN 1 ELSE 0
  IN [totals |-> [booked |-> Cardinality(got["bookingsOf"]), sold |-> Cardinality(got["signedOf"])],
      perManager |->
        [s \in got["users"] |->
           [bookings |-> One(s \in got["bookingsOf"]), signed |-> One(s \in got["signedOf"]),
            worked |-> One(got["shiftsOf"][s] \in {"open", "closed"}),
            missed |-> One(got["shiftsOf"][s] = "missed"), dayOffs |-> One(s \in got["dayOffsOf"])]]]

\* ReportsService.salesContent
SalesContent ==
  LET opened == {s \in got["team"] : got["shiftsOf"][s] \notin {"none", "missed"}}
  IN [bookings |-> got["bookings"], contracts |-> got["contracts"], deposits |-> got["deposits"],
      teamSize |-> Cardinality(got["team"]), opened |-> Cardinality(opened),
      onDayOff |-> Cardinality(got["dayOffsOf"]),
      notOpened |-> got["team"] \ (opened \cup got["dayOffsOf"])]

Answer ==
  CASE view = "summary"   -> Summary
    [] view = "analytics" -> SalesAnalytics
    [] view = "sales"     -> SalesContent

-----------------------------------------------------------------------------
(* The frontend                                                            *)

\* The patterns of money: no sign, unless it is expected.
Money(amount) == amount >= 0

\* The reader called financial: the balance alone may have a sign.
AcceptsAccounting(a) ==
  /\ Money(a.income) /\ Money(a.expense)
  /\ \A c \in Categories : Money(a.byCategory[c].amount)

\* readDashboard, which refuses the answer as a whole.
AcceptsSummary(r) ==
  Money(r.deposits) /\ Money(r.payroll) /\ AcceptsAccounting(r.accounting)

Accepts(r) == view = "summary" => AcceptsSummary(r)

\* The categories of S by falling amount, equal amounts in some order.
IsByAmount(bars, S, amount) ==
  /\ bars \in [1 .. Cardinality(S) -> S] /\ IsInjective(bars)
  /\ \A i, j \in DOMAIN bars : i < j => amount[bars[i]] >= amount[bars[j]]

\* accountingCategoryBarItems: a bar for every category that occurs.
CategoryBars(byCategory) ==
  LET shown == {c \in Categories : byCategory[c].count > 0}
      amount == [c \in shown |-> byCategory[c].amount]
  IN CHOOSE bars \in [1 .. Cardinality(shown) -> shown] : IsByAmount(bars, shown, amount)

NoShortForm == [sign |-> 1, tenths |-> 0, unit |-> 0]

\* Mutant: rounds to the nearest tenth.
FormatCompactSomRounded(amount) ==
  LET size == IF amount < 0 THEN -amount ELSE amount
      units == {u \in {Thousand, Thousand * Thousand, Thousand * Thousand * Thousand} : u <= size}
  IN IF units = {} THEN NoShortForm
     ELSE [sign |-> IF amount < 0 THEN -1 ELSE 1,
           tenths |-> (size * 10 + Max(units) \div 2) \div Max(units), unit |-> Max(units)]

\* formatCompactSom: cut off after the first decimal of the largest unit.
FormatCompactSom(amount) ==
  LET size == IF amount < 0 THEN -amount ELSE amount
      units == {u \in {Thousand, Thousand * Thousand, Thousand * Thousand * Thousand} : u <= size}
  IN IF units = {} THEN NoShortForm
     ELSE [sign |-> IF amount < 0 THEN -1 ELSE 1,
           tenths |-> (size * 10) \div Max(units), unit |-> Max(units)]

\* donutBalanceInput and dashboardKpis
Donut(d) ==
  [income |-> d.accounting.income, expense |-> d.accounting.expense,
   net |-> d.accounting.net, compact |-> FormatCompactSom(d.accounting.net)]

-----------------------------------------------------------------------------
(* What the rest of the system does to the tables.                         *)

Write(tables) ==
  /\ changes < MaxChanges
  /\ changes' = changes + 1
  /\ table' = tables
  /\ UNCHANGED <<view, got, screen, response, early>>

Sell(s) ==
  \/ \E st \in BookingStatus : Write([table EXCEPT !.booking[s] = st])
  \/ \E st \in ContractStatus : Write([table EXCEPT !.contract[s] = st])

Pay(s) ==
  /\ table.entry[s].status # "confirmed"
  /\ \E row \in EntryRows : Write([table EXCEPT !.entry[s] = row])

Attend(s) ==
  \/ \E st \in {"open", "closed", "missed"} :
       /\ table.shift[s] = "none" \/ (table.shift[s] = "open" /\ st = "closed")
       /\ Write([table EXCEPT !.shift[s] = st])
  \/ \E off \in {table.dayOff \cup {s}, table.dayOff \ {s}} :
       Write([table EXCEPT !.dayOff = off])

Disable(s) == Write([table EXCEPT !.active = @ \ {s}])

Account(o) ==
  \E row \in OperationRows \cup {NoOperation} : Write([table EXCEPT !.operation[o] = row])

-----------------------------------------------------------------------------
(* A request.                                                              *)

\* A statement of the request; those that wait for nothing run side by side.
Find(q) ==
  /\ screen = "pending" /\ q \notin DOMAIN got
  /\ After(q) \subseteq DOMAIN got
  /\ got' = [p \in DOMAIN got \cup {q} |-> IF p = q THEN Found(q) ELSE got[p]]
  /\ UNCHANGED <<view, table, screen, response, changes, early>>

\* The answer reaches the screen.
Show ==
  /\ screen = "pending" /\ DOMAIN got = Statements
  /\ IF Accepts(Answer)
       THEN screen' = "page" /\ response' = Answer
       ELSE screen' = "refused" /\ UNCHANGED response
  /\ UNCHANGED <<view, table, got, changes, early>>

\* A statement or the network fails; no request is repeated by itself.
Fail ==
  /\ screen = "pending"
  /\ screen' = "failed"
  /\ UNCHANGED <<view, table, got, response, changes, early>>

Nothing == [q \in {} |-> 0]
OpenedBy == {s \in Sellers : OpenedShift(s)}

\* "Try again", or the page is opened anew.
Refetch ==
  /\ screen # "pending"
  /\ screen' = "pending" /\ got' = Nothing /\ response' = Nothing
  /\ early' = OpenedBy
  /\ UNCHANGED <<view, table, changes>>

Init ==
  /\ view \in {"summary", "analytics", "sales"}
  /\ table =
       [booking   |-> [s \in Sellers |-> "none"], contract |-> [s \in Sellers |-> "none"],
        entry     |-> [s \in Sellers |-> [status |-> "none", final |-> 0]],
        shift     |-> [s \in Sellers |-> "none"], dayOff |-> {}, active |-> Sellers,
        operation |-> [o \in Operations |-> NoOperation]]
  /\ got = Nothing /\ screen = "pending" /\ response = Nothing
  /\ changes = 0 /\ early = {}

Next ==
  \/ \E s \in Sellers : Sell(s) \/ Pay(s) \/ Attend(s) \/ Disable(s)
  \/ \E o \in Operations : Account(o)
  \/ Show \/ Fail \/ Refetch
  \/ \E q \in Statements : Find(q)

Spec == Init /\ [][Next]_vars

-----------------------------------------------------------------------------

\* What is drawn together agrees, whatever changes between the statements:
\* the categories add up to the ring and its centre and come by falling amount,
\* the short form of an amount is the amount without what is below a tenth of
\* its unit (AccountingService.summary, accountingCategoryBarItems,
\* formatCompactSom); and the totals of the sellers are the sums of their rows
\* (salesAnalytics).
FiguresAgree ==
  screen = "page" =>
    CASE view = "summary" ->
           LET donut == Donut(response)
               byCategory == response.accounting.byCategory
               bars == CategoryBars(byCategory)
               Drawn(type) ==
                 SumFunctionOnSet([i \in DOMAIN bars |-> byCategory[bars[i]].amount],
                                  {i \in DOMAIN bars : byCategory[bars[i]].type = type})
               short == donut.compact
           IN /\ donut.income = Drawn("income") /\ donut.expense = Drawn("expense")
              /\ donut.net = Drawn("income") - Drawn("expense")
              /\ \A i, j \in DOMAIN bars :
                   i < j => byCategory[bars[i]].amount >= byCategory[bars[j]].amount
              /\ short # NoShortForm =>
                   LET exact == donut.net * short.sign * 10
                   IN exact \in short.tenths * short.unit .. (short.tenths + 1) * short.unit - 1
      [] view = "analytics" ->
           LET rows == response.perManager
           IN /\ response.totals.booked = SumFunction([s \in DOMAIN rows |-> rows[s].bookings])
              /\ response.totals.sold = SumFunction([s \in DOMAIN rows |-> rows[s].signed])
      [] view = "sales" -> TRUE

\* Nobody is reported for not opening a shift that was open before the report
\* was asked for, though the team, the shifts and the days off are read by
\* statements of their own (salesContent).
NotOpenedIsTrue ==
  view = "sales" /\ screen = "page" => response.notOpened \cap early = {}

\* The parser refuses no summary but one in which the confirmed pay is negative,
\* which computePayroll does not prevent and readDashboard does not expect.
OnlyDebtIsRefused == screen = "refused" => view = "summary" /\ got["payroll"] < 0
=============================================================================
