--------------------------- MODULE PayrollProofs ---------------------------
(***************************************************************************)
(* Proofs about Payroll, for any number of employees, generations and      *)
(* edits in flight, any months, salaries, fines and rates.                 *)
(***************************************************************************)
EXTENDS Payroll, WellFoundedInduction, TLAPS

-----------------------------------------------------------------------------
(***************************************************************************)
(* Arithmetic                                                              *)
(***************************************************************************)

\* A tax of at most 100 percent is never more than the amount, for all that its
\* half tyiyn are rounded up (percentOf).
LEMMA PercentIsWithin ==
  ASSUME NEW amount \in Nat, NEW rate \in Nat, rate <= 10000
  PROVE  PercentOf(amount, rate) \in Nat /\ PercentOf(amount, rate) <= amount
<1> DEFINE product == amount * rate
<1>1. product \in Nat /\ product <= amount * 10000
  OBVIOUS
<1>2. PercentOf(amount, rate) = (product * 2 + 10000) \div 20000
  BY DEF PercentOf, MulDivRoundHalfUp
<1> HIDE DEF product
<1>3. QED
  BY <1>1, <1>2

\* The amounts computed from any salary, count and rates.
LEMMA ComputedAmounts ==
  ASSUME NEW base \in Nat, NEW n \in Nat, NEW rates \in Rates, NEW manual \in BOOLEAN,
         NEW fine \in Nat
  PROVE  LET amounts == ComputePayroll(base, n, rates, manual, fine)
         IN /\ amounts \in Amounts
            /\ TaxWithin(base, amounts)
            /\ FinalFormula(base, amounts)
<1>1. rates.fineRate \in Nat /\ rates.taxRate \in Nat /\ rates.taxRate <= 10000
  <2>1. \A x \in FineRates : x \in Nat
    BY PayrollAssumption
  <2>2. \A x \in TaxRates : x \in Nat /\ x <= 10000
    BY PayrollAssumption
  <2>3. rates.fineRate \in FineRates /\ rates.taxRate \in TaxRates
    BY DEF Rates
  <2>4. QED
    BY <2>1, <2>2, <2>3
<1>2. PICK rate \in Nat : rate = rates.taxRate /\ rate <= 10000
  BY <1>1
<1>3. rate <= 10000
  BY <1>2
<1>4. PercentOf(base, rate) \in Nat /\ PercentOf(base, rate) <= base
  BY <1>3, PercentIsWithin
<1> DEFINE paid == IF manual THEN fine ELSE n * rates.fineRate
           tax  == PercentOf(base, rate)
           amounts == [fine |-> paid, tax |-> tax, final |-> base - paid - tax]
<1>5. paid \in Nat
  BY <1>1
<1>6. ComputePayroll(base, n, rates, manual, fine) = amounts
  BY <1>2 DEF ComputePayroll
<1>7. tax \in Nat /\ tax <= base
  BY <1>4
<1> HIDE DEF paid, tax
<1>8. /\ amounts \in Amounts
      /\ amounts.fine = paid /\ amounts.tax = tax /\ amounts.final = base - paid - tax
  BY <1>5, <1>7 DEF Amounts
<1> HIDE DEF amounts
<1>9. QED
  BY <1>6, <1>7, <1>8 DEF TaxWithin, FinalFormula

LEMMA LessIsWellFounded == IsWellFoundedOn({ss \in Nat \X Nat : ss[1] < ss[2]}, Nat)
<1>1. OpToRel(<, Nat) = {ss \in Nat \X Nat : ss[1] < ss[2]}
  BY Zenon DEF OpToRel
<1>2. QED
  BY <1>1, NatLessThanWellFounded, Zenon

\* A set of months that is not empty has a last one (the orderBy of generate).
LEMMA LastIsThere ==
  ASSUME NEW S, S \subseteq Months, S # {}
  PROVE  (CHOOSE q \in S : \A o \in S : o <= q) \in S
<1> DEFINE Less == {ss \in Nat \X Nat : ss[1] < ss[2]}
           T == {LastMonth - q : q \in S}
<1>1. LastMonth \in Nat /\ \A q \in S : q \in Nat /\ q <= LastMonth
  BY PayrollAssumption DEF Months
<1>2. \A q \in S : LastMonth - q \in Nat
  BY <1>1
<1>3. T \subseteq Nat
  BY <1>2
<1>4. PICK s : s \in S
  OBVIOUS
<1>5. LastMonth - s \in T
  BY <1>4
<1>6. \A x \in T : \E q \in S : x = LastMonth - q
  OBVIOUS
<1>7. \A o \in S : LastMonth - o \in T
  OBVIOUS
<1>8. \A y \in Nat, z \in Nat : y < z => <<y, z>> \in Less
  OBVIOUS
<1>9. IsWellFoundedOn(Less, Nat)
  BY LessIsWellFounded
<1> HIDE DEF Less, T
<1>10. PICK x \in T : \A y \in T : <<y, x>> \notin Less
  BY <1>3, <1>5, <1>9, WFMin
<1>11. \A y \in T : ~(y < x)
  BY <1>3, <1>8, <1>10
<1>12. PICK q \in S : x = LastMonth - q
  BY <1>6
<1>13. \A o \in S : ~(LastMonth - o < LastMonth - q)
  BY <1>7, <1>11, <1>12
<1>14. \A o \in S : o <= q
  BY <1>1, <1>13
<1>15. \E z \in S : \A o \in S : o <= z
  BY <1>14
<1>16. QED
  BY <1>15

-----------------------------------------------------------------------------
(***************************************************************************)
(* Types                                                                   *)
(***************************************************************************)

LEMMA IdleIsTyped == Idle \in Generation /\ Idle \in Request
BY DEF Generation, Request

\* What a generation remembers, by the statement it is about to issue.
LEMMA GenerationFields ==
  ASSUME NEW x \in Generation
  PROVE  /\ x # Idle => /\ x.op # "idle"
                       /\ x.period \in Months /\ x.rates \in Rates
                       /\ x.left \in SUBSET Employees
         /\ x.op \in {"find", "previous", "create", "refresh"} =>
              x.user \in Employees /\ x.missed \in Nat
         /\ x.op = "create" => x.base \in Nat
         /\ x.op = "refresh" => x.amounts \in Amounts
BY DEF Generation, Idle

LEMMA RequestFields ==
  ASSUME NEW x \in Request, x # Idle
  PROVE  /\ x.op = "edit" /\ x.user \in Employees /\ x.period \in Months
         /\ x.base \in Nat /\ x.manual \in BOOLEAN /\ x.amounts \in Amounts
BY DEF Request

LEMMA EntryFields ==
  ASSUME NEW x \in Entry
  PROVE  /\ x.state = "none" <=> x = NoEntry
         /\ x # NoEntry =>
              /\ x.state \in {"draft", "confirmed"}
              /\ x.base \in Nat /\ x.missed \in Nat /\ x.rates \in Rates
              /\ x.amounts \in Amounts /\ x.manual \in BOOLEAN
BY DEF Entry, NoEntry

-----------------------------------------------------------------------------
(***************************************************************************)
(* The invariant.  What a handler has read may have changed by the time it *)
(* writes; what follows is what stays true of it.                          *)
(***************************************************************************)

\* A row pays what it says and counts no shift of another month.
RowIsRight(row, u, p) ==
  row # NoEntry =>
    /\ TaxWithin(row.base, row.amounts)
    /\ FinalFormula(row.base, row.amounts)
    /\ row.missed <= missed[u][p]

\* The count of a generation was true of its month, and counts only grow.
CountIsRight(x) ==
  x.op \in {"find", "previous", "create", "refresh"} =>
    x.missed <= missed[x.user][x.period]

\* The amounts of a generation are those of some salary, which the CHECK
\* compares with the one of the row.
RefreshIsRight(x) ==
  x.op = "refresh" =>
    \E base \in Nat : TaxWithin(base, x.amounts) /\ FinalFormula(base, x.amounts)

\* The salary it will carry over is that of a confirmed entry.
CarriedFrom(base, u, p) ==
  \/ base = 0
  \/ \E q \in Months :
       q < p /\ entry[u][q].state = "confirmed" /\ entry[u][q].base = base

CreateIsRight(x) == x.op = "create" => CarriedFrom(x.base, x.user, x.period)

GenerationIsRight(x) == CountIsRight(x) /\ RefreshIsRight(x) /\ CreateIsRight(x)

EditIsRight(x) ==
  x # Idle => TaxWithin(x.base, x.amounts) /\ FinalFormula(x.base, x.amounts)

Types ==
  /\ month \in Months
  /\ active \subseteq Employees
  /\ missed \in [Employees -> [Months -> 0 .. MaxMissed]]
  /\ settings \subseteq Rates
  /\ entry \in [Employees -> [Months -> Entry]]
  /\ gen \in [Generations -> Generation]
  /\ req \in [Requests -> Request]

PayrollInv ==
  /\ Types
  /\ \A u \in Employees, p \in Months : RowIsRight(entry[u][p], u, p)
  /\ \A g \in Generations : GenerationIsRight(gen[g])
  /\ \A r \in Requests : EditIsRight(req[r])

\* What every step does: a count never shrinks, a confirmed entry never changes,
\* and what is new is right.
StepIsRight ==
  /\ Types'
  /\ \A u \in Employees, p \in Months : missed[u][p] <= missed'[u][p]
  /\ \A u \in Employees, p \in Months :
       \/ entry'[u][p] = entry[u][p]
       \/ /\ entry[u][p].state # "confirmed"
          /\ RowIsRight(entry'[u][p], u, p)
          /\ entry[u][p] = NoEntry => CarriedFrom(entry'[u][p].base, u, p)
  /\ \A g \in Generations : gen'[g] = gen[g] \/ GenerationIsRight(gen'[g])
  /\ \A r \in Requests : req'[r] = req[r] \/ EditIsRight(req'[r])

LEMMA InvInit == Init => PayrollInv
<1> SUFFICES ASSUME Init PROVE PayrollInv
  OBVIOUS
<1>1. 1 \in Months
  BY PayrollAssumption DEF Months
<1>2. 0 \in 0 .. MaxMissed
  BY PayrollAssumption
<1>3. Types
  BY <1>1, <1>2, IdleIsTyped DEF Init, Types, Entry
<1>4. QED
  BY <1>3 DEF Init, PayrollInv, RowIsRight, GenerationIsRight, CountIsRight, RefreshIsRight,
              CreateIsRight, EditIsRight, Idle

LEMMA InvPreserved ==
  ASSUME PayrollInv, StepIsRight PROVE PayrollInv'
<1>1. \A u \in Employees, p \in Months :
        missed[u][p] \in Nat /\ missed'[u][p] \in Nat /\ missed[u][p] <= missed'[u][p]
  BY DEF PayrollInv, Types, StepIsRight
<1>2. ASSUME NEW u \in Employees, NEW p \in Months PROVE RowIsRight(entry[u][p], u, p)'
  <2>1. PICK row \in Entry : row = entry'[u][p]
    BY DEF StepIsRight, Types
  <2>2. RowIsRight(row, u, p)
    BY <2>1 DEF PayrollInv, StepIsRight
  <2>3. row # NoEntry => row.missed \in Nat
    BY <2>1, EntryFields
  <2>4. QED
    BY <1>1, <2>1, <2>2, <2>3 DEF RowIsRight
<1>3. ASSUME NEW g \in Generations PROVE GenerationIsRight(gen[g])'
  <2>1. PICK x \in Generation : x = gen'[g]
    BY DEF StepIsRight, Types
  <2>2. GenerationIsRight(x)
    BY <2>1 DEF PayrollInv, StepIsRight
  <2>3. x.op \in {"find", "previous", "create", "refresh"} =>
          x.user \in Employees /\ x.period \in Months /\ x.missed \in Nat
    BY GenerationFields DEF Idle
  <2>4. CountIsRight(x)'
    BY <1>1, <2>1, <2>2, <2>3 DEF GenerationIsRight, CountIsRight
  <2>5. RefreshIsRight(x)'
    BY <2>1, <2>2 DEF GenerationIsRight, RefreshIsRight
  <2>6. CreateIsRight(x)'
    <3>1. SUFFICES ASSUME x.op = "create" PROVE CarriedFrom(x.base, x.user, x.period)'
      BY <2>1 DEF CreateIsRight
    <3>2. x.user \in Employees /\ CarriedFrom(x.base, x.user, x.period)
      BY <2>2, <2>3, <3>1 DEF GenerationIsRight, CreateIsRight
    <3>3. \A q \in Months : entry[x.user][q].state = "confirmed" =>
            entry'[x.user][q] = entry[x.user][q]
      BY <3>2 DEF StepIsRight
    <3>4. QED
      BY <2>1, <3>2, <3>3 DEF CarriedFrom
  <2>7. QED
    BY <2>1, <2>4, <2>5, <2>6 DEF GenerationIsRight, CountIsRight, RefreshIsRight, CreateIsRight
<1>4. ASSUME NEW r \in Requests PROVE EditIsRight(req[r])'
  BY DEF PayrollInv, StepIsRight, EditIsRight
<1>5. QED
  BY <1>2, <1>3, <1>4 DEF PayrollInv, StepIsRight
-----------------------------------------------------------------------------
(***************************************************************************)
(* Every step is right                                                     *)
(***************************************************************************)

LEMMA OtherTablesStep ==
  ASSUME PayrollInv, UNCHANGED <<entry, gen, req>>, month' \in Months,
         active' \subseteq Employees, settings' \subseteq Rates,
         missed' \in [Employees -> [Months -> 0 .. MaxMissed]],
         \A u \in Employees, p \in Months : missed[u][p] <= missed'[u][p]
  PROVE  StepIsRight
BY DEF PayrollInv, Types, StepIsRight

LEMMA CountsAreReflexive ==
  ASSUME PayrollInv, missed' = missed
  PROVE  \A u \in Employees, p \in Months : missed[u][p] <= missed'[u][p]
<1>1. \A u \in Employees, p \in Months : missed[u][p] \in Nat
  BY DEF PayrollInv, Types
<1>2. QED
  BY <1>1

\* A generation goes on after a read.
LEMMA GenerationReads ==
  ASSUME PayrollInv, UNCHANGED tables, NEW g \in Generations, NEW x \in Generation,
         GenGoesOn(g, x), GenerationIsRight(x)
  PROVE  StepIsRight
<1>1. gen' \in [Generations -> Generation] /\ req' = req
  BY DEF PayrollInv, Types, GenGoesOn
<1>2. \A h \in Generations : gen'[h] = gen[h] \/ GenerationIsRight(gen'[h])
  BY DEF PayrollInv, Types, GenGoesOn
<1>3. QED
  BY <1>1, <1>2, CountsAreReflexive DEF PayrollInv, Types, StepIsRight, tables

\* A handler writes one row.
LEMMA RowWritten ==
  ASSUME PayrollInv, NEW u \in Employees, NEW p \in Months, NEW row \in Entry,
         entry' = [entry EXCEPT ![u][p] = row],
         \/ row = entry[u][p]
         \/ /\ entry[u][p].state # "confirmed"
            /\ RowIsRight(row, u, p)
            /\ entry[u][p] = NoEntry => CarriedFrom(row.base, u, p)
  PROVE  /\ entry' \in [Employees -> [Months -> Entry]]
         /\ \A v \in Employees, q \in Months :
              \/ entry'[v][q] = entry[v][q]
              \/ /\ entry[v][q].state # "confirmed"
                 /\ RowIsRight(entry'[v][q], v, q)
                 /\ entry[v][q] = NoEntry => CarriedFrom(entry'[v][q].base, v, q)
<1>1. entry \in [Employees -> [Months -> Entry]]
  BY DEF PayrollInv, Types
<1>2. \A v \in Employees, q \in Months :
        entry'[v][q] = IF v = u /\ q = p THEN row ELSE entry[v][q]
  BY <1>1
<1>3. entry' \in [Employees -> [Months -> Entry]]
  BY <1>1
<1>4. QED
  BY <1>2, <1>3

\* A generation writes, or leaves, one row.
LEMMA GenerationWrites ==
  ASSUME PayrollInv, UNCHANGED <<month, active, missed, settings>>,
         NEW g \in Generations, NEW x \in Generation, GenGoesOn(g, x), GenerationIsRight(x),
         NEW u \in Employees, NEW p \in Months, NEW row \in Entry,
         entry' = [entry EXCEPT ![u][p] = row],
         \/ row = entry[u][p]
         \/ /\ entry[u][p].state # "confirmed"
            /\ RowIsRight(row, u, p)
            /\ entry[u][p] = NoEntry => CarriedFrom(row.base, u, p)
  PROVE  StepIsRight
<1>1. gen' \in [Generations -> Generation] /\ req' = req
  BY DEF PayrollInv, Types, GenGoesOn
<1>2. \A h \in Generations : gen'[h] = gen[h] \/ GenerationIsRight(gen'[h])
  BY DEF PayrollInv, Types, GenGoesOn
<1>3. QED
  BY <1>1, <1>2, RowWritten, CountsAreReflexive DEF PayrollInv, Types, StepIsRight

\* The same for an edit, which ends with its write.
LEMMA EditEnds ==
  ASSUME PayrollInv, NEW r \in Requests, req' = [req EXCEPT ![r] = Idle]
  PROVE  /\ req' \in [Requests -> Request]
         /\ \A s \in Requests : req'[s] = req[s] \/ EditIsRight(req'[s])
BY IdleIsTyped DEF PayrollInv, Types, EditIsRight

LEMMA IdleIsRight == GenerationIsRight(Idle)
BY DEF GenerationIsRight, CountIsRight, RefreshIsRight, CreateIsRight, Idle

LEMMA NextOfIsRight ==
  ASSUME PayrollInv, NEW g \in Generations, gen[g] # Idle
  PROVE  NextOf(g) \in Generation /\ GenerationIsRight(NextOf(g))
<1>1. /\ gen[g].period \in Months /\ gen[g].rates \in Rates
      /\ gen[g].left \in SUBSET Employees
  BY GenerationFields DEF PayrollInv, Types
<1>2. QED
  BY <1>1 DEF NextOf, Generation, GenerationIsRight, CountIsRight, RefreshIsRight,
              CreateIsRight

LEMMA GenStartStep ==
  ASSUME PayrollInv, NEW g \in Generations, NEW p \in Months, GenStart(g, p)
  PROVE  StepIsRight
<1>1. PICK s \in settings :
        GenGoesOn(g, [op |-> "next", period |-> p, rates |-> s,
                      left |-> {u \in active : HiredIn[u] <= p}])
  BY DEF GenStart
<1> DEFINE x == [op |-> "next", period |-> p, rates |-> s,
                 left |-> {u \in active : HiredIn[u] <= p}]
<1>2. s \in Rates /\ active \subseteq Employees
  BY DEF PayrollInv, Types
<1>3. x \in Generation
  BY <1>2 DEF Generation
<1>4. GenerationIsRight(x)
  BY DEF GenerationIsRight, CountIsRight, RefreshIsRight, CreateIsRight
<1>5. UNCHANGED tables
  BY DEF GenStart
<1> HIDE DEF x
<1>6. GenGoesOn(g, x)
  BY <1>1 DEF x
<1>7. QED
  BY <1>3, <1>4, <1>5, <1>6, GenerationReads

LEMMA GenCountStep ==
  ASSUME PayrollInv, NEW g \in Generations, NEW u \in Employees, GenCount(g, u)
  PROVE  StepIsRight
<1> DEFINE x == [op |-> "find", period |-> gen[g].period, rates |-> gen[g].rates,
                 left |-> gen[g].left \ {u}, user |-> u,
                 missed |-> MissedCount(u, gen[g].period)]
<1>1. gen[g] \in Generation /\ gen[g] # Idle
  BY DEF PayrollInv, Types, GenCount, Idle
<1>2. /\ gen[g].period \in Months /\ gen[g].rates \in Rates
      /\ gen[g].left \in SUBSET Employees
  BY <1>1, GenerationFields
<1>3. missed[u][gen[g].period] \in Nat
  BY <1>2 DEF PayrollInv, Types
<1>4. x \in Generation
  BY <1>2, <1>3 DEF Generation, MissedCount
<1>5. GenerationIsRight(x)
  BY <1>3 DEF GenerationIsRight, CountIsRight, RefreshIsRight, CreateIsRight, MissedCount
<1>6. GenGoesOn(g, x) /\ UNCHANGED tables
  BY DEF GenCount
<1> HIDE DEF x
<1>7. QED
  BY <1>4, <1>5, <1>6, GenerationReads

LEMMA GenFindStep ==
  ASSUME PayrollInv, NEW g \in Generations, GenFind(g)
  PROVE  StepIsRight
<1>1. PICK s \in Generation : s = gen[g]
  BY DEF PayrollInv, Types
<1>2. s.op = "find" /\ gen[g] # Idle /\ GenerationIsRight(s)
  BY <1>1 DEF GenFind, Idle, PayrollInv
<1>3. /\ s.period \in Months /\ s.rates \in Rates /\ s.left \in SUBSET Employees
      /\ s.user \in Employees /\ s.missed \in Nat
  BY <1>1, <1>2, GenerationFields
<1>4. PICK e \in Entry : e = entry[s.user][s.period]
  BY <1>3 DEF PayrollInv, Types
<1>5. UNCHANGED tables
  BY DEF GenFind
<1>6. s.missed <= missed[s.user][s.period]
  BY <1>2 DEF GenerationIsRight, CountIsRight
<1>7. CASE GenGoesOn(g, NextOf(g))
  BY <1>2, <1>5, <1>7, NextOfIsRight, GenerationReads
<1>8. CASE GenGoesOn(g, [s EXCEPT !.op = "previous"])
  <2> DEFINE x == [s EXCEPT !.op = "previous"]
  <2>1. s \in [op: {"find", "previous"}, period: Months, rates: Rates,
              left: SUBSET Employees, user: Employees, missed: Nat]
    BY <1>2 DEF Generation, Idle
  <2>2. x \in [op: {"find", "previous"}, period: Months, rates: Rates,
              left: SUBSET Employees, user: Employees, missed: Nat]
    BY <2>1
  <2>3. x \in Generation
    BY <2>2 DEF Generation
  <2>4. x.op = "previous" /\ x.user = s.user /\ x.period = s.period /\ x.missed = s.missed
    BY <2>1
  <2> HIDE DEF x
  <2>5. GenerationIsRight(x)
    BY <1>6, <2>4 DEF GenerationIsRight, CountIsRight, RefreshIsRight, CreateIsRight
  <2>6. GenGoesOn(g, x)
    BY <1>8 DEF x
  <2>7. QED
    BY <1>5, <2>3, <2>5, <2>6, GenerationReads
<1>9. CASE /\ e.state = "draft"
           /\ GenGoesOn(g, [op |-> "refresh", period |-> s.period, rates |-> s.rates,
                            left |-> s.left, user |-> s.user, missed |-> s.missed,
                            amounts |-> ComputePayroll(e.base, s.missed, s.rates,
                                                       e.manual, e.amounts.fine)])
  <2>1. /\ e.base \in Nat /\ e.manual \in BOOLEAN /\ e.amounts \in Amounts
    BY <1>9, EntryFields DEF NoEntry
  <2>2. e.amounts.fine \in Nat
    BY <2>1 DEF Amounts
  <2>3. PICK amounts \in Amounts :
          /\ amounts = ComputePayroll(e.base, s.missed, s.rates, e.manual, e.amounts.fine)
          /\ TaxWithin(e.base, amounts)
          /\ FinalFormula(e.base, amounts)
    BY <1>3, <2>1, <2>2, ComputedAmounts
  <2> DEFINE x == [op |-> "refresh", period |-> s.period, rates |-> s.rates,
                   left |-> s.left, user |-> s.user, missed |-> s.missed,
                   amounts |-> amounts]
  <2>4. x \in Generation
    BY <1>3 DEF Generation
  <2>5. CountIsRight(x) /\ CreateIsRight(x)
    BY <1>6 DEF CountIsRight, CreateIsRight
  <2>6. RefreshIsRight(x)
    BY <2>1, <2>3 DEF RefreshIsRight
  <2>7. GenGoesOn(g, x)
    BY <1>9, <2>3
  <2> HIDE DEF x
  <2>8. QED
    BY <1>5, <2>4, <2>5, <2>6, <2>7, GenerationReads DEF GenerationIsRight
<1>10. QED
  BY <1>1, <1>4, <1>7, <1>8, <1>9 DEF GenFind

LEMMA GenPreviousStep ==
  ASSUME PayrollInv, NEW g \in Generations, GenPrevious(g)
  PROVE  StepIsRight
<1>1. PICK s \in Generation : s = gen[g]
  BY DEF PayrollInv, Types
<1>2. s.op = "previous" /\ s # Idle /\ GenerationIsRight(s)
  BY <1>1 DEF GenPrevious, Idle, PayrollInv
<1>3. /\ s.period \in Months /\ s.rates \in Rates /\ s.left \in SUBSET Employees
      /\ s.user \in Employees /\ s.missed \in Nat
  BY <1>2, GenerationFields
<1>4. PICK base : base = PreviousBase(s.user, s.period)
  OBVIOUS
<1>5. base \in Nat /\ CarriedFrom(base, s.user, s.period)
  <2> DEFINE before == ConfirmedBefore(s.user, s.period)
             last == CHOOSE q \in before : \A o \in before : o <= q
  <2>1. CASE before = {}
    BY <1>4, <2>1 DEF PreviousBase, CarriedFrom
  <2>2. CASE before # {}
    <3>1. last \in before
      BY <2>2, LastIsThere DEF ConfirmedBefore
    <3>2. base = entry[s.user][last].base
      BY <1>4, <2>2 DEF PreviousBase
    <3> HIDE DEF last
    <3>3. last \in Months /\ last < s.period /\ entry[s.user][last].state = "confirmed"
      BY <3>1 DEF ConfirmedBefore
    <3>4. PICK e \in Entry : e = entry[s.user][last]
      BY <1>3, <3>3 DEF PayrollInv, Types
    <3>5. base \in Nat
      BY <3>2, <3>3, <3>4, EntryFields DEF NoEntry
    <3>6. QED
      BY <3>2, <3>3, <3>5 DEF CarriedFrom
  <2>3. QED
    BY <2>1, <2>2
<1> DEFINE x == [op |-> "create", period |-> s.period, rates |-> s.rates,
                 left |-> s.left, user |-> s.user, missed |-> s.missed, base |-> base]
<1>6. x \in Generation
  BY <1>3, <1>5 DEF Generation
<1>7. s.missed <= missed[s.user][s.period]
  BY <1>2 DEF GenerationIsRight, CountIsRight
<1>8. GenerationIsRight(x)
  BY <1>5, <1>7 DEF GenerationIsRight, CountIsRight, RefreshIsRight, CreateIsRight
<1>9. GenGoesOn(g, x) /\ UNCHANGED tables
  BY <1>1, <1>4 DEF GenPrevious
<1> HIDE DEF x
<1>10. QED
  BY <1>6, <1>8, <1>9, GenerationReads

LEMMA GenCreateStep ==
  ASSUME PayrollInv, NEW g \in Generations, GenCreate(g)
  PROVE  StepIsRight
<1>1. PICK s \in Generation : s = gen[g]
  BY DEF PayrollInv, Types
<1>2. s.op = "create" /\ s # Idle /\ GenerationIsRight(s)
  BY <1>1 DEF GenCreate, Idle, PayrollInv
<1>3. /\ s.period \in Months /\ s.rates \in Rates
      /\ s.user \in Employees /\ s.missed \in Nat /\ s.base \in Nat
  BY <1>2, GenerationFields
<1>4. PICK amounts \in Amounts :
        /\ amounts = ComputePayroll(s.base, s.missed, s.rates, FALSE, 0)
        /\ TaxWithin(s.base, amounts)
        /\ FinalFormula(s.base, amounts)
  BY <1>3, ComputedAmounts
<1> DEFINE new == [state |-> "draft", base |-> s.base, missed |-> s.missed,
                   rates |-> s.rates, manual |-> FALSE, amounts |-> amounts]
           row == IF entry[s.user][s.period] # NoEntry THEN entry[s.user][s.period] ELSE new
<1>5. new \in Entry
  BY <1>3, <1>4 DEF Entry
<1>6. RowIsRight(new, s.user, s.period)
  BY <1>2, <1>4 DEF RowIsRight, GenerationIsRight, CountIsRight
<1>7. CarriedFrom(new.base, s.user, s.period)
  BY <1>2 DEF GenerationIsRight, CreateIsRight
<1>8. entry' = [entry EXCEPT ![s.user][s.period] =
                  IF @ # NoEntry THEN @ ELSE new]
  BY <1>1, <1>4 DEF GenCreate
<1>9. entry[s.user][s.period] \in Entry
  BY <1>3 DEF PayrollInv, Types
<1> HIDE DEF new
<1>10. entry' = [entry EXCEPT ![s.user][s.period] = row]
  BY <1>3, <1>8 DEF PayrollInv, Types
<1>11. row \in Entry
  BY <1>5, <1>9
<1>12. \/ row = entry[s.user][s.period]
       \/ /\ entry[s.user][s.period].state # "confirmed"
          /\ RowIsRight(row, s.user, s.period)
          /\ entry[s.user][s.period] = NoEntry => CarriedFrom(row.base, s.user, s.period)
  <2>1. CASE entry[s.user][s.period] # NoEntry
    BY <2>1
  <2>2. CASE entry[s.user][s.period] = NoEntry
    BY <1>6, <1>7, <2>2 DEF NoEntry
  <2>3. QED
    BY <2>1, <2>2
<1>13. NextOf(g) \in Generation /\ GenerationIsRight(NextOf(g))
  BY <1>1, <1>2, NextOfIsRight
<1>14. GenGoesOn(g, NextOf(g)) /\ UNCHANGED <<month, active, missed, settings>>
  BY DEF GenCreate
<1> HIDE DEF row
<1>15. QED
  BY <1>3, <1>10, <1>11, <1>12, <1>13, <1>14, GenerationWrites

LEMMA GenRefreshStep ==
  ASSUME PayrollInv, NEW g \in Generations, GenRefresh(g)
  PROVE  StepIsRight
<1>1. PICK s \in Generation : s = gen[g]
  BY DEF PayrollInv, Types
<1>2. s.op = "refresh" /\ s # Idle /\ GenerationIsRight(s)
  BY <1>1 DEF GenRefresh, Idle, PayrollInv
<1>3. /\ s.period \in Months /\ s.rates \in Rates
      /\ s.user \in Employees /\ s.missed \in Nat /\ s.amounts \in Amounts
  BY <1>2, GenerationFields
<1>4. PICK e \in Entry : e = entry[s.user][s.period]
  BY <1>3 DEF PayrollInv, Types
<1>5. NextOf(g) \in Generation /\ GenerationIsRight(NextOf(g))
  BY <1>1, <1>2, NextOfIsRight
<1>6. UNCHANGED <<month, active, missed, settings>>
  BY DEF GenRefresh
<1>7. CASE GenGoesOn(g, NextOf(g)) /\ UNCHANGED entry
  BY <1>5, <1>6, <1>7, GenerationReads DEF tables
<1>8. CASE GenGoesOn(g, Idle) /\ UNCHANGED entry
  BY <1>6, <1>8, IdleIsTyped, IdleIsRight, GenerationReads DEF tables
<1>9. CASE /\ e.state = "draft"
           /\ FinalFormula(e.base, s.amounts)
           /\ entry' = [entry EXCEPT ![s.user][s.period] =
                [@ EXCEPT !.missed = s.missed, !.rates = s.rates, !.amounts = s.amounts]]
           /\ GenGoesOn(g, NextOf(g))
  <2> DEFINE row == [e EXCEPT !.missed = s.missed, !.rates = s.rates, !.amounts = s.amounts]
  <2>1. e \in [state: {"draft", "confirmed"}, base: Nat, missed: Nat, rates: Rates,
               amounts: Amounts, manual: BOOLEAN]
    BY <1>9 DEF Entry, NoEntry
  <2>2. /\ row \in [state: {"draft", "confirmed"}, base: Nat, missed: Nat, rates: Rates,
                     amounts: Amounts, manual: BOOLEAN]
        /\ row.base = e.base /\ row.missed = s.missed /\ row.amounts = s.amounts
    BY <1>3, <2>1
  <2>3. row \in Entry
    BY <2>2 DEF Entry
  <2>4. entry' = [entry EXCEPT ![s.user][s.period] = row]
    BY <1>3, <1>4, <1>9 DEF PayrollInv, Types
  <2> HIDE DEF row
  <2>5. PICK base \in Nat : TaxWithin(base, s.amounts) /\ FinalFormula(base, s.amounts)
    BY <1>2 DEF GenerationIsRight, RefreshIsRight
  <2>6. base = e.base
    <3>1. s.amounts.final \in Int /\ s.amounts.fine \in Nat /\ s.amounts.tax \in Nat
      BY <1>3 DEF Amounts
    <3>2. QED
      BY <1>9, <2>1, <2>5, <3>1 DEF FinalFormula
  <2>7. s.missed <= missed[s.user][s.period]
    BY <1>2 DEF GenerationIsRight, CountIsRight
  <2>8. RowIsRight(row, s.user, s.period)
    BY <2>2, <2>5, <2>6, <2>7 DEF RowIsRight
  <2>9. entry[s.user][s.period].state # "confirmed" /\ entry[s.user][s.period] # NoEntry
    BY <1>4, <1>9 DEF NoEntry
  <2>10. GenGoesOn(g, NextOf(g))
    BY <1>9
  <2>11. QED
    BY <1>3, <1>5, <1>6, <2>3, <2>4, <2>8, <2>9, <2>10, GenerationWrites
<1>10. QED
  BY <1>1, <1>4, <1>7, <1>8, <1>9 DEF GenRefresh

LEMMA GenEndStep ==
  ASSUME PayrollInv, NEW g \in Generations, GenEnd(g)
  PROVE  StepIsRight
BY IdleIsTyped, IdleIsRight, GenerationReads DEF GenEnd

LEMMA EditReadStep ==
  ASSUME PayrollInv, NEW r \in Requests, NEW u \in Employees, NEW p \in Months,
         EditRead(r, u, p)
  PROVE  StepIsRight
<1>1. PICK e \in Entry : e = entry[u][p]
  BY DEF PayrollInv, Types
<1>2. e.state = "draft"
  BY <1>1 DEF EditRead
<1>3. /\ e.base \in Nat /\ e.missed \in Nat /\ e.rates \in Rates
      /\ e.manual \in BOOLEAN /\ e.amounts \in Amounts
  BY <1>2, EntryFields DEF NoEntry
<1>4. e.amounts.fine \in Nat
  BY <1>3 DEF Amounts
<1>5. PICK base \in Bases \cup {entry[u][p].base},
           override \in {[manual |-> entry[u][p].manual, fine |-> entry[u][p].amounts.fine]}
                          \cup [manual: {TRUE}, fine: Fines] :
        req' = [req EXCEPT ![r] =
          [op |-> "edit", user |-> u, period |-> p, base |-> base,
           manual |-> override.manual,
           amounts |-> ComputePayroll(base, entry[u][p].missed, entry[u][p].rates,
                                      override.manual, override.fine)]]
  BY Zenon DEF EditRead
<1>6. base \in Nat
  <2>1. base \in Bases \/ base = e.base
    BY <1>1, Zenon
  <2>2. \A x \in Bases : x \in Nat
    BY PayrollAssumption
  <2>3. QED
    BY <1>3, <2>1, <2>2
<1>7. override.manual \in BOOLEAN /\ override.fine \in Nat
  <2>1. CASE override = [manual |-> entry[u][p].manual, fine |-> entry[u][p].amounts.fine]
    <3>1. override.manual = entry[u][p].manual /\ override.fine = entry[u][p].amounts.fine
      BY <2>1
    <3>2. QED
      BY <1>1, <1>3, <1>4, <3>1, Zenon
  <2>2. CASE override \in [manual: {TRUE}, fine: Fines]
    <3>1. override.manual = TRUE /\ override.fine \in Fines
      BY <2>2
    <3>2. \A x \in Fines : x \in Nat
      BY PayrollAssumption
    <3>3. QED
      BY <3>1, <3>2
  <2>3. QED
    BY <1>5, <2>1, <2>2
<1>8. PICK amounts \in Amounts :
        /\ amounts = ComputePayroll(base, e.missed, e.rates, override.manual, override.fine)
        /\ TaxWithin(base, amounts)
        /\ FinalFormula(base, amounts)
  BY <1>3, <1>6, <1>7, ComputedAmounts
<1> DEFINE x == [op |-> "edit", user |-> u, period |-> p, base |-> base,
                 manual |-> override.manual, amounts |-> amounts]
<1>9. x \in Request
  BY <1>6, <1>7 DEF Request
<1>10. EditIsRight(x)
  BY <1>8 DEF EditIsRight
<1>11. req' = [req EXCEPT ![r] = x]
  BY <1>1, <1>5, <1>8
<1>12. UNCHANGED <<month, active, missed, settings, entry, gen>>
  BY DEF EditRead
<1> HIDE DEF x
<1>13. req' \in [Requests -> Request]
  BY <1>9, <1>11 DEF PayrollInv, Types
<1>14. \A q \in Requests : req'[q] = req[q] \/ EditIsRight(req'[q])
  BY <1>10, <1>11 DEF PayrollInv, Types
<1>15. QED
  BY <1>12, <1>13, <1>14, CountsAreReflexive DEF PayrollInv, Types, StepIsRight

LEMMA EditWriteStep ==
  ASSUME PayrollInv, NEW r \in Requests, EditWrite(r)
  PROVE  StepIsRight
<1>1. PICK q \in Request : q = req[r]
  BY DEF PayrollInv, Types
<1>2. q # Idle
  BY <1>1 DEF EditWrite, Idle
<1>3. /\ q.user \in Employees /\ q.period \in Months
      /\ q.base \in Nat /\ q.manual \in BOOLEAN /\ q.amounts \in Amounts
  BY <1>2, RequestFields
<1>4. TaxWithin(q.base, q.amounts) /\ FinalFormula(q.base, q.amounts)
  BY <1>1, <1>2 DEF PayrollInv, EditIsRight
<1>5. PICK e \in Entry : e = entry[q.user][q.period]
  BY <1>3 DEF PayrollInv, Types
<1> DEFINE row == IF e.state = "draft"
                  THEN [e EXCEPT !.base = q.base, !.manual = q.manual, !.amounts = q.amounts]
                  ELSE e
<1>6. entry' = [entry EXCEPT ![q.user][q.period] = row]
  BY <1>1, <1>3, <1>5 DEF EditWrite, PayrollInv, Types
<1>7. /\ row \in Entry
      /\ \/ row = entry[q.user][q.period]
         \/ /\ entry[q.user][q.period].state # "confirmed"
            /\ RowIsRight(row, q.user, q.period)
            /\ entry[q.user][q.period] = NoEntry
                 => CarriedFrom(row.base, q.user, q.period)
  <2>1. CASE e.state = "draft"
    <3>1. e \in [state: {"draft", "confirmed"}, base: Nat, missed: Nat, rates: Rates,
                 amounts: Amounts, manual: BOOLEAN]
      BY <2>1 DEF Entry, NoEntry
    <3>2. /\ row \in [state: {"draft", "confirmed"}, base: Nat, missed: Nat, rates: Rates,
                       amounts: Amounts, manual: BOOLEAN]
          /\ row.base = q.base /\ row.missed = e.missed /\ row.amounts = q.amounts
      BY <1>3, <2>1, <3>1
    <3>3. row \in Entry
      BY <3>2 DEF Entry
    <3>4. e # NoEntry
      BY <2>1 DEF NoEntry
    <3> HIDE DEF row
    <3>5. e.missed <= missed[q.user][q.period]
      BY <1>3, <1>5, <3>4 DEF PayrollInv, RowIsRight
    <3>6. RowIsRight(row, q.user, q.period)
      BY <1>4, <3>2, <3>5 DEF RowIsRight
    <3>7. QED
      BY <1>5, <2>1, <3>3, <3>4, <3>6
  <2>2. CASE e.state # "draft"
    BY <1>5, <2>2
  <2>3. QED
    BY <2>1, <2>2
<1> HIDE DEF row
<1>8. /\ entry' \in [Employees -> [Months -> Entry]]
      /\ \A v \in Employees, t \in Months :
           \/ entry'[v][t] = entry[v][t]
           \/ /\ entry[v][t].state # "confirmed"
              /\ RowIsRight(entry'[v][t], v, t)
              /\ entry[v][t] = NoEntry => CarriedFrom(entry'[v][t].base, v, t)
  BY <1>3, <1>6, <1>7, RowWritten
<1>9. req' = [req EXCEPT ![r] = Idle] /\ UNCHANGED <<month, active, missed, settings, gen>>
  BY DEF EditWrite
<1>10. /\ req' \in [Requests -> Request]
       /\ \A s \in Requests : req'[s] = req[s] \/ EditIsRight(req'[s])
  BY <1>9, EditEnds
<1>11. QED
  BY <1>8, <1>9, <1>10, CountsAreReflexive DEF PayrollInv, Types, StepIsRight

LEMMA EditFailStep ==
  ASSUME PayrollInv, NEW r \in Requests, EditFail(r)
  PROVE  StepIsRight
<1>1. req' = [req EXCEPT ![r] = Idle]
      /\ UNCHANGED <<month, active, missed, settings, entry, gen>>
  BY DEF EditFail
<1>2. /\ req' \in [Requests -> Request]
      /\ \A s \in Requests : req'[s] = req[s] \/ EditIsRight(req'[s])
  BY <1>1, EditEnds
<1>3. QED
  BY <1>1, <1>2, CountsAreReflexive DEF PayrollInv, Types, StepIsRight

LEMMA ConfirmStep ==
  ASSUME PayrollInv, NEW u \in Employees, NEW p \in Months, Confirm(u, p)
  PROVE  StepIsRight
<1>1. PICK e \in Entry : e = entry[u][p]
  BY DEF PayrollInv, Types
<1>2. e.state = "draft"
  BY <1>1 DEF Confirm
<1>3. e \in [state: {"draft", "confirmed"}, base: Nat, missed: Nat, rates: Rates,
             amounts: Amounts, manual: BOOLEAN]
  BY <1>2 DEF Entry, NoEntry
<1> DEFINE row == [e EXCEPT !.state = "confirmed"]
<1>4. /\ row \in [state: {"draft", "confirmed"}, base: Nat, missed: Nat, rates: Rates,
                   amounts: Amounts, manual: BOOLEAN]
      /\ row.base = e.base /\ row.missed = e.missed /\ row.amounts = e.amounts
  BY <1>3
<1>5. row \in Entry
  BY <1>4 DEF Entry
<1>6. entry' = [entry EXCEPT ![u][p] = row]
  BY <1>1 DEF Confirm, PayrollInv, Types
<1> HIDE DEF row
<1>7. e # NoEntry
  BY <1>2 DEF NoEntry
<1>8. RowIsRight(e, u, p)
  BY <1>1 DEF PayrollInv
<1>9. RowIsRight(row, u, p)
  BY <1>4, <1>7, <1>8 DEF RowIsRight
<1>10. /\ entry' \in [Employees -> [Months -> Entry]]
       /\ \A v \in Employees, t \in Months :
            \/ entry'[v][t] = entry[v][t]
            \/ /\ entry[v][t].state # "confirmed"
               /\ RowIsRight(entry'[v][t], v, t)
               /\ entry[v][t] = NoEntry => CarriedFrom(entry'[v][t].base, v, t)
  BY <1>1, <1>2, <1>5, <1>6, <1>7, <1>9, RowWritten
<1>11. UNCHANGED <<month, active, missed, settings, gen, req>>
  BY DEF Confirm
<1>12. QED
  BY <1>10, <1>11, CountsAreReflexive DEF PayrollInv, Types, StepIsRight

LEMMA RecordMissedStep ==
  ASSUME PayrollInv, NEW u \in Employees, NEW p \in Months, RecordMissed(u, p)
  PROVE  StepIsRight
<1>1. missed \in [Employees -> [Months -> 0 .. MaxMissed]] /\ MaxMissed \in Nat
  BY PayrollAssumption DEF PayrollInv, Types
<1>2. PICK n \in 0 .. MaxMissed : n = missed[u][p]
  BY <1>1
<1>3. missed' = [missed EXCEPT ![u][p] = n + 1] /\ n + 1 \in 0 .. MaxMissed
  BY <1>1, <1>2 DEF RecordMissed
<1>4. missed' \in [Employees -> [Months -> 0 .. MaxMissed]]
  BY <1>1, <1>3
<1>5. ASSUME NEW v \in Employees, NEW q \in Months PROVE missed[v][q] <= missed'[v][q]
  <2>1. missed[v][q] \in 0 .. MaxMissed
    BY <1>1
  <2>2. CASE v = u /\ q = p
    BY <1>1, <1>2, <1>3, <2>2
  <2>3. CASE ~(v = u /\ q = p)
    <3>1. missed'[v][q] = missed[v][q]
      BY <1>1, <1>3, <2>3
    <3>2. QED
      BY <1>1, <2>1, <3>1
  <2>4. QED
    BY <2>2, <2>3
<1>6. UNCHANGED <<month, active, settings, entry, gen, req>>
  BY DEF RecordMissed
<1>7. QED
  BY <1>4, <1>5, <1>6, OtherTablesStep DEF PayrollInv, Types

LEMMA NextIsRight ==
  ASSUME PayrollInv, [Next]_vars PROVE StepIsRight
<1>1. CASE NewMonth
  <2>1. month' \in Months
    BY <1>1, PayrollAssumption DEF NewMonth, Months, PayrollInv, Types
  <2>2. QED
    BY <1>1, <2>1, CountsAreReflexive, OtherTablesStep DEF NewMonth, PayrollInv, Types
<1>2. ASSUME NEW u \in Employees, Disable(u) PROVE StepIsRight
  BY <1>2, CountsAreReflexive, OtherTablesStep DEF Disable, PayrollInv, Types
<1>3. ASSUME NEW u \in Employees, NEW p \in Months, RecordMissed(u, p) PROVE StepIsRight
  BY <1>3, RecordMissedStep
<1>4. ASSUME NEW u \in Employees, NEW p \in Months, Confirm(u, p) PROVE StepIsRight
  BY <1>4, ConfirmStep
<1>5. ASSUME NEW s \in Rates, PutSettings(s) PROVE StepIsRight
  <2>1. settings' \subseteq Rates
    BY <1>5 DEF PutSettings
  <2>2. QED
    BY <1>5, <2>1, CountsAreReflexive, OtherTablesStep DEF PutSettings, PayrollInv, Types
<1>6. ASSUME NEW g \in Generations, GenStep(g) PROVE StepIsRight
  BY <1>6, GenStartStep, GenCountStep, GenFindStep, GenPreviousStep, GenCreateStep,
     GenRefreshStep, GenEndStep DEF GenStep
<1>7. ASSUME NEW r \in Requests, EditStep(r) PROVE StepIsRight
  BY <1>7, EditReadStep, EditWriteStep, EditFailStep DEF EditStep
<1>8. CASE UNCHANGED vars
  BY <1>8, CountsAreReflexive, OtherTablesStep DEF vars, PayrollInv, Types
<1>9. QED
  BY <1>1, <1>2, <1>3, <1>4, <1>5, <1>6, <1>7, <1>8 DEF Next

-----------------------------------------------------------------------------
(***************************************************************************)
(* Theorems                                                                *)
(***************************************************************************)

\* What the handlers have read and not written yet stays right for as long as they
\* carry it (generate, update).
THEOREM Invariance == Spec => []PayrollInv
<1>1. PayrollInv /\ [Next]_vars => PayrollInv'
  BY NextIsRight, InvPreserved
<1>2. QED
  BY <1>1, InvInit, PTL DEF Spec

\* Every row and every write under way has the type of the schema, and its tax is
\* never more than the salary (percentOf, computePayroll).
THEOREM TypeCorrect == Spec => []TypeOK
<1>1. PayrollInv => TypeOK
  BY DEF PayrollInv, Types, RowIsRight, EditIsRight, TypeOK
<1>2. QED
  BY <1>1, Invariance, PTL

\* Whatever generations and edits write over one another, what is paid is the salary
\* of the row less its fine and its tax (generate, update, the CHECK on the table).
THEOREM PaidExactly == Spec => []FinalIsExact
<1>1. PayrollInv => FinalIsExact
  BY DEF PayrollInv, RowIsRight, FinalFormula, FinalIsExact, Exists
<1>2. QED
  BY <1>1, Invariance, PTL

\* An entry never counts more missed shifts than its own month has (missedCount).
THEOREM CountedInOwnMonth == Spec => []FinedForOwnMonth
<1>1. PayrollInv => FinedForOwnMonth
  BY DEF PayrollInv, RowIsRight, FinedForOwnMonth, Exists
<1>2. QED
  BY <1>1, Invariance, PTL

\* Every entry is exact in what it pays, in the missed shifts it counts and in its
\* tax (generate, update, missedCount, percentOf).
THEOREM EntriesExact == Spec => []EntriesAreExact
<1>1. TypeOK => TaxIsWithinSalary
  BY DEF TypeOK, TaxIsWithinSalary, Exists
<1>2. FinalIsExact /\ FinedForOwnMonth /\ TaxIsWithinSalary => EntriesAreExact
  BY DEF EntriesAreExact
<1>3. QED
  BY <1>1, <1>2, TypeCorrect, PaidExactly, CountedInOwnMonth, PTL

\* The salary of a new entry is that of a confirmed entry of an earlier month, also
\* when much has happened since it was looked up (generate).
THEOREM CarriedOver == Spec => SalaryIsCarriedOver
<1>1. StepIsRight =>
        \A u \in Employees, p \in Months :
          ~Exists(u, p) /\ entry'[u][p] # NoEntry =>
            \/ entry'[u][p].base = 0
            \/ \E q \in Months :
                 /\ q < p
                 /\ entry[u][q].state = "confirmed"
                 /\ entry[u][q].base = entry'[u][p].base
  BY DEF StepIsRight, CarriedFrom, Exists
<1>2. QED
  BY <1>1, NextIsRight, Invariance, PTL DEF Spec, SalaryIsCarriedOver

\* Once confirmed an entry keeps its amounts, whoever read it as a draft before
\* (generate, update, confirm).
THEOREM ConfirmedStays == Spec => ConfirmedIsFinal
<1>1. StepIsRight =>
        \A u \in Employees, p \in Months :
          entry[u][p].state = "confirmed" => entry'[u][p] = entry[u][p]
  BY DEF StepIsRight
<1>2. QED
  BY <1>1, NextIsRight, Invariance, PTL DEF Spec, ConfirmedIsFinal
=============================================================================
