SPECIFICATION Spec
CONSTANTS
  Employees = {u1}
  HiredIn <- MCHiredIn
  Generations = {g1, g2}
  Requests = {r1}
  FineRates = {1}
  TaxRates = {5000}
  Bases = {3}
  Fines = {0}
  LastMonth = 2
  MaxMissed = 1
SYMMETRY Symmetric
INVARIANTS
  EntriesAreExact
PROPERTIES
  SalaryIsCarriedOver
  ConfirmedIsFinal
