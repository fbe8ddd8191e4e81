CONSTANTS
  h1 = h1
  m1 = m1
  None = None
  Heads <- MCHeads
  Sellers <- MCSellers
  Team <- MCTeam
  Accountants = {a1}
  Contracts = {c1, c2}
  Files = {f1, f2}
  Areas = {100, 150}
  Prices = {3}
  Percents = {3000, 5000}
  Requests = {r1, r2}
  MayDie = {r1, r2}
  t1 = t1
  t2 = t2
  Types = {t1, t2}
  UserDocuments = {t1}
  RequiredLists <- MCRequiredLists
  MaxVersion = 2
  MaxReleases = 2
  MaxRefusals = 2
  MaxSetbacks = 2
  MaxRecords = 2
SPECIFICATION DocumentsSpec
INVARIANTS
  ConsentsAreSound
PROPERTIES
  DocumentIsNeverLost
  StatusIsExact
  EditsAreSound
  EverybodyGetsIn
SYMMETRY Symmetry
CHECK_DEADLOCK FALSE
