SPECIFICATION MCSpec
CONSTANTS
  Accountants = {a1}
  Transactions = {t1}
  Values = {v1, v2}
  Files = {f1, f2, f3}
  Requests = {r1, r2}
  LastMonth = 2
  Restores = {x1, x2}
  MaxExports = 2
  None = None
SYMMETRY Symmetry
INVARIANTS
  BackupIsSound
  DoneIsRestored
PROPERTIES
  ClosedMonthSettles
  AttachmentIsNeverLost
CHECK_DEADLOCK FALSE
