CONSTANTS
  None = None
  Actions = {p1}
  Directors = {d1}
  Requests = {r1, r2}
  MaxAttempts = 1
  Retries = 1
SPECIFICATION Spec
INVARIANTS
  RejectedIsNotExecuted
SYMMETRY Symmetry
CHECK_DEADLOCK FALSE
