SPECIFICATION Spec
CONSTANTS
  Tokens = {t1, t2, t3}
  Families = {f1}
  Users = {u1}
  Requests = {r1, r2, r3}
  None = None
SYMMETRY Symmetry
INVARIANTS
  OneSessionPerFamily
  WinnerDiesWithLoser
  DisabledIsNotRefreshed
PROPERTIES
  RotationIsOneShot
