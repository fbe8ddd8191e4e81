SPECIFICATION PartsSpec
CONSTANTS
  Actions = {p1}
  Directors = {ann, bob}
  Requests = {r1, r2, r3}
  MaxAttempts = 3
  Retries = 2
  Users = {ann, bob}
  Calls = {c1, c2}
  MaxSessions = 2
  MaxWrites = 2
  MaxViews = 2
  MaxToasts = 5
  Shifts = {s1, s2}
  MaxChanges = 2
  Operations = {o1, o2}
  Amounts = {1, 5}
  Base = 1
  Fine = 2
  Thousand = 2
  None = None
  NULL = NULL
SYMMETRY Symmetry
INVARIANTS
  ExecutedAtMostOnce
  ResolutionIsTruthful
  GuessesAreCounted
  CacheIsSound
  UnheldToastIsTimed
  ReportsAreSound
  FiguresAreSound
CHECK_DEADLOCK FALSE
