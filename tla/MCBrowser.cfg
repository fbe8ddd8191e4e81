SPECIFICATION TabSpec
CONSTANTS
  Calls = {c1, c2}
  Refreshes = {s1, s2}
  MaxPairs = 3
  NoRefresh = NoRefresh
SYMMETRY Symmetry
INVARIANTS
  SessionIsSound
PROPERTIES
  RefreshIsDue
CHECK_DEADLOCK FALSE
