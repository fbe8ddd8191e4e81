SPECIFICATION EndsSpec
CONSTANTS
  None = None
  Used = Used
  Codes = {c1}
  Kinds = {k1, k2}
  Requests = {r1, r2, r3}
  MaxAttempts = 3
  MaxPerWindow = 2
  Retries = 3
  Drafts = {d1, d2}
  NoDraft = NoDraft
  MaxAsks = 3
  MaxFillings = 2
  MaxCalls = 3
  MaxVersions = 2
  MaxEdits = 2
  MaxLeft = 1
  Actions = {p1, p2}
  MaxSetbacks = 1
  Statuses = {s1}
  Searches = {v1}
  All = All
  PageSize = 1
  MaxRows = 2
  MaxWrites = 1
  MaxKept = 2
  RoleOf <- StaffRoles
  TeamLead <- StaffLeads
  Leavers <- StaffLeavers
  MaxOpen = 2
  dina = dina
  hana = hana
  mira = mira
  milo = milo
  hugo = hugo
  max = max
  anna = anna
  alan = alan
  rita = rita
INVARIANTS
  CodeUsedOnce
  DoneAsShown
  NothingIsSentTwice
  NoBlankPage
  RightsAgree
PROPERTIES
  LockedCodeIsNeverClaimed
CHECK_DEADLOCK FALSE
