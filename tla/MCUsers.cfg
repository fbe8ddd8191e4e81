SPECIFICATION UsersSpec
CONSTANTS
  Users = {u1, u2, u3}
  First = u1
  Usernames = {n1, n2, n3}
  FirstName = n1
  Emails = {e1, e2}
  FirstEmail = e1
  Avatars = {f1, f2}
  Handlers = {r1, r2}
  PoolSizes = {1, 2, 3}
  Nobody = Nobody
INVARIANTS
  AccountsAreSound
PROPERTIES
  EveryRequestIsAnswered
  AvatarIsNeverLost
CHECK_DEADLOCK FALSE
