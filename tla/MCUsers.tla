------------------------------ MODULE MCUsers ------------------------------
(***************************************************************************)
(* An instance of Users for TLC, without symmetry: it checks a liveness    *)
(* property.                                                               *)
(***************************************************************************)
EXTENDS Naturals

CONSTANTS
  Users, First, Usernames, FirstName, Emails, FirstEmail,
  Avatars,      \* identifiers of uploads
  Handlers,     \* slots of handlers in flight
  PoolSizes,
  Nobody        \* no account, handler or avatar

\* A deployment gives the process at least one connection.
ASSUME UsersAssumption ==
  /\ First \in Users /\ FirstName \in Usernames /\ FirstEmail \in Emails
  /\ PoolSizes \subseteq Nat \ {0}
  /\ Nobody \notin Users \cup Avatars \cup Handlers

VARIABLES account, pool, lock, handler, upload

U == INSTANCE Users WITH
       Files <- Avatars, Requests <- Handlers, None <- Nobody,
       req <- handler, file <- upload

userVars == <<account, pool, lock, handler, upload>>

UsersSpec == U!Spec

-----------------------------------------------------------------------------

\* Types, the bound of the pool, unique addresses, and the lock that sees to them
\* (withIdentityLock).
AccountsAreSound == U!TypeOK /\ U!EmailsAreUnique /\ U!LockGoesWithTransaction

\* Handlers that hold each a connection and wait for a second one, or for the
\* lock, do not wait for each other for ever: once its code is accepted, every
\* request is answered (withIdentityLock).
EveryRequestIsAnswered ==
  \A r \in Handlers :
    handler[r].op \notin {"idle", "prepared"} ~> handler[r].op \in {"idle", "prepared"}

\* An avatar is only ever replaced by another one that can be read, row and
\* bytes, or taken off by its owner, whatever uploads, removals and crashes
\* overlap (setAvatar, uploadAvatar, deleteAvatar, FileStorageService.remove).
AvatarIsNeverLost ==
  [][\A u \in U!Present :
       account'[u].avatar # account[u].avatar =>
         \/ account'[u].avatar # Nobody /\ upload'[account'[u].avatar] = "stored"
         \/ \E r \in Handlers :
              /\ handler[r].op = "install" /\ handler[r].user = u /\ handler[r].new = Nobody
              /\ handler'[r] # handler[r]]_userVars
=============================================================================
