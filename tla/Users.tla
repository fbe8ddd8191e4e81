------------------------------- MODULE Users -------------------------------
(***************************************************************************)
(* UsersService: accounts are created and their e-mail addresses changed   *)
(* under one lock of the database, and the avatar is replaced in the steps *)
(* of FileStorage.                                                         *)
(*                                                                         *)
(* withIdentityLock opens a transaction, which keeps a connection of the   *)
(* pool until it ends, and takes the lock in it; what it then looks up, it *)
(* looks up over a second connection.  A transaction that takes too long   *)
(* is ended by the client of the database, whose limits the code leaves at *)
(* their defaults.                                                         *)
(*                                                                         *)
(* The code to confirm with, the roles and the disabling of an account are *)
(* in Confirmations, EmailCodes and Sessions.                              *)
(***************************************************************************)
EXTENDS Naturals, FiniteSets, FileStorage

CONSTANTS
  Users,        \* identifiers of accounts
  First,        \* the account that exists from the start: the director
  Usernames,
  FirstName,    \* the username of that account
  Emails,
  FirstEmail,   \* its address
  Requests,     \* slots of handlers in flight; their number is a bound
  PoolSizes,    \* how many connections the deployment may give the process
  None

VARIABLES
  account,  \* table User, [state |-> "unborn"] before the row is inserted
  pool,     \* the number of connections of the pool
  lock,     \* who holds the advisory lock 733101
  req       \* what each handler in flight goes on to do

vars == <<account, pool, lock, req, file>>

Unborn == [state |-> "unborn"]
Idle == [op |-> "idle"]

Account ==
       {Unborn}
  \cup [state: {"present"}, username: Usernames, email: Emails,
        avatar: Files \cup {None}]

\* The stages of a transaction under the lock.
Stages == {"begin", "lock", "check", "write"}

Request ==
       {Idle}
  \cup [op: Stages \cup {"prepared"}, kind: {"create"}, username: Usernames, email: Emails]
  \cup [op: Stages \cup {"prepared"}, kind: {"change"}, user: Users, email: Emails]
  \cup [op: {"store"}, user: Users, new: Files]
  \cup [op: {"look"}, user: Users, new: Files \cup {None}]
  \cup [op: {"install"}, user: Users, new: Files \cup {None}, old: Files \cup {None}]
  \cup [op: {"removeFile", "removeBytes"}, target: Files]

\* The requests whose transaction has a connection, and the connections left in the
\* pool.
InTransaction == {r \in Requests : req[r].op \in {"lock", "check", "write"}}
FreeConnections == pool - Cardinality(InTransaction)

TypeOK ==
  /\ account \in [Users -> Account]
  /\ pool \in PoolSizes
  /\ lock \in Requests \cup {None}
  /\ req \in [Requests -> Request]
  /\ FreeConnections \in 0 .. pool
  /\ file \in [Files -> FileState]

\* prisma/seed.ts
Init ==
  /\ account = [u \in Users |->
       IF u = First
       THEN [state |-> "present", username |-> FirstName, email |-> FirstEmail, avatar |-> None]
       ELSE Unborn]
  /\ pool \in PoolSizes
  /\ lock = None
  /\ req = [r \in Requests |-> Idle]
  /\ FileInit

Present == {u \in Users : account[u] # Unborn}

GoOn(r, request) == req' = [req EXCEPT ![r] = request]
Goto(r, op) == GoOn(r, [req[r] EXCEPT !.op = op])
End(r) == GoOn(r, Idle)

-----------------------------------------------------------------------------
(***************************************************************************)
(* Under the identity lock                                                 *)
(***************************************************************************)

UsernameTaken(n) == \E u \in Present : account[u].username = n

\* except is the account that may have the address already, or None.
EmailTaken(e, except) == \E u \in Present \ {except} : account[u].email = e

Taken(q) ==
  \/ q.kind = "create" /\ (UsernameTaken(q.username) \/ EmailTaken(q.email, None))
  \/ q.kind = "change" /\ EmailTaken(q.email, q.user)

\* What is prepared waits for a code.
Prepare(r, q) ==
  /\ ~Taken(q)
  /\ GoOn(r, q)
  /\ UNCHANGED <<account, pool, lock, file>>

PrepareCreate(r, n, e) ==
  /\ req[r] = Idle
  /\ Prepare(r, [op |-> "prepared", kind |-> "create", username |-> n, email |-> e])

PrepareChange(r, u, e) ==
  /\ req[r] = Idle
  /\ u \in Present
  /\ account[u].email # e
  /\ Prepare(r, [op |-> "prepared", kind |-> "change", user |-> u, email |-> e])

\* The code was right: executeCreateUser, confirmEmailChange.
Execute(r) ==
  /\ req[r].op = "prepared"
  /\ Goto(r, "begin")
  /\ UNCHANGED <<account, pool, lock, file>>

\* The code expired, or the action was rejected.
Expire(r) ==
  /\ req[r].op = "prepared"
  /\ End(r)
  /\ UNCHANGED <<account, pool, lock, file>>

BeginTransaction(r) ==
  /\ req[r].op = "begin"
  /\ FreeConnections > 0
  /\ Goto(r, "lock")
  /\ UNCHANGED <<account, pool, lock, file>>

\* No connection came free in time.
BeginTimeout(r) ==
  /\ req[r].op = "begin"
  /\ End(r)
  /\ UNCHANGED <<account, pool, lock, file>>

\* Mutant: every transaction has a lock of its own.
TakeOwnLock(r) ==
  /\ req[r].op = "lock"
  /\ lock' = r
  /\ Goto(r, "check")
  /\ UNCHANGED <<account, pool, file>>

TakeLock(r) ==
  /\ req[r].op = "lock"
  /\ lock = None
  /\ lock' = r
  /\ Goto(r, "check")
  /\ UNCHANGED <<account, pool, file>>

\* The lock goes with the transaction.
EndTransaction(r) == lock' = None /\ End(r)

\* Mutant: what was free when the change was prepared is taken to be free still.
CheckWasPrepared(r) ==
  /\ req[r].op = "check"
  /\ FreeConnections > 0
  /\ Goto(r, "write")
  /\ UNCHANGED <<account, pool, lock, file>>

\* The lookups of findByUsername and isEmailTaken need a connection each.
Check(r) ==
  /\ req[r].op = "check"
  /\ FreeConnections > 0
  /\ IF Taken(req[r])
     THEN EndTransaction(r)
     ELSE Goto(r, "write") /\ UNCHANGED lock
  /\ UNCHANGED <<account, pool, file>>

\* A username that is taken fails the insert: the index of the table.
WriteCreate(r, u) ==
  /\ req[r].op = "write"
  /\ req[r].kind = "create"
  /\ account[u] = Unborn
  /\ account' = IF UsernameTaken(req[r].username) THEN account
                ELSE [account EXCEPT ![u] =
                        [state |-> "present", username |-> req[r].username,
                         email |-> req[r].email, avatar |-> None]]
  /\ EndTransaction(r)
  /\ UNCHANGED <<pool, file>>

WriteChange(r) ==
  /\ req[r].op = "write"
  /\ req[r].kind = "change"
  /\ account' = [account EXCEPT ![req[r].user].email = req[r].email]
  /\ EndTransaction(r)
  /\ UNCHANGED <<pool, file>>

\* Mutant: a transaction may take as long as it likes.
NoTimeout(r) == FALSE /\ UNCHANGED vars

\* The transaction is rolled back under the handler, whose next statement fails.
\* One that waits for the lock is busy with that statement, and outlives its
\* time.
TransactionTimeout(r) ==
  /\ req[r].op \in {"check", "write"}
  /\ EndTransaction(r)
  /\ UNCHANGED <<account, pool, file>>

-----------------------------------------------------------------------------
(***************************************************************************)
(* The avatar                                                              *)
(***************************************************************************)

\* uploadAvatar: the three steps of FileStorageService.store.
StoreBytes(r, u, f) ==
  /\ req[r] = Idle
  /\ u \in Present
  /\ WriteBytes(f)
  /\ GoOn(r, [op |-> "store", user |-> u, new |-> f])
  /\ UNCHANGED <<account, pool, lock>>

StoreRow(r) ==
  /\ req[r].op = "store"
  /\ CreateRow(req[r].new)
  /\ Goto(r, "look")
  /\ UNCHANGED <<account, pool, lock>>

StoreFails(r) ==
  /\ req[r].op = "store"
  /\ DropBytes(req[r].new)
  /\ End(r)
  /\ UNCHANGED <<account, pool, lock>>

DeleteAvatar(r, u) ==
  /\ req[r] = Idle
  /\ u \in Present
  /\ GoOn(r, [op |-> "look", user |-> u, new |-> None])
  /\ UNCHANGED <<account, pool, lock, file>>

\* setAvatar: what is there is read, and then replaced.
SetAvatarRead(r) ==
  /\ req[r].op = "look"
  /\ GoOn(r, [op |-> "install", user |-> req[r].user, new |-> req[r].new,
              old |-> account[req[r].user].avatar])
  /\ UNCHANGED <<account, pool, lock, file>>

\* Mutant: the new avatar is removed in place of the one it replaces.
RemoveNew(q) == q.new

\* What uploadAvatar and deleteAvatar remove: the file setAvatar has read.
Previous(q) == q.old

SetAvatarWrite(r) ==
  /\ req[r].op = "install"
  /\ account' = [account EXCEPT ![req[r].user].avatar = req[r].new]
  /\ IF Previous(req[r]) = None THEN End(r)
     ELSE GoOn(r, [op |-> "removeFile", target |-> Previous(req[r])])
  /\ UNCHANGED <<pool, lock, file>>

\* An account that points to the deleted row loses the pointer (ON DELETE SET
\* NULL).  A row that is gone is not removed again.
RemoveFileRow(r) ==
  /\ req[r].op = "removeFile"
  /\ LET f == req[r].target IN
       IF file[f] = "stored"
       THEN /\ DeleteRow(f)
            /\ account' = [u \in Users |->
                 IF u \in Present /\ account[u].avatar = f
                 THEN [account[u] EXCEPT !.avatar = None] ELSE account[u]]
            /\ GoOn(r, [op |-> "removeBytes", target |-> f])
       ELSE UNCHANGED <<file, account>> /\ End(r)
  /\ UNCHANGED <<pool, lock>>

RemoveFileBytes(r) ==
  /\ req[r].op = "removeBytes"
  /\ RemoveBytes(req[r].target)
  /\ End(r)
  /\ UNCHANGED <<account, pool, lock>>

-----------------------------------------------------------------------------
\* The process dies, with every handler and every transaction.
Crash ==
  /\ \E r \in Requests : req[r] # Idle
  /\ req' = [r \in Requests |-> Idle]
  /\ lock' = None
  /\ UNCHANGED <<account, pool, file>>

Prepares(r) ==
  \/ \E n \in Usernames, e \in Emails : PrepareCreate(r, n, e)
  \/ \E u \in Users, e \in Emails : PrepareChange(r, u, e)
  \/ Execute(r) \/ Expire(r)

Transact(r) ==
  \/ BeginTransaction(r) \/ BeginTimeout(r) \/ TakeLock(r) \/ Check(r)
  \/ \E u \in Users : WriteCreate(r, u)
  \/ WriteChange(r)
  \/ TransactionTimeout(r)

AvatarBegins(r) ==
  \/ \E u \in Users, f \in Files : StoreBytes(r, u, f)
  \/ \E u \in Users : DeleteAvatar(r, u)

AvatarGoesOn(r) ==
  \/ StoreRow(r) \/ StoreFails(r)
  \/ SetAvatarRead(r) \/ SetAvatarWrite(r)
  \/ RemoveFileRow(r) \/ RemoveFileBytes(r)

Next ==
  \/ Crash
  \/ \E r \in Requests : Prepares(r) \/ Transact(r) \/ AvatarBegins(r) \/ AvatarGoesOn(r)

\* Limits of time are kept, a statement that needs nothing is answered, and the
\* database grants its locks in the order they are asked for.  Nothing is
\* promised of the pool: no fairness of BeginTransaction, Check and Write.
Fairness ==
  \A r \in Requests :
    /\ WF_vars(BeginTimeout(r))
    /\ WF_vars(TransactionTimeout(r))
    /\ SF_vars(TakeLock(r))
    /\ WF_vars(AvatarGoesOn(r))

Spec == Init /\ [][Next]_vars /\ Fairness

-----------------------------------------------------------------------------
(***************************************************************************)
(* Properties                                                              *)
(***************************************************************************)

\* A login code reaches exactly one person: no two accounts have the same
\* address, whatever creations and changes of address overlap, and although the
\* table has no index that would refuse it (withIdentityLock, isEmailTaken).
EmailsAreUnique ==
  \A u, v \in Present : u # v => account[u].email # account[v].email

\* The identity lock is held exactly by the one request that looks up or writes
\* under it, and such a request has a limit of time: nobody waits for a lock whose
\* holder has left, however transactions end (withIdentityLock).
LockGoesWithTransaction ==
  \A r \in Requests : lock = r <=> req[r].op \in {"check", "write"}
=============================================================================
