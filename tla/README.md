# Verification of the «Ош Жибек Жолу» CRM

This directory holds TLA+ modules that model the CRM of this repository, the
TLC runs that check them on small instances, and theorems about them that the
TLA+ proof system checks for every size of the instance.

## 1. The system

The backend (`src/`) is a NestJS application over PostgreSQL (Prisma). Every
operation is an HTTP handler: an `async` function that issues a sequence of
database statements and file operations and awaits each of them. Node runs many
handlers at once and switches between them at every `await`; several processes
may serve one database. Each statement, and each `$transaction`, is atomic;
nothing holds a lock from one statement to the next. So the shape of nearly
every handler is *read the row, check it, write the row by its id*, and the
hard question everywhere is what happens when somebody else writes between the
read and the write, or when the process stops there. Three things answer it in
this code: conditional updates (`updateMany ... where status = ...`, counted),
constraints of the database (CHECK, UNIQUE, ON DELETE), and transactions.

| Component | State | Operations | What is hard | What makes it correct |
|---|---|---|---|---|
| Sales funnel (`src/sales/leads.service.ts`, `bookings.service.ts`, conversion in `contracts.service.ts`) | tables Lead, Booking, Contract and their links | create, assign, reject, convert a lead; create, edit, delete, convert a booking; delete a contract | stale checks; two conversions of one source; foreign key actions that meet a CHECK | a conversion is one-shot; a converted lead never changes; links are exact |
| Contracts (`contracts.service.ts`) | terms, deposit, document, derived status | edit, mark the deposit, attach a document, delete | status derived from a stale row; replacing a file in three steps | no attached document is lost or shared; the status follows deposit and document; the amounts follow the terms |
| File storage (`src/files`) | encrypted bytes on disk, StoredFile rows | store, read, remove | two stores, no transaction across them | an attached file has row and bytes |
| Sales access (`sales-access.service.ts`) | teams | scopes, whom a record may be assigned to | none of its own | a handler writes only in its scope |
| Email codes (`src/email-codes`) | table EmailCode | issue, consume, release | concurrent issues and consumptions, a failed e-mail, a release after a newer code | a code is used once; wrong attempts are bounded |
| Confirmations (`src/confirmations`) | table PendingAction | initiate, confirm, reject, expire | the claim races expiry, rejection and other confirmations; a crash after the claim | an action is executed at most once, and only if confirmed |
| Sessions (`src/auth`) | table RefreshToken, access tokens | login, refresh, logout, revoke all | rotation races itself and a revocation; reuse detection | one usable token per login; the loser of a race takes the winner's token down; no refreshed session outlives a disabling |
| Users (`src/users`) | table User, avatar | create and disable (confirmed), change e-mail and password, avatar | an advisory lock held over a second wait for a connection; the address is encrypted, so no index guards it; the avatar is replaced in steps | an address belongs to one account; every request is answered; no avatar is lost |
| Payroll (`src/payroll`) | settings, PayrollEntry | generate, edit, confirm | generation, edits and confirmation work on what each has read, beside the daily job | a confirmed entry never changes; what is paid is salary less fine and tax; fines are of the month; a carried salary was confirmed |
| Accounting (`src/accounting`) | Transaction, AccountingPeriod, attachments | create, edit, delete, attach, close a period | the check that a month is open is stale when the write happens; an attachment is replaced in steps | the books of a closed month settle; no attachment is lost |
| Attendance (`src/attendance`) | Shift, DayOff, missed shifts | open and close a shift; grant, move and withdraw a day off; the daily job and its catch-up | the job, the button and the day off race for a day, across midnight | a recorded day is final; a timely day off is never marked missed; every working day is accounted for |
| Reports (`src/reports`) | DailyReport | generated when a shift is closed or on request, listed | the content is aggregated one statement before it is stored | a report covers the shift it names |
| Notifications (`src/notifications`) | none | send an e-mail | the mail server may refuse or not answer | its callers undo what depends on the e-mail |
| Backups (`src/backups`, `prisma/backup-restore.ts`) | encrypted snapshot files | export, remind, restore | the files are read after the transaction that read the rows; a restore may stop between the two, or run twice | a backup accounts for every attachment; a restore that says it is done has restored |
| Consent, legal texts (`src/consent`, `src/legal`; `SessionGate` and `ConsentsForm` of the frontend) | append-only ConsentRecord, the versions of a deployment, what a tab believes | record, status, guard; the gate and its form | a deployment publishes a version or requires another document under an open page; refusals are late | guard and status agree; only what was shown is recorded; everybody gets in |
| Crypto, config, money, calendar (`src/common`, `src/config`) | none | pure functions | rounding, ranges, dates | exact integer arithmetic |
| Audit (`src/audit`) | append-only AuditEvent | record | best effort: it never fails a request | events are never changed |
| Dashboard (`src/dashboard`, sums of `src/reports`, `dashboardCharts.ts`) | none | aggregates of several tables, charts of them | statements without a transaction, beside writes; the frontend refuses what it does not expect | figures that are shown together agree |
| Access rights (controllers, `RolesGuard`, scopes of the services; `access.ts` of the features) | none | decided twice: what a page offers, what the server allows | the page decides by a copy of the record and a copy of the rules | what is offered is allowed; nobody writes what is not theirs; unfinished work is somebody's |
| Operator scripts (`prisma/*.ts`) | all tables | seed, reset, delete users, set the director's e-mail, encrypt old rows | run beside the server | idempotence |
| Frontend session (`frontend/src/features/auth`) | tokens and cookies of a tab, the shared refresh, calls in flight | authorized and confirmed requests, login, logout, reload | parallel 401 answers share one refresh; answers are late or lost | the tab does not end its own session; no call runs twice |
| Frontend data (`queries.ts` of the features, `QueryProvider`) | a cache of what the server last answered | queries, forms that invalidate them, clearing at the end of a session | older answers that arrive later; answers to an earlier session | nobody sees the data of an earlier session; a button does not come back over data of before its own form |
| Frontend messages (`frontend/src/components/ui/toast-*`) | visible messages and their timeouts | show, close, pause, resume, clear | pointer, focus, eviction and timeout meet | no message stays for ever |
| Frontend forms (`useEmailCodeConfirm`, the forms of the features) | input, a challenge, calls in flight | ask for a code, submit, edit, create, cancel, leave | answers that come late, out of order or to a form that is gone; records and texts that change under a form | a form fits the last code it asked for; what is done is what was shown; nothing is created twice |
| Queue of confirmations (`PendingActions.tsx`) | rows with a running call | list, confirm, reject, request a user | rows come and go with the list while their calls run | what is resolved is not offered again |
| Frontend lists (the screens with pages) | filter, page | apply, reset, turn a page | controls, query and answer are three things; rows leave meanwhile | no filter leaves an empty page |
| Frontend screens (the rest of `frontend/`) | none | layouts, charts, reading of answers | none of their own | — |

The parts meet in the database and, for a few of them, by calls: the conversion
of a booking is a method of ContractsService that writes bookings; contracts,
transactions and avatars go through FileStorageService; every confirmed action
of UsersService goes through ConfirmationsService, which calls back into it to
execute; a disabling ends the sessions of the account; closing a shift generates
a report; the payroll counts the missed shifts the daily job has recorded; a
backup reads the tables and files of all of them; the browser's session answers
to the rotation of the refresh tokens.

## 2. How the models are built

**One statement, one step.** A handler is a sequence of actions: its reads and
checks up to the first write are one action (`...Read`), and every later
statement or file operation is an action of its own. A `$transaction` is one
action, and so is a single UPDATE with its WHERE clause. Between any two actions
every other handler may run. What a handler carries from one to the next — the
row it read, what it will write — is its record in `req`, whose field `op` says
where it is. Several reads in a row are taken as one, where nothing is compared
between them.

**The one exception** is an UPDATE of many rows in `Sessions`. At READ COMMITTED
such a statement finds its rows in the snapshot of its start and comes to each
of them later; a row that is inserted meanwhile is missed. It is therefore two
actions, one that finds the rows and one that revokes those that are still live.

**In the browser** the steps are those between two answers: JavaScript runs until
it waits, so an answer and all that the waiting functions do with it, up to
their next request, is one action of `Browser`. The server is what `Sessions`
shows it to be, and answers at some moment or never. `QueryCache` is built in
the same way; what the cache of TanStack Query does is modelled as the code
relies on it: a request that is in flight is joined by a view that is opened,
and given up for a new one by an invalidation, unless nothing has been loaded
yet. The data of a view are reduced to the number of forms the server had
carried out when it read them, which is enough to say that they are older than
something.

**Crashes.** Nothing is kept outside the database and the disk, so a process
that dies, a client that disconnects before a later statement and a statement
that fails are the same for the tables: the handler goes no further. `Abandon`
and `Crash` do that at every point (in `Users` a crash ends all handlers at once, for
with them go the transactions and the lock). Where the code has a catch branch (the
removal of an upload whose row could not be written, the downgrade of an action
whose execution failed, the release of a code) that branch is an action.

**Rows** are records in a function from identifiers to rows. Identifiers are
UUIDs and are never used twice, so a row goes from `"unborn"` through its states
to `"deleted"`. CHECK and UNIQUE constraints and foreign key actions are guards
and effects of the action that meets them. Time is either a flag that an action
may raise at any moment (a code, an action or a token has expired, a code has
left the rate window) or a clock, in days in `Attendance` and in months in
`Payroll` and `Accounting`.

**Data** that no property tells apart is left out: names, phones, amounts of
money, reasons, the encryption of columns and files. In `Contracts`, `Payroll` and
`Dashboard` the amounts are numbers, computed as the code does it, because there
the properties are about what they follow from and add up to. Of the input of a
form there is left whether it may be sent (`CreateForms`) and which of two drafts
it is (`CodeForms`).

**History variables** record what no table remembers: how often an action has
been executed, which guesses were answered, which tokens a client holds. They
are marked as such and no guard reads them, but for `held` in `Sessions`: a
client can only bring a token it has been sent. `stale` in `Contracts` are the
handlers that have been overtaken: another one has written a column of their
contract that they had read before. `unread` in `Backups` are the files listed as
missing because their reading failed, though they were there. `settled` in `Accounting` are
the months at whose closing, or later, no handler was in flight for a moment;
`closedAt` and `cause` in `Reports` remember what a closing came before and which
one stored the report; `shown` in `QueryCache` which forms the component
of a button has seen answered;
`refused`, `lost` and `burned` in `Browser`, and the count `ran` of a call, are
what the network and the server have done to the tab; `ticked` in `Consents` the
versions a user saw when ticking; `resolved` in `PendingActions` what the page has
been told. `lost` and `reread` in `CreateForms`, `left` in `Cards` and
`PendingActions` and `gone` in `Lists` note that something has happened after
which a property no longer speaks.

**Hosts.** Small parts share a run. Their `MC` module has the variables of all of
them, which have nothing in common, and a variable `part`: of a behaviour one part
moves, and the others stay as they began. Such a run checks one part after the
other in a single search, and no state combines two of them.

## 3. The modules

| Module | Models | Correspondence |
|---|---|---|
| `SalesSchema` | `SalesAccessService`, CHECK constraints of Lead and Contract, `deriveContractStatus` | constants and operators used by the two below |
| `Funnel` | `LeadsService`, `BookingsService`, `ContractsService.createFromBooking` and `remove` | `lead`, `booking`, `contract` are the tables; `AssignRead`/`AssignWrite` and so on are the two halves of the handler of that name |
| `OneShot` | nothing of the code: what a conversion and a rotation promise | `Funnel` implements it with the link from leads to bookings, `Sessions` with `replacedByTokenId` |
| `FileStorage` | `FileStorageService.store` and `remove` | the life of one upload: bytes, row, and their removal in the opposite order |
| `Contracts` | `ContractsService.update`, `markDeposit`, `attachFile`, `remove` | `AttachRead`, `StoreBytes`, `StoreRow`, `Install`, `RemoveFileRow`, `RemoveFileBytes` are the six steps of `attachFile`; composed with `FileStorage` |
| `EmailCodes` | `EmailCodesService`, `EmailCodeInterceptor` | `IssueRead`, `Invalidate`, `Create`, `SendSucceeds`/`SendFails`; `ConsumeRead`, `Claim`, then the protected handler `ActHappens`/`ActRejected`, `Release`; `FailWrite`, `FailReread` are the loop of `registerFailedAttempt` |
| `Confirmations` | `ConfirmationsService` and what it calls in `UsersService` | `ConfirmRead`, `Claim`, `Execute...`, `Downgrade`; `CountRead`, `CountWrite` are the attempt loop; `RejectRead/Write`, `ExpireRead/Write` |
| `Sessions` | `RefreshTokenService`, login, refresh and logout of `AuthService`, `executeDisableUser` and `changePassword` of `UsersService` | `RotateRead`, `RotateIssue`, `RotateClaim`, `RefreshRead`, `Respond` are a refresh; `BurnStart`/`ExpelStart` and `Revoke` an UPDATE of many rows |
| `Attendance` | `ShiftsService`, `DayOffsService`, `MissedShiftsService`, the calendar | `OpenRead`, `OpenDate`, `OpenWrite`; `GrantRead/Write`, `MoveRead/Write`, `WithdrawRead/Write`; `RunStart`, `RunSelect`, `RunInsert`, `RunEnd`, `RunFail` are the job |
| `Money` | `mulDivRoundHalfUp`, `percentOf` | whole tyiyn and hundredths of a percent |
| `Payroll` | `PayrollService` | `GenStart` to `GenEnd` are the statements of `generate`, for each employee `GenCount`, `GenFind`, then `GenRefresh` or `GenPrevious` and `GenCreate`; `EditRead`/`EditWrite` are `update`; `Confirm`; `NewMonth`, `Disable` and `RecordMissed` are what the rest of the system does to the tables that payroll reads |
| `Accounting` | `AccountingService` | `Create`, `Update` and `Remove` as `...Read` and `...Write`; `AttachRead`, `StoreBytes`, `StoreRow`, `Install`, `RemoveFileRow`, `RemoveFileBytes` are `attach`; `ClosePeriod`; composed with `FileStorage` |
| `Backups` | `createSnapshot`, `restoreSnapshot`, the scripts around them | extends `Accounting` by an export beside its handlers (`ExportRead` is the transaction, `ExportFile` the reading of one file) and by restores into an empty target (`RestoreCheck`, `RestoreInsert`, `RestoreFile`) |
| `Browser` | `session.ts`, `client.ts`, `confirmedRequest.ts` of the frontend, and the server as it appears to them | `DataRefused` is the catch branch of `authorizedRequest`, `JoinRefresh` and `RefreshAnswered` the two halves of `refreshSession`, `Reload` is `restoreSession`; `Serve...` and `Lose...` are the server and the network |
| `Reports` | `ShiftsService.close` and `ReportsService.generate` | `CloseRead` and `CloseClaim`, then `Aggregate` and `Store`, which `Regenerate` starts as well; `Change` is whoever writes the tables that are summed up |
| `QueryCache` | the queries and mutations of the features, `QueryProvider` | `Mount`, `Read`, `LoadDone` are a query; `Submit`, `Serve`, `Succeed` a form; the `...Forms` tables say which views each form of a feature invalidates and which buttons wait for it |
| `Toasts` | `toast-store.ts`, `toast-queue.ts`, `ToastCard` | an action per function of the store and per event of a card |
| `CodeForms` | `useEmailCodeConfirm` with the eight components that use it, and the form of the login | `Ask`, `Answer` and `Submit`, `Result` are the two mutations of the hook; `Cancel`, `Leave`, `Block` what a component does to it; `Issue` and `Perform` the server as `EmailCodes` lets it act |
| `EditForms` | the forms that send the difference to a record | `Open` takes the values, `Submit` the difference, `Refetch` reads the record in between |
| `CreateForms` | the forms that create contracts, bookings, leads, users, days off, a payroll; the text and the box of a buyer's consent | a table of the forms (which stay open, which clear, what a button waits for), and an action per event of a form |
| `Cards` | `PayrollEntryDetail`, `TransactionCard`: two writes of one record | `SendCorrection`, `SendConfirmation`, and the closing of a card over a running call |
| `PendingActions` | `UsersScreen` with the queue of confirmations | `HandleConfirm`, `HandleReject`, `ListPending`; `Done` and `Failed` are the answers; `ResolvedElsewhere` is another Director |
| `Lists` | the six screens with a list page by page | `typed`, `applied` and `offset` are the state of a screen; an action per control |
| `Dashboard` | `DashboardService.summary` and `salesAnalytics`, the sales report, and how the frontend accepts and draws them | `Find` runs one statement of the list `Statements`; `Accepts` is the parser, `Donut`, `CategoryBars`, `FormatCompactSom` the charts |
| `Access` | the roles and scopes of the server beside the `access.ts` of the features | `Routes`, the `...Scope` and `Permits...` operators are the server, `Offers` and `NavItems` the pages; `Click` does what a page offers, and the server carries it out or refuses |
| `Consents` | `ConsentService`, `ConsentGuard`, the consent in the session, `SessionGate`, `ConsentsForm` | `Status` and `HasAllRequired` are the two answers of the server; `GateChecks`, `FormChecks`, `RefusalArrives`, `Redirect` the pages; `Release` a deployment |
| `Users` | `UsersService` under `withIdentityLock`, and the avatar | `BeginTransaction`, `TakeLock`, `Check`, `Write...` are the statements of `executeCreateUser` and `confirmEmailChange`; `FreeConnections` is the pool of the database client; `StoreBytes` to `RemoveFileBytes` are the avatar, composed with `FileStorage` |

`...Proofs` holds the theorems about a module and about the parts that are its
guests in a run, `MC...` instantiates it for TLC.
A definition named in `PROJECT.json` under "map" is a translation of the lines
given there. A definition whose comment begins with "Mutant:" is not part of the
specification: it is the definition that follows it with a plausible mistake in
it, and is used to see that a property notices the mistake.

## 4. The runs

Each `.cfg` is run as `tlc -config X.cfg M`. Where slots are interchangeable the
configuration declares a symmetry; `Attendance` and `Users` declare none, because
a liveness property is checked there. `contracts` declares one beside a liveness
property: what it permutes are slots of `Contracts` only, which stay as they began
wherever `Consents` moves, so that no behaviour of `Consents` is lost. The runs
with requests that may simply never come say
`CHECK_DEADLOCK FALSE`: when every row that the instance has is
used up and every request answered, nothing is left to do.

| Run | Instance | What it shows |
|---|---|---|
| `funnel` | 1 lead, 2 bookings, 2 contracts, a head with one manager, 2 handlers | the link of a lead and its booking is exact in both directions, and a booking never has two contracts, not even after a stale PATCH has made it active again (`LinksAreExact`); a converted lead never changes (`ConvertedLeadIsFinal`); the conversion of leads implements `OneShot` (`LeadConversionIsOneShot`) |
| `contracts` | 2 contracts, 2 uploads, 2 handlers that may die anywhere; or 1 contract, 1 upload, and edits among 2 areas, 1 price and 2 percentages; `Consents` with 2 documents, 2 versions, 2 deployments, 2 refusals on their way, 2 setbacks, 2 rows | an attached document keeps its row and bytes until it is replaced or its contract deleted (`DocumentIsNeverLost`); the status follows from deposit and document, and only a mark or an upload that was overtaken takes that away (`StatusIsExact`); total and deposit are those of the stored terms under any overlap of edits, and an edit that was not overtaken leaves the terms alone that it does not name (`EditsAreSound`). Guard and status of the consents decide alike, and what is recorded was listed in that version when it was ticked (`ConsentsAreSound`); whatever is deployed or fails, in the end the user is in (`EverybodyGetsIn`) |
| `codes` | one of seven parts. `EmailCodes`: 1 code, 2 kinds, 3 requests, MaxAttempts = Retries = 3. `CodeForms`: 9 forms, 2 drafts, 3 codes. `CreateForms`: 8 forms, 2 fillings, 3 calls, 2 versions. `Cards`: 2 cards, 2 corrections. `PendingActions`: 2 actions, 1 setback. `Lists`: 6 screens, 1 status, 1 value to search for, pages of one row, 2 rows. `Access`: 9 people in two teams, 6 kinds of record, 2 pages open | a code lets at most one action happen and runs one at a time (`CodeUsedOnce`); a code that has had MaxAttempts wrong guesses is never claimed again (`LockedCodeIsNeverClaimed`); a form holds the challenge of the last code it asked for, what is done under it was on the screen then, and a buyer's consent is that buyer's (`DoneAsShown`); what was filled in once is created once, two writes of one card or row are never on the way together, and what is resolved is not offered again (`NothingIsSentTwice`); no filter and no page leads to an empty page (`NoBlankPage`); the pages offer what the server allows, but for the refusals named in section 5, nobody writes what is not theirs, unfinished work is offered to somebody as long as those it belongs to have an account, and the menu leads to no refusal (`RightsAgree`) |
| `confirmations_rejected_executed` | 1 action, 1 Director, 2 requests | a violation: see section 5 |
| `edit_forms` | 4 forms, 2 fields, 2 values | a violation: see section 5 |
| `sessions` | 1 login of 1 account, 3 tokens, 3 requests | a client has one usable token per login (`OneSessionPerFamily`); the reuse of a token kills its successor (`WinnerDiesWithLoser`); no refreshed token outlives a disabling (`DisabledIsNotRefreshed`); the rotation of tokens implements `OneShot` (`RotationIsOneShot`) |
| `attendance` | 4 days with 2 working days, 1 employee, 1 day off, 1 request, 2 runs of the job, 1 failure | no recorded day changes (`RecordedDayIsFinal`); a timely day off is not marked missed (`DayOffIsRespected`); no past working day is forgotten (`NoDayIsForgotten`) |
| `payroll` | 2 months, 1 employee, 2 generations, 1 edit, a tax of one half on a salary of 3 | what is paid is the salary less fine and tax of the row, whoever wrote the amounts, the count of an entry is of its own month, and the tax never exceeds the salary (`EntriesAreExact`); a new entry carries over a salary that is confirmed when it appears (`SalaryIsCarriedOver`); a confirmed entry never changes (`ConfirmedIsFinal`) |
| `backups` | 2 months, 1 transaction, 2 values, 3 files, 2 handlers that may die anywhere, 2 exports, 2 restores; once an export has begun, 1 handler, 2 files, 1 value and 1 month | the books of a closed month settle (`ClosedMonthSettles`); an attachment is only replaced by one that can be read (`AttachmentIsNeverLost`); a backup has, or lists as missing, every attachment of its transactions, and what it lists could not be read, or is attached no more (`BackupIsSound`); a restore that says it is done has restored its backup (`DoneIsRestored`) |
| `browser` | 1 tab, 2 calls and 2 refreshes in flight, 3 pairs of tokens | the tab loses its session to reuse only when the answer to a refresh is lost, who waits for a refresh waits for one in flight, and no call is carried out twice (`SessionIsSound`); no refresh for a pair that was not refused (`RefreshIsDue`) |
| `users` | 3 accounts, 3 usernames, 2 addresses, 2 files, 2 handlers, a pool of 1, 2 or 3 connections | no two accounts share an address, and the lock that sees to it is held exactly by the one past it (`AccountsAreSound`); handlers that wait for a second connection or for the lock are answered (`EveryRequestIsAnswered`); an avatar is only replaced by one that can be read, or taken off by its owner (`AvatarIsNeverLost`) |
| `parts` | one of five parts. `Confirmations`: 1 action, 2 Directors, 3 requests, 3 attempts, 2 rounds. `QueryCache` with any one feature, and either 1 view, 2 forms in flight and 2 logins or 2 views, 1 form and 1 login, 2 writes, 2 users. `Toasts`: 5 messages. `Reports`: 2 shifts, 3 requests, 2 changes. `Dashboard`: 2 sellers, 2 operations of 1 or 5 som, 2 writes | an action is executed at most once (`ExecutedAtMostOnce`); confirmed means done and failed means not done, unless the request that claimed the action died (`ResolutionIsTruthful`); every answered wrong code is counted (`GuessesAreCounted`); what is loaded was loaded in the session that looks at it, and a button that waits for a form comes back over data that show what the form did (`CacheIsSound`); the timeout of a message that nobody holds is running (`UnheldToastIsTimed`); a report that a closing has stored holds all that was recorded before the shift it names was closed, and the sales report names nobody for not opening a shift that was open before (`ReportsAreSound`); figures that are drawn together agree, and the frontend refuses a summary for negative pay alone (`FiguresAreSound`) |

**Why the bounds are enough.** Every hazard listed is a race of two or three
handlers for one row. An invariant over pairs of rows needs two rows of each
kind and two handlers; the third request of `codes`, `confirmations` and
`sessions` is there for the properties that need a winner, a loser and somebody
who writes behind both. Three tokens are a login, its successor and the
successor's successor, which is the longest chain a revocation has to follow
before it meets a token nobody holds yet. With two kinds a code of the wrong
kind can be brought. Retries = MaxAttempts is the tightest value the assumption
allows: with one round less `LockedCodeIsNeverClaimed` fails. In `Attendance`
two working days are needed for the order of the catch-up, two runs for the
overlap, and one failure for a night that must be made up for; with a lookback
of two days no day can drop out of it before the clock stops on day 3.

In `Contracts` the replacement of a document takes two uploads and two contracts to
confuse, the edits one contract and two handlers; edits, marks and one upload do
meet. An area of 1.50 at a price of 3 and a deposit of a half fall between two
tyiyn, and a deposit of 30 percent is the default, which a body that names no
percentage must not restore. Edits of one price alone are enough for the price,
which is completed like the percentage. In `Backups` at most one file is unread.

In `Payroll` two months are needed to carry a salary over and to count in the
wrong month; employees never meet, so one is enough; a salary of 3 taxed by one
half falls between two tyiyn, so that rounding shows. In `Accounting` three
files are an attachment and the two that race to replace it, and two months one
that is closed and one to move a transaction to. In `Backups` one handler is
enough once an export has begun, because the export is the second actor, and one
month, as no closing matters to a backup; two restores are one that stops and one
that is repeated, or two at once. In `Browser` two calls are the one that
refreshes and the one whose 401 is late, two refreshes the shared one and one of
the page before a reload, and three pairs a login and two refreshes, or a second
login.
In `Users` a pool of one connection can never give a second one, two are used up
by two handlers that each hold one, and three leave one over.

In `Reports` two shifts are two accountants or two heads of sales, or one day's
closing beside another's; three requests are two closings and one that the
Director sends, or two closings of one shift and one of the other. In
`QueryCache` two writes are the one that a form has made and one that came
before or after it; two forms are what a card with two buttons can have in
flight; two sessions are all it takes for an answer to come late. A form
refreshes at most three views, and the button is drawn over one of them, so one
further view is what can load before it. In `Toasts` the fourth message evicts
the first and the fifth the second.

In `CodeForms` two drafts are what a code was asked for and what the screen shows
later; with three codes an answer can be two codes late. In `CreateForms` two
fillings are one that is sent and the next person's, three calls a first one, its
repetition and the next filling's, two versions a text and its successor. In
`Cards` two corrections are one on its way and one typed over it. In
`PendingActions` one action is answered while the other keeps the list alive, and
one setback is a call or a reading that fails. In `Lists` pages of one row and two
rows are the fewest with a second page, one row that comes or leaves is what makes
a page stale, and the two parts of a filter behave alike for every value. In
`Dashboard` two sellers make a sum, two operations two categories, and a salary of
1 less fines of 2 is a debt; Thousand = 2 lets sums reach every unit of
the short form. In `Access` each role that sees a record is there, the ones that are compared
with each other twice (heads, managers of one team, accountants); a manager and a
head may leave, and two pages are one that has grown old and one that acts
meanwhile. In `Consents` two documents are one that was accepted and one that was
not, each in two versions; two deployments change both a version and what is
required; two refusals are one that is handled and one that is late.

Every safety property that a run checks is also proved for every value of the
constants (section 6), but for the two that do not hold, so that what is said of
races, crashes and stale data does not rest on the size of an instance. The
instances remain what shows that the properties can be broken, that every action
happens, and that something happens in the end.

**Fairness** is assumed in `Attendance` and `Users`, of the server alone, and in
`Consents`.
In `Attendance` a slot of the daily job that is idle starts a run in the end (the
cron expression starts one a day and `onApplicationBootstrap` one at every start
of a server), and a run's next statement is executed unless it fails. Runs fail
at most MaxFailures times: a database that always fails records nothing. The
clock stops on LastDay, which is to be read as that day lasting as long as the
behaviour needs, so "in the end" is within a lookback of working runs, not at a
given hour. In `Users` the limits of time of the database client are kept (a
transaction that finds no connection is refused after maxWait, one that lasts
longer than its timeout is rolled back; `withIdentityLock` passes no options, so
the defaults hold), a statement that needs nothing else is answered, and the
database grants the lock in the order it is asked for (strong fairness of
`TakeLock`, which is disabled again and again while others hold the lock).
Nothing is promised of the pool: whether a handler ever gets its second
connection is left open, and `EveryRequestIsAnswered` holds by the timeout alone,
which is the point of it. No request is ever assumed to come or to go on. In
`Consents` the pages do what they do by themselves (`Check` is the gate, the form
and the answer to either, `Redirect` the move to the page that is due), a page
that is refused gets its refusal, and a user who looks at the form fills it in and
sends it (`Fill`), because a property of getting in is about users who want to.
Deployments, failures and ticks that are taken back are bounded and not fair.

## 5. What the code does not do

The run `edit_forms` checks what comments in two of the forms say, that only
changed fields are sent (`SendsOnlyWhatChanged`), and finds it violated: a form
takes its values when it opens and compares them, when it is sent, with the record
the cache holds by then. If that was read again in between and another user had
changed a field, the old value of the field goes back to the server as a change.

The run `confirmations_rejected_executed` checks a property that a test of the
repository states and finds it violated (`RejectedIsNotExecuted`): a rejection
that read the action before it was claimed writes rejected over confirmed, and
the action is executed all the same. `PROJECT.json` quotes the sentence. The
write is by id after a check that has grown old; the code beside it shows the
remedy, an `updateMany` whose WHERE repeats the check.

Seen while modelling, with no run spent on them; the models have these
behaviours, and the properties above are what holds in spite of them. The first
five have the same shape as the rejection:

- A PATCH of a booking that read it before its conversion writes status active
  over converted (`bookings.service.ts:171`), although the conversion is meant to
  be atomic (`contracts.service.ts:160`).
- An assign that read the lead before its rejection reopens it
  (`leads.service.ts:170`); `OPEN_QUESTIONS_ADDENDUM.md:269` has a mistaken lead
  closed by the status rejected.
- A deposit mark beside an upload leaves a status that does not follow from
  deposit and document (`contracts.service.ts:365`, 380); the comment at 60 says
  that signed is deposit and document. It says too little: both are there and the
  status is `deposit_paid`, if the mark wrote last, or `draft`, if the upload did.
  The CHECKs of the table refuse the statuses that would say too much.
  `StatusIsExact` excepts the handler that was overtaken, and it alone.
- Of two PATCHes of one contract the later one writes all three terms, those its
  body does not name as it had read them, so it takes back what the other one
  changed (`contracts.service.ts:316-342`). `EditsAreSound` is what remains: the
  amounts are those of the terms, whichever they are.
- A manager's PATCH that read the contract before it was signed changes the
  terms of a signed contract (`contracts.service.ts:321`); `README.md:119` calls
  it read-only.
- Two issues at once leave two live codes of one kind
  (`email-codes.service.ts:102`), although a newer code is said to supersede the
  older (64). Concurrent issues exceed the limit of codes per window (88 counts,
  109 inserts). A code given back by `release` may be live beside one that was
  issued later.
- A booking that grew out of a lead cannot be deleted: the foreign key sets the
  lead's bookingId to NULL, which the CHECK `Lead_converted_has_booking` refuses
  (`bookings.service.ts:205-211`); a converted booking without a lead is deleted,
  although `test/real-db/route-coverage.e2e-spec.ts:352` says that it is not.
- A lead is converted for the manager it had before the transaction
  (`leads.service.ts:236`); the claim (244-247) does not compare the manager, so
  the booking may go to the manager the lead had before a reassignment.
- The expiry of an action overwrites a claim as the rejection does
  (`confirmations.service.ts:345-348`, `383-386`).
- A process that dies after the claim of an action leaves it confirmed and not
  executed, and nothing finds it again (`confirmations.service.ts:241`).
- Two uploads to one contract, one transaction or one account that overlap
  remember the same old file, so the first upload is replaced and stays on disk
  (`contracts.service.ts:386`, `accounting.service.ts:214`,
  `users.controller.ts:127`).
- `revokeFamily` may miss the token that a refresh of the successor inserts while
  the UPDATE runs (`refresh-token.service.ts:156`). What its comment promises,
  that the losing request's revocation covers the winner's token, holds.
- A login that has checked status and password before the account is disabled or
  its password changed inserts its session afterwards (`auth.service.ts:77`,
  131), so such a session is live; `docs/THREAT_MODEL.md:40` says that disabling
  revokes all sessions. Its first refresh finds the account disabled, and
  `JwtStrategy.validate` refuses its access token before. After a change of
  password nothing refuses it.
- A day off written after midnight by a request that checked before may stand on
  a day that is recorded as missed (`day-offs.service.ts:78`); opening a shift
  does not look for a day off; two openings by one employee that overlap across
  midnight give him two open shifts (`shifts.service.ts:57-63`).
- An edit of a payroll entry writes amounts computed from the missed shifts and
  rates it read, while a generation may have written others to the row; the
  entry then shows a count and rates its amounts do not follow from
  (`payroll.service.ts:179`, 317). Of two generations the one with the older
  count may write last. The sum is exact all the same (`FinalIsExact`): a
  generation that computed from another salary than the row's is refused by the
  CHECK, and its request fails with employees left.
- A handler that found its month open writes into it after it was closed, and
  one that overlaps with it may go on with what it wrote
  (`accounting.service.ts:112`); `schema.prisma:528` says that the transactions
  of a closed month are locked. `ClosedMonthSettles` is what remains.
- A file whose reading fails for whatever reason is listed as missing although it is
  on the disk and attached (`backup-snapshot.ts:127`); `backup-inspect.ts:21` calls
  these files absent from the disk.
- A restore that stopped after its transaction is refused when it is repeated,
  because the tables have rows (`backup-snapshot.ts:177`, 228): the operator must
  empty the database by hand to get the files.
- The answer to a refresh that arrives after a logout sets the tokens of the tab
  again (`session.ts:87`), although it shows the login form. Two tabs have the
  cookie in common but each its own CSRF token in sessionStorage, so after one
  has refreshed the other's refresh is refused and its session cleared.
- `set-director-email.ts:66` writes an address without the identity lock and
  without looking for another account that has it, while
  `OPEN_QUESTIONS_ADDENDUM.md:178` has addresses unique.
- A creation that a Director started is executed when the second one confirms it,
  although the first has been disabled in between (`users.service.ts:177`).
- Of two generations of one report that overlap, the one that aggregated first may
  store last (`reports.service.ts:78`, 80), and `generatedAt` dates it as the
  newer, although a later regeneration is said to replace the content (63). A
  generation that the Director asked for may so take the place of one that a
  closing has stored, under the name of its shift.
- The button of a shift is disabled by the mutation of the card that submitted it
  (`CurrentShiftCard.tsx:128`). A card that is left while the form is in flight
  and shown again draws the button of before until the shift has been loaded,
  although the comment at `shifts/queries.ts:83` has it disabled all that time.
  The server refuses the second form.
- With the focus on the button of a message and the pointer on its card, the first
  of the two to leave starts the timeout again (`ToastProvider.tsx:84-92`), and
  the message closes under the other; the comment at `toast-store.ts:63` says that
  either of them pauses it.
- The first load of a view that is in flight when a form is answered is not given
  up for a new one, so a list may be shown without what was just added and count
  as fresh for 30 seconds (`QueryProvider.tsx:13`). For this reason
  `CacheIsSound` speaks of the buttons that are drawn over loaded data,
  and only of forms that were submitted over it. Nobody waits for the list of
  leads (`LeadsScreen.tsx:75`). What a form changes elsewhere (the reports, the
  dashboard, the bookings after a lead was converted) is not invalidated.
- A form that is answered after the end of its session still shows its message in
  the next one.
- Fines above the salary make a payroll entry negative (`payroll.service.ts:60`;
  `OPEN_QUESTIONS_ADDENDUM.md:138` says so on purpose). If the payroll of a month is
  negative in sum, the frontend refuses the whole summary of the home page
  (`reports/parse.ts:104`), as it takes no amount below zero.

Of the forms and screens of the frontend:

- A POST whose answer is lost is repeated by the user, and the contract, booking,
  lead or pending account exists twice; nothing in the call names it. So
  `NothingIsSentTwice` speaks of behaviours in which no such answer is lost. A
  consent that is sent again is recorded again.
- Closing a card does not stop its call, and the card that is opened again knows
  nothing of it (`TransactionCard.tsx:38`), so the second write may be sent beside
  the first. In the same way a failed reading of the queue of confirmations takes
  away the rows over a running call, after which the action can be confirmed or
  rejected again.
- `ConvertLeadDialog` can be cancelled while it sends; its late success closes
  whatever dialog is open by then (`LeadsScreen.tsx`). The header's "Отмена" of
  `ContractsScreen` and `BookingsScreen` stays enabled as well.
- The tick under a buyer's consent stays when the text is read again and has
  become another version, and that version is sent.
- The settings of the payroll and the change of an address can be given up while a
  code is asked for; a form opened again may get the answer of the older ask, whose
  challenge the server has ended. `EditTransactionForm` has no way back once it
  waits for a code.
- A row that leaves a filter may leave the user on an empty page after the first,
  where nothing leads back unless a filter is set.
- A pending disabling is listed, but no row resolves it (`PendingActions.tsx:250`).
- A director is offered changes of bookings, contracts and days off that the
  server refuses since they were withdrawn from the role; the description at
  `bookings.controller.ts:33` still names the role. A manager is offered another
  file for a signed contract, which the server refuses
  (`CONTRACT_SIGNED_READ_ONLY`). A reception sees "Открыть бронь" for a booking out
  of its scope. A record whose owner and whose head are both disabled can be
  changed by nobody.
- A document named twice in `LEGAL_REQUIRED_CONSENTS` locks everybody out: the guard
  compares the number of accepted types with the length of the list
  (`consent.service.ts`). The lists of the model name nothing twice.
- A consent whose text is in flight while the list is read again is shown under the
  new version; a text that failed to load once cannot be read, but be accepted
  (`ConsentsForm.tsx`).

## 6. What is proved

`tlapm` checks every proof to its last leaf, for every number of rows, requests,
users and files. The parts that share a run have their proofs over the behaviours
of that run, in which one of them moves. The theorems assume the named assumptions
of the modules, each of which TLC evaluates for the instances:

| Assumption | Says |
|---|---|
| of `SalesSchema`, `Funnel`, `Contracts`, `Accounting`, `Sessions` | NULL is no identifier; roles are disjoint |
| `ConfirmationsAssumption` | the limits are positive |
| `CodesAssumption` | the limit of attempts is at most the number of rounds of the counting loop (the code has ten rounds and a configurable limit) |
| `TermsAssumption`, `NoneIsNoTerm` | areas are positive, prices not negative, percentages at most 100, which `computeAmounts` and the DTOs demand; a field that is left out is none of them |
| `PayrollAssumption` | amounts and fines are not negative and a rate is at most 100 percent, which the DTOs and `putSettings` demand |
| `MaxExportsAssumption`, `BackupAssumption` | the bound on exports is a number; a backup is not the empty target |
| `UsersAssumption` | the accounts that exist from the start are of their types; a deployment gives the process at least one connection |
| `BrowserAssumption`, `PartsAssumption` | what stands for no refresh, no user, no shift is none |
| `ConsentsAssumption` | the lists of required consents name documents for users, and none of them twice (section 5 says what happens if one does) |
| `FiguresAssumption` | the people and the rows are finitely many; no amount of an operation is negative (`CreateTransactionDto`), salaries and fines are whole numbers, and a short form begins at a positive amount |
| `EndsAssumption` | a page of a list has room for one row, and the rows are finitely many, of finitely many kinds |
| `StaffAssumption` | everybody has one of the six roles, and who has a head is a sales manager, and the head a head of sales (`executeCreateUser`; nothing changes a role or a team) |

Nothing else is assumed; of fairness nothing, and of finiteness what the table says.

Each proof has the same outline: Init establishes an inductive invariant, every
action preserves it (one step per action, and under it one per conjunct that the
action touches), it implies the property, and a temporal step puts the three
together. Types alone are never inductive enough; what had to be added is what
the code relies on without saying so:

- `FunnelInv` (`FunnelProofs`): the types, the CHECK on leads, and the exact
  link of leads and bookings. It is the CHECK that makes the deletion of a
  booking safe: it refuses to take the booking from a converted lead.
  `LeadConversionImplementsOneShot` shows that every step binds a lead or
  changes no link. `OneContractPerBooking`, the other part of `LinksAreExact`, is
  inductive by itself, thanks to the UNIQUE on the booking.
- `DocumentsInv` (`ContractsProofs`): it follows an upload through the handlers.
  While one stores and installs it nobody else knows of it (`UploadIsUnknown`);
  a document that a handler will replace is no other contract's
  (`ReplacedIsNoOthers`); a file about to be removed is no contract's at all
  (`DoomedIsNobodys`); an attached one has row and bytes (`AttachedIsStored`).
- `ReadingsInv` stands on it: as long as a handler has not been overtaken, what it
  remembers is what the row has: a mark whether there is a document, an upload
  whether the deposit is paid, an edit the terms that its body leaves out
  (`FreshReadings`). A write makes stale exactly those who remember what it writes,
  and the removal of a file touches no row, by `DoomedIsNobodys`. From there
  `StatusStaysExact` and `EditsKeepTheRest` follow statement by statement.
- `CodesInv` (`EmailCodesProofs`): who holds a code is who consumed it; a code
  that let an action happen is consumed for good; and a guess that is being
  counted in round n has lost n - 1 rounds to guesses that were counted, so that
  the loop only gives up when the code is locked.
- `ConfirmationsInv` (`ConfirmationsProofs`): the request that has claimed an
  action is alone with it, and the action is no longer pending, though it may be
  rejected or expired behind the request's back.
- `SessionsInv` (`SessionsProofs`): a token on its way to the client is carried
  by one request; a family has at most one live token that is held or on its
  way; and an UPDATE of many rows that is under way has found the rows it must
  revoke, because the successor exists before its predecessor is claimed.
  `RotationImplementsOneShot` shows that every step binds a live token to a
  successor that replaces no other token, or changes no replacement: the claim
  that loses binds nothing, and no revocation touches `replacedByTokenId`.
- `AttendanceInv` (`AttendanceProofs`): a request about to open a shift has a
  date that is not in the future, and a run about to insert has a day that is
  over and employees without a timely day off on it: what is written from then
  on is late.

- `PayrollInv` (`PayrollProofs`): what stays true of a value that has been read
  and may be stale. The count a generation carries was true of its month, and
  counts only grow; the amounts it carries are exact for some salary, and the
  CHECK admits them only where the row has that one, since the final amount
  determines it; the salary it carries is that of an entry that was confirmed,
  and a confirmed entry never changes. A lemma of its own, `PercentIsWithin`,
  is about the rounding of the tax. `EntriesExact` puts the three parts of
  `EntriesAreExact` together.
- `FilesInv` (`AccountingProofs`) follows an attachment as `DocumentsInv` follows
  a document. `DoomedDetachesNothing` shows that the foreign key never has a
  pointer to clear. `BooksInv` adds that a handler in flight writes to no settled
  month: it began after the moment without handlers, so it has found its months
  open, and a month that is open then is settled only after it has ended.

- `BackupInv` (`AccountingProofs`) stands on `FilesInv`: at the moment of the
  export's transaction every attachment has its row, and what is then listed as
  missing was not read, or is gone for good, so no transaction can still have it. A restore writes
  its rows into an empty target, so one that has written them is alone with it.
- `AccountInv` is about `withIdentityLock`: who has checked that a name or an
  address is free, and is about to write it, holds the lock, so nobody else can
  have made it taken. Its count of the transactions, which the pool limits, is by
  cardinalities. `LockGoesWithTransaction` is inductive beside it: the lock is held
  exactly by the request that looks up or writes under it, so none is left behind
  by a transaction that has ended, and whoever waits for it waits for a request
  with a limit of time. That is the part of `EveryRequestIsAnswered` that needs no
  fairness. `AvatarInv` is `FilesInv` again for the avatars: what is installed
  is its handler's alone, what is removed is nobody's.
- `ConsentInv` (`ContractsProofs`): the ticks of the form are of the versions it
  lists, also while it is being sent. That guard and status decide alike needs, of
  a list without repetitions, that it has as many members as it is long.
- `CacheInv` (`ConfirmationsProofs`): what is loaded or on its way belongs to the
  session that looks at it, no answer in flight is older than what is there, and
  as long as a view does not show the outcome of a form it waits for, a request
  that was sent later is on its way, or the view says that it has failed.
- `ToastInv`, `ReportInv`, `SalesInv`: messages have increasing numbers and one
  timeout each; who goes on to a report for a shift has closed it, and nobody closes
  it again; a shift that has been opened stays so, so a later statement finds it.
- `FiguresInv` (`ConfirmationsProofs`): every statement of a summary has found
  figures that add up on their own, and every statement of the analytics is about
  the sellers that the first one found; nothing else relates them, because no
  transaction does. What remains is about sums over finite sets. The induction
  theorem of the library takes an operator, but its well-founded order on subsets
  does not: `SmallerFirst` and `OneByOne` are induction over a finite set for the
  set of the subsets that a fact holds of. From them follow the equation of
  `SumFunctionOnSet` (`SumExists`, `SumWithout`) and the lemmas about disjoint
  parts, ones and renamed elements; that a list by amount exists and names every
  category that occurs once (`ListExists`, `ListIsWhole`), so that the bars add up
  to the donut (`BarsAddUp`); and that the short form of an amount is cut off, not
  rounded (`ShortFormIsCut`).
- `FormInv` (`EmailCodesProofs`): a form that cannot be left while it asks has one
  ask on its way, the last one, and the challenges the server has issued remember
  for which draft. The settings and the address of an account, which can be left,
  keep the part about calls alone.
- `CreateInv`, `CardInv`, `QueueInv`: of each filling there is one call at most and
  a closed form knows of none; the writes of a card are its own as long as it is not
  closed over one; a row whose action is resolved waits for the queue to be read
  again, and that reading no longer has the action.
- `ListInv`: until a row leaves a filter, what the filter finds only grows, so a
  page that was promised when it was turned to still has rows when it is read, and
  so does every answer in the cache.
- `AccessInv`: the owner of a booking or a contract is a seller who may edit, a
  lead is new exactly as long as it has none, and the status of a contract is
  derived from its deposit and document. From there `RightsHold` compares, kind by
  kind, what each page offers with the checks of the handler, in any staff.
- `TabInv` (`SessionsProofs`): until the answer to a refresh is lost, the only
  refresh in flight is the shared one, and each token that the tab has, has sent or
  is about to get is the only one of its family that can be live.

Proved and not checked by a run, because it says little about the code once the
others hold, is the type correctness of `Sessions`, `Attendance`, `Payroll` and
`Accounting`
(there with: nothing is dated ahead, and no running month is closed), and that no
upload belongs to two contracts.

Only model-checked are:

- the liveness properties `NoDayIsForgotten`, `EveryRequestIsAnswered` and
  `EverybodyGetsIn`, which need fairness and ENABLED and so are beyond the prover;
- the two properties that do not hold.

## 7. The plan

Done, in this order: the schema of sales and the funnel with its abstract
specification; contracts over the file storage; e-mail codes; confirmations;
sessions; attendance; the arithmetic of money and payroll; accounting over the
file storage; backups of it; the session in the browser; users, with the
identity lock and the pool of connections; the daily report; the cache and the
messages of the browser; its forms, cards and lists; the figures of the dashboard;
the rights on both sides; the consents of employees. Then the proofs, module by
module in the same order. Next:

1. An abstract specification of a backup, which `Backups` implements: the state
   a complete restore gives is one the source had, but for files removed since.
   Its proof can stand on `BackupInv`.
2. Two tabs with one cookie, `Browser` twice over `Sessions`.

## 8. What is not modelled

`PROJECT.json` lists every component. What is left of the code are the layouts and
charts of the frontend, the parsing of answers, the DTOs with their validation, and
the mapping of rows to responses: it computes what is shown from what was fetched
and keeps no state that another part could find stale, so a model of it would say
nothing that the code does not. Checks of the input appear as the difference
between what may be sent and what may not.

The parts of the frontend meet in few places. `ClearSession` of `Browser` is what
`QueryCache` and `Toasts` take as their own step, in one synchronous call.
`CreateForms`, `Cards`, `PendingActions` and `Lists` each have the one query of
`QueryCache` they stand on, reduced to what they see of it. The records of `Access`
are never deleted, as no page offers it, and its lists and searches are reduced to
who sees a record.

Read-only parts of the server (lists, exports, health) keep no state. Hashing and
encryption are pure. The audit log is append-only and nothing depends on its order.
The operator scripts are run by hand on a database that no server uses. The mail
transport appears by its outcomes, sent or failed; the file system and PostgreSQL
by what `src/` relies on: atomic statements and transactions, constraints, READ
COMMITTED.
