------------------------------- MODULE MCParts -------------------------------
(***************************************************************************)
(* Instances for TLC of parts too small for a run of their own:            *)
(* Confirmations and Reports of the server, QueryCache and Toasts of the   *)
(* frontend, and Dashboard, which is of both.  They share no variable, so  *)
(* of a behaviour one of them moves, and the others stay as they began.    *)
(* The slots of forms are interchangeable, and so are people.              *)
(***************************************************************************)
EXTENDS Confirmations, FiniteSets, Integers, TLC

CONSTANTS
  Users, Calls, MaxSessions, MaxWrites, MaxViews,  \* QueryCache
  MaxToasts, Shifts, MaxChanges, NULL,             \* Toasts and Reports
  Operations, Amounts, Base, Fine, Thousand        \* Dashboard

VARIABLES
  part,                                            \* who moves
  forms, opened, user, session, writes,            \* QueryCache
  entry, mounted, call, shown,
  toasts, nextId, timers, hovered, focused,        \* Toasts
  changes, shift, report, handler, closedAt, cause,  \* Reports
  view, table, got, screen, response, edits, early   \* Dashboard

\* None is no user, and no number of writes or of a message; NULL is no shift.
ASSUME PartsAssumption == None \notin Nat \cup Users /\ NULL \notin Shifts

\* There are finitely many people and rows, no amount of an operation is negative
\* (CreateTransactionDto), and a short form begins at a positive amount.
ASSUME FiguresAssumption ==
  /\ IsFiniteSet(Users) /\ IsFiniteSet(Operations)
  /\ Amounts \subseteq Nat /\ Base \in Int /\ Fine \in Int /\ Thousand \in Nat \ {0}

Q == INSTANCE QueryCache
T == INSTANCE Toasts
R == INSTANCE Reports WITH req <- handler
D == INSTANCE Dashboard WITH Sellers <- Users, MaxChanges <- MaxWrites, changes <- edits

cacheVars == <<forms, opened, user, session, writes, entry, mounted, call, shown>>
toastVars == <<toasts, nextId, timers, hovered, focused>>
reportVars == <<changes, shift, report, handler, closedAt, cause>>
figureVars == <<view, table, got, screen, response, edits, early>>

\* Of the cache with two views a single form and a single login, with one view
\* two of each.
Bounded ==
  Cardinality(opened) = 2 =>
    session < 2 /\ Cardinality({c \in Calls : call[c] # Q!Idle}) < 2

PartsInit ==
  /\ part \in {"confirmations", "cache", "toasts", "report", "figures"}
  /\ Init
  /\ part # "confirmations" => \A p \in Actions : action[p].type = "create_user"
  /\ Q!Init
  /\ part # "cache" => forms = Q!SettingsForms /\ opened = {}
  /\ T!Init /\ R!Init
  /\ D!Init
  /\ part # "figures" => view = "summary"

PartsNext ==
  \/ part = "confirmations" /\ Next
     /\ UNCHANGED <<part, cacheVars, toastVars, reportVars, figureVars>>
  \/ part = "cache" /\ Q!Next /\ Bounded'
     /\ UNCHANGED <<part, vars, toastVars, reportVars, figureVars>>
  \/ part = "toasts" /\ T!Next
     /\ UNCHANGED <<part, vars, cacheVars, reportVars, figureVars>>
  \/ part = "report" /\ R!Next
     /\ UNCHANGED <<part, vars, cacheVars, toastVars, figureVars>>
  \/ part = "figures" /\ D!Next
     /\ UNCHANGED <<part, vars, cacheVars, toastVars, reportVars>>

PartsSpec ==
  PartsInit /\ [][PartsNext]_<<part, vars, cacheVars, toastVars, reportVars, figureVars>>

\* Directors and the users of the cache are the same people.
Symmetry == Permutations(Calls) \cup Permutations(Users)

-----------------------------------------------------------------------------

\* CacheIsOfSession and ButtonsShowTheirOutcome of QueryCache: what a tab holds
\* was read in the session that looks at it (QueryProvider), and a button that
\* has waited for its form comes back over data that show what the form has
\* done (CurrentShiftCard).
CacheIsSound == Q!CacheIsOfSession /\ Q!ButtonsShowTheirOutcome

\* UnheldToastIsTimed of Toasts: the timeout of a message that nobody holds is
\* running (pauseToast, resumeToast, showToast).
UnheldToastIsTimed == T!UnheldToastIsTimed

\* ReportCoversItsShift of Reports: a report that the closing of a shift has
\* stored holds what was recorded before (ShiftsService.close).  NotOpenedIsTrue
\* of Dashboard: nobody is reported for not opening a shift that was open before
\* (salesContent).
ReportsAreSound == R!ReportCoversItsShift /\ D!NotOpenedIsTrue

\* FiguresAgree of Dashboard: figures that are shown together agree
\* (DashboardService, dashboardCharts.ts).  OnlyDebtIsRefused: a summary is
\* refused for negative pay alone (parse.ts).
FiguresAreSound == D!FiguresAgree /\ D!OnlyDebtIsRefused
=============================================================================
