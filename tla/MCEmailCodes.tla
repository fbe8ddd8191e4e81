---------------------------- MODULE MCEmailCodes ----------------------------
(***************************************************************************)
(* Instances for TLC of the two ends of a code, EmailCodes of the server   *)
(* and CodeForms of the frontend, of the frontend's other screens,         *)
(* CreateForms, Cards, PendingActions and Lists, and of Access, which is   *)
(* of both.  They share no variable, so of a behaviour one of them moves,  *)
(* and the others stay as they began.                                      *)
(***************************************************************************)
EXTENDS EmailCodes, TLC

CONSTANTS
  Drafts, NoDraft, MaxAsks,                                  \* CodeForms
  MaxFillings, MaxCalls, MaxVersions,                        \* CreateForms
  MaxEdits, MaxLeft,                                         \* Cards
  Actions, MaxSetbacks,                                      \* PendingActions
  Statuses, Searches, All, PageSize, MaxRows, MaxWrites, MaxKept, \* Lists
  RoleOf, TeamLead, Leavers, MaxOpen,                        \* Access
  dina, hana, mira, milo, hugo, max, anna, alan, rita

VARIABLES
  part,                                                      \* who moves
  form, step, blocked, phase, failed, held, draft, next,     \* CodeForms
  asks, calls, asked, issued, live, performed,
  creator, open, filling, filled, tick, text, fetching,      \* CreateForms
  version, posts, records, lost, reread,
  card, shown, reading, dirty, entry, seen, edits, puts, left,  \* Cards
  type, status, queue, row, sent, resolved, forgot, setbacks,   \* PendingActions
  screen, rows, typed, applied, offset, known, request,      \* Lists
  broken, writes, gone,
  kind, disabled, record, page, trespass                     \* Access

\* NoDraft is not one of the drafts; there are finitely many rows, of finitely
\* many kinds, and a page has room for one.
ASSUME EndsAssumption ==
  /\ NoDraft \notin Drafts
  /\ IsFiniteSet(Statuses) /\ IsFiniteSet(Searches)
  /\ MaxRows \in Nat /\ PageSize \in Nat \ {0}

F == INSTANCE CodeForms
N == INSTANCE CreateForms WITH form <- creator, calls <- posts
C == INSTANCE Cards WITH open <- shown, fetching <- reading, calls <- puts
P == INSTANCE PendingActions WITH calls <- sent, left <- forgot
L == INSTANCE Lists WITH failed <- broken

A == INSTANCE Access WITH shown <- page

\* Everybody has one of the six roles, and only a sales manager has a head, who
\* is a head of sales (executeCreateUser; nothing changes a role or a team).
ASSUME StaffAssumption ==
  /\ RoleOf \in [A!People -> A!AllRoles] /\ None \notin A!People
  /\ \A p \in A!People : TeamLead[p] # None =>
       /\ RoleOf[p] = "sales_manager"
       /\ TeamLead[p] \in A!People /\ RoleOf[TeamLead[p]] = "head_of_sales"
  /\ Leavers \subseteq A!People

\* Two teams, of two and of one, and two accountants.
StaffRoles ==
  dina :> "director" @@ hana :> "head_of_sales" @@ hugo :> "head_of_sales"
    @@ mira :> "sales_manager" @@ milo :> "sales_manager" @@ max :> "sales_manager"
    @@ anna :> "accountant" @@ alan :> "accountant" @@ rita :> "reception"
StaffLeads ==
  [p \in DOMAIN StaffRoles |->
     IF p \in {mira, milo} THEN hana ELSE IF p = max THEN hugo ELSE None]
StaffLeavers == {hana, mira}

codeVars ==
  <<form, step, blocked, phase, failed, held, draft, next, asks, calls, asked,
    issued, live, performed>>
createVars ==
  <<creator, open, filling, filled, tick, text, fetching, version, posts,
    records, lost, reread>>
cardVars == <<card, shown, reading, dirty, entry, seen, edits, puts, left>>
queueVars == <<type, status, queue, row, sent, resolved, forgot, setbacks>>
listVars ==
  <<screen, rows, typed, applied, offset, known, request, broken, writes, gone>>
accessVars == <<kind, disabled, record, page, trespass>>

EndsInit ==
  /\ part \in {"server", "code", "create", "card", "queue", "list", "access"}
  /\ Init /\ F!Init /\ N!Init /\ C!Init /\ P!Init /\ L!Init /\ A!Init
  /\ part # "code" => form = "login"
  /\ part # "create" => creator = "contract"
  /\ part # "card" => card = "payroll"
  /\ part # "queue" => \A a \in Actions : type[a] = "create_user"
  /\ part # "list" => screen = "dayOffs" /\ \A k \in DOMAIN rows : rows[k] = 0
  /\ part # "access" => kind = "lead"

EndsNext ==
  \/ part = "server" /\ Next
     /\ UNCHANGED <<part, codeVars, createVars, cardVars, queueVars, listVars, accessVars>>
  \/ part = "code" /\ F!Next
     /\ UNCHANGED <<part, vars, createVars, cardVars, queueVars, listVars, accessVars>>
  \/ part = "create" /\ N!Next
     /\ UNCHANGED <<part, vars, codeVars, cardVars, queueVars, listVars, accessVars>>
  \/ part = "card" /\ C!Next
     /\ UNCHANGED <<part, vars, codeVars, createVars, queueVars, listVars, accessVars>>
  \/ part = "queue" /\ P!Next
     /\ UNCHANGED <<part, vars, codeVars, createVars, cardVars, listVars, accessVars>>
  \/ part = "list" /\ L!Next
     /\ UNCHANGED <<part, vars, codeVars, createVars, cardVars, queueVars, accessVars>>
  \/ part = "access" /\ A!Next
     /\ UNCHANGED <<part, vars, codeVars, createVars, cardVars, queueVars, listVars>>

EndsSpec ==
  EndsInit
  /\ [][EndsNext]_<<part, vars, codeVars, createVars, cardVars, queueVars, listVars, accessVars>>

-----------------------------------------------------------------------------

\* HeldIsOfLastAsk and PerformedAsShown of CodeForms and ConsentIsItsOwn of
\* CreateForms: a form that waits for a code holds the challenge of the last one
\* it asked for, what is done under it is what was on the screen then, and
\* whoever is recorded with a consent has given it, under the version that is
\* recorded (useEmailCodeConfirm and its users, LeadForm, BuyerConsent).
DoneAsShown == F!HeldIsOfLastAsk /\ F!PerformedAsShown /\ N!ConsentIsItsOwn

\* CreatedOnce of CreateForms, OneWriteAtATime of Cards and ResolvedOnce of
\* PendingActions: what was filled in once is created once, the two writes of a
\* card or of a row are never on the way together, and what is resolved is not
\* offered again (useCreateContract, PayrollEntryDetail, PendingActionRow).
NothingIsSentTwice == N!CreatedOnce /\ C!OneWriteAtATime /\ P!ResolvedOnce

\* NoBlankPage of Lists: nobody is left on an empty page after the first unless
\* a row has left the filter (applyFilters, resetFilters and the chips).
NoBlankPage == L!NoBlankPage

\* OfferedIsAllowed, OnlyTheResponsibleWrite, WorkIsOffered and
\* NavigationIsServed of Access: what a page offers the server allows, but for
\* the known refusals; nobody writes what is not theirs; unfinished work is
\* offered to somebody; the menu leads to no refusal (access.ts, the services).
RightsAgree ==
  /\ A!OfferedIsAllowed /\ A!OnlyTheResponsibleWrite
  /\ A!WorkIsOffered /\ A!NavigationIsServed
=============================================================================
