----------------------------- MODULE QueryCache -----------------------------
(***************************************************************************)
(* What a tab shows of the server's data (the queries.ts of the features   *)
(* of the frontend): views that load into a cache, and forms whose success *)
(* invalidates the views that show what they changed.  The cache is the    *)
(* QueryClient of TanStack Query, as the code relies on it; the session is *)
(* Browser's, reduced to logins and their ends.                            *)
(*                                                                         *)
(* A view or a form stands for one key: two lists with different filters   *)
(* are two views that the same forms invalidate.                           *)
(***************************************************************************)
EXTENDS Naturals, FiniteSets, TLC

CONSTANTS
  Users,
  Calls,        \* slots of submitted forms; their number is a bound
  MaxSessions,  \* bound: how many logins the tab sees
  MaxWrites,    \* bound: how many submitted forms the server carries out
  MaxViews,     \* bound: how many views of a feature are opened
  None

VARIABLES
  forms,    \* the feature the tab is used for: its forms, by name
  opened,   \* its views that are ever mounted
  user,     \* useSession().user
  session,  \* the number of logins
  writes,   \* server: the number of forms carried out
  entry,    \* the cache, by view: the data, their session, whether they count
            \* as old or have failed to load, and the request in flight
  mounted,  \* the views on the screen
  call,     \* the submitted forms: "sent", then "done" by the server, then
            \* "loading" the views `for' which the form waits
  shown     \* history: the last write of a form that was answered to the
            \* component that submitted it, until that is left, by form

page == <<forms, opened>>
tab == <<user, session, entry, mounted>>
vars == <<page, tab, writes, call, shown>>

-----------------------------------------------------------------------------
(***************************************************************************)
(* The features.  A form belongs to the component that shows the view      *)
(* `home', and its success invalidates `refreshes'.  One that is drawn has *)
(* its button in what that view has loaded.  The button is disabled while  *)
(* a form of `waits' is submitted: until the refreshed views have loaded,  *)
(* when onSuccess returns the promise of their loading, and `idle' says    *)
(* that it is also disabled whenever the view loads.  One button is drawn  *)
(* only `over' some data, and elsewhere the server refuses what it sends.  *)
(***************************************************************************)

Form(home, refreshes, drawn, waits) ==
  [home |-> home, refreshes |-> refreshes, drawn |-> drawn, waits |-> waits,
   awaits |-> TRUE, idle |-> FALSE, keyed |-> TRUE, over |-> 0 .. MaxWrites]

\* No shift, then an open one, then a closed one, for which there is no button.
ShiftForms ==
  LET card(f, shift) ==
        [Form("currentShift", {"currentShift", "shifts"}, TRUE, {f}) EXCEPT !.over = {shift}]
  IN [openShift |-> card("openShift", 0), closeShift |-> card("closeShift", 1)]

DayOffForms == [createDayOff |-> Form("dayOffs", {"dayOffs"}, FALSE, {"createDayOff"})]

\* PayrollEntryDetail hands entryBusy to both of its forms.
EntryForms ==
  LET detail == [Form("entry", {"entry", "entries"}, TRUE, {"correctEntry", "confirmEntry"})
                   EXCEPT !.idle = TRUE]
  IN [correctEntry |-> detail, confirmEntry |-> detail,
      generateEntries |-> Form("entries", {"entries"}, FALSE, {"generateEntries"})]

SettingsForms == [updateSettings |-> Form("settings", {"settings"}, TRUE, {"updateSettings"})]

ContractForms ==
  LET card(f) == Form("contract", {"contract", "contracts"}, TRUE, {f})
  IN [updateContract |-> card("updateContract"), markDeposit |-> card("markDeposit"),
      uploadContractFile |-> card("uploadContractFile"),
      createContract |-> Form("contracts", {"contracts"}, FALSE, {"createContract"})]

BookingForms ==
  [createBooking |-> Form("bookings", {"bookings"}, FALSE, {"createBooking"}),
   updateBooking |-> Form("booking", {"booking", "bookings"}, TRUE, {"updateBooking"}),
   convertBooking |-> Form("booking", {"booking", "bookings", "contracts"}, TRUE,
                           {"convertBooking"})]

\* TransactionCard does the same, which is busy like the entry.
TransactionForms ==
  LET lists == {"transactions", "summary"}
      card == [Form("transaction", lists \cup {"transaction"}, TRUE,
                    {"updateTransaction", "uploadTransactionAttachment"}) EXCEPT !.idle = TRUE]
  IN [updateTransaction |-> card, uploadTransactionAttachment |-> card,
      createTransaction |-> Form("transactions", lists, FALSE, {"createTransaction"})]

ConfirmationForms ==
  LET row(refreshes) == Form("pendingActions", refreshes, TRUE, {"confirmAction", "rejectAction"})
  IN [confirmAction |-> row({"users", "pendingActions"}),
      rejectAction |-> row({"pendingActions"}),
      requestUserCreation |-> Form("users", {"pendingActions"}, FALSE, {"requestUserCreation"})]

\* The key of leads names no user, and nobody waits for its loading.
LeadForms ==
  LET lead(waits, drawn) ==
        [Form("leads", {"leads"}, drawn, waits) EXCEPT !.awaits = FALSE, !.keyed = FALSE]
  IN [createLead |-> lead({"createLead"}, FALSE),
      assignLead |-> lead({"assignLead"}, TRUE),
      rejectLead |-> lead({"rejectLead"}, TRUE),
      convertLead |-> lead({"convertLead"}, TRUE)]

Features ==
  {ShiftForms, DayOffForms, EntryForms, SettingsForms, ContractForms, BookingForms,
   TransactionForms, ConfirmationForms, LeadForms}

ViewsOf(feature) == UNION {{feature[f].home} \cup feature[f].refreshes : f \in DOMAIN feature}
Views == ViewsOf(forms)

-----------------------------------------------------------------------------
(***************************************************************************)
(* The cache.  What a view has loaded, and what its request has read, is   *)
(* the number of writes that the server had carried out, with the session  *)
(* whose token asked.                                                      *)
(***************************************************************************)

Idle == [op |-> "idle"]
Sent == [op |-> "sent", by |-> session]
Empty == [data |-> None, by |-> 0, invalid |-> FALSE, failed |-> FALSE, request |-> Idle]

\* Mutant: a request in flight is never given up for a new one.
LoadOnce(e) == IF e.request # Idle THEN e ELSE [e EXCEPT !.request = Sent]

\* query.fetch with cancelRefetch: a request in flight is given up for a new
\* one, unless nothing has been loaded yet.
Load(e) == IF e.request # Idle /\ e.data = None THEN e ELSE [e EXCEPT !.request = Sent]

\* invalidateQueries: what has been loaded counts as old, and only what is on
\* the screen is loaded again.
Invalidated(v) ==
  LET old == [entry[v] EXCEPT !.invalid = entry[v].data # None]
  IN IF v \in mounted THEN Load(old) ELSE old

\* Nothing to load when no request is needed, or when one is in flight already.
Mount(v) ==
  /\ user # None
  /\ v \in opened \ mounted
  /\ mounted' = mounted \cup {v}
  /\ LET e == entry[v]
         start == entry' = [entry EXCEPT ![v].request = Sent]
     IN \/ e.request = Idle /\ start
        \/ e.request # Idle /\ UNCHANGED entry
        \/ \* Younger than staleTime.
           e.data # None /\ ~e.invalid /\ UNCHANGED entry
  /\ UNCHANGED <<page, user, session, writes, call, shown>>

\* The answers still come, but the component that waits for them is gone.
Unmount(v) ==
  /\ v \in mounted
  /\ mounted' = mounted \ {v}
  /\ call' = [c \in Calls |->
       IF call[c] = Idle \/ call[c].home # v THEN call[c]
       ELSE IF call[c].op = "loading" THEN Idle
       ELSE [call[c] EXCEPT !.attached = FALSE]]
  /\ shown' = [f \in DOMAIN forms |->
       IF forms[f].home = v /\ ~forms[f].idle THEN 0 ELSE shown[f]]
  /\ UNCHANGED <<page, user, session, entry, writes>>

\* The server reads.
Read(v) ==
  /\ entry[v].request.op = "sent"
  /\ entry' = [entry EXCEPT ![v].request =
       [op |-> "read", by |-> entry[v].request.by, data |-> writes]]
  /\ UNCHANGED <<page, user, session, mounted, writes, call, shown>>

\* The forms that wait for a view, once it has loaded or failed to.
Waited(v) ==
  [c \in Calls |->
     IF call[c].op # "loading" THEN call[c]
     ELSE IF call[c].for \subseteq {v} THEN Idle
     ELSE [call[c] EXCEPT !.for = @ \ {v}]]

LoadDone(v) ==
  /\ entry[v].request.op = "read"
  /\ entry' = [entry EXCEPT ![v] =
       [data |-> entry[v].request.data, by |-> entry[v].request.by,
        invalid |-> FALSE, failed |-> FALSE, request |-> Idle]]
  /\ call' = Waited(v)
  /\ UNCHANGED <<page, user, session, mounted, writes, shown>>

\* retry is FALSE in every hook: the view shows the error, over what it had.
LoadFailed(v) ==
  /\ entry[v].request # Idle
  /\ entry' = [entry EXCEPT ![v] =
       [entry[v] EXCEPT !.request = Idle, !.failed = TRUE, !.invalid = entry[v].data # None]]
  /\ call' = Waited(v)
  /\ UNCHANGED <<page, user, session, mounted, writes, shown>>

\* The button that a failed view shows.
Refetch(v) ==
  /\ v \in mounted
  /\ entry[v].failed
  /\ entry' = [entry EXCEPT ![v] = Load(entry[v])]
  /\ UNCHANGED <<page, user, session, mounted, writes, call, shown>>

-----------------------------------------------------------------------------
(***************************************************************************)
(* The session                                                             *)
(***************************************************************************)

Login(u) ==
  /\ user = None
  /\ session < MaxSessions
  /\ user' = u
  /\ session' = session + 1
  /\ UNCHANGED <<page, entry, mounted, writes, call, shown>>

\* Mutant: what is loaded is dropped, the requests in flight are not cancelled.
ClearedData == [v \in Views |-> [Empty EXCEPT !.request = entry[v].request]]

\* cancelQueries and clear
Cleared == [v \in Views |-> Empty]

\* clearSession: SessionGate takes the page away with all of its components.
\* What has been submitted runs on.
ClearSession ==
  /\ user # None
  /\ user' = None
  /\ entry' = Cleared
  /\ mounted' = {}
  /\ call' = [c \in Calls |->
       CASE call[c].op \in {"idle", "loading"} -> Idle
         [] OTHER -> [call[c] EXCEPT !.attached = FALSE]]
  /\ shown' = [f \in DOMAIN forms |-> 0]
  /\ UNCHANGED <<page, session, writes>>

-----------------------------------------------------------------------------
(***************************************************************************)
(* The forms                                                               *)
(***************************************************************************)

Pending(f) == \E c \in Calls : call[c] # Idle /\ call[c].form = f /\ call[c].attached

Clickable(f) ==
  LET e == entry[forms[f].home]
  IN /\ user # None
     /\ forms[f].home \in mounted
     /\ forms[f].drawn => e.data # None /\ ~e.failed /\ e.data \in forms[f].over
     /\ \A g \in forms[f].waits : ~Pending(g)
     /\ forms[f].idle => e.request = Idle

Submit(f, c) ==
  /\ Clickable(f)
  /\ call[c] = Idle
  /\ call' = [call EXCEPT ![c] =
       [op |-> "sent", form |-> f, home |-> forms[f].home, user |-> user,
        attached |-> TRUE]]
  /\ UNCHANGED <<page, tab, writes, shown>>

\* The server carries the form out.
Serve(c) ==
  /\ call[c].op = "sent"
  /\ writes < MaxWrites
  /\ writes \in forms[call[c].form].over
  /\ writes' = writes + 1
  /\ call' = [call EXCEPT ![c] =
       [op |-> "done", at |-> writes + 1, form |-> call[c].form, home |-> call[c].home,
        user |-> call[c].user, attached |-> call[c].attached]]
  /\ UNCHANGED <<page, tab, shown>>

\* The server refuses it, or the form or its answer is lost: onError.
Fail(c) ==
  /\ call[c].op \in {"sent", "done"}
  /\ call' = [call EXCEPT ![c] = Idle]
  /\ UNCHANGED <<page, tab, writes, shown>>

\* onSuccess invalidates the views of the user who submitted the form, and the
\* form stays submitted until those on the screen have loaded.
Succeed(c) ==
  /\ call[c].op = "done"
  /\ LET s == call[c]
         form == forms[s.form]
         hit == IF s.user = user \/ ~form.keyed THEN form.refreshes ELSE {}
         loading == hit \cap mounted
     IN /\ entry' = [v \in Views |-> IF v \in hit THEN Invalidated(v) ELSE entry[v]]
        /\ call' = [call EXCEPT ![c] =
             IF s.attached /\ form.awaits /\ loading # {}
             THEN [op |-> "loading", form |-> s.form, home |-> s.home, for |-> loading,
                   attached |-> TRUE]
             ELSE Idle]
        /\ shown' = IF s.attached THEN [shown EXCEPT ![s.form] = s.at] ELSE shown
  /\ UNCHANGED <<page, user, session, mounted, writes>>

-----------------------------------------------------------------------------

Init ==
  /\ forms \in Features
  /\ opened \in {s \in SUBSET Views : Cardinality(s) <= MaxViews}
  /\ user = None
  /\ session = 0
  /\ writes = 0
  /\ entry = [v \in Views |-> Empty]
  /\ mounted = {}
  /\ call = [c \in Calls |-> Idle]
  /\ shown = [f \in DOMAIN forms |-> 0]

Next ==
  \/ \E u \in Users : Login(u)
  \/ ClearSession
  \/ \E v \in Views : Mount(v) \/ Unmount(v) \/ Read(v) \/ LoadDone(v) \/ LoadFailed(v) \/ Refetch(v)
  \/ \E f \in DOMAIN forms, c \in Calls : Submit(f, c)
  \/ \E c \in Calls : Serve(c) \/ Fail(c) \/ Succeed(c)

Spec == Init /\ [][Next]_vars

-----------------------------------------------------------------------------

\* Whatever the cache holds was loaded in the session that looks at it: an
\* answer that comes after the end of the session that asked finds no place
\* (QueryProvider, which cancels and clears, under keys that name the user or,
\* of leads, do not).
CacheIsOfSession ==
  \A v \in Views : entry[v].data # None => user # None /\ entry[v].by = session

\* A button that waits for a form is enabled again over data that show what
\* the form did, or over none: no earlier answer of the view comes in between
\* (the promises that the onSuccess of the hooks return).
ButtonsShowTheirOutcome ==
  \A f \in DOMAIN forms :
    forms[f].drawn /\ forms[f].awaits /\ Clickable(f)
    => \A g \in forms[f].waits : entry[forms[f].home].data >= shown[g]
=============================================================================
