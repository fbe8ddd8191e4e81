----------------------------- MODULE CodeForms -----------------------------
(***************************************************************************)
(* The forms of the frontend that wait for a code from a letter: the hook  *)
(* useEmailCodeConfirm, the eight components that use it, and the form of  *)
(* the login, which does the same by hand.  Of a behaviour one form is on  *)
(* the screen, and may be left and come to again.                          *)
(*                                                                         *)
(* A form asks the server for a code and gets the number of a challenge;   *)
(* the letter holds the code of that challenge; the form then sends both   *)
(* with the data of the protected call.  Answers may come late, out of     *)
(* order or never, also to a form that has been closed meanwhile.          *)
(*                                                                         *)
(* The server is EmailCodes, seen from outside: a new challenge ends the   *)
(* one before, and a challenge is good for one call.  What a form asks for *)
(* is a draft: a file, the fields of a record, an address.  Checks of the  *)
(* input are the difference between a draft and NoDraft.                   *)
(***************************************************************************)
EXTENDS Naturals, Sequences, FiniteSets

CONSTANTS
  Drafts,    \* what can be chosen or typed
  NoDraft,   \* nothing chosen, or nothing that may be sent
  MaxAsks    \* how often a code is asked for; a bound

VARIABLES
  form,      \* which of the forms is looked at
  step,      \* "closed", "open", and for a new address also "new-code" and "done"
  blocked,   \* the prop disabled: something else is done to the record
  phase,     \* state of the hook
  failed,    \* the hook has an error to show
  held,      \* challengeId of the hook, 0 for null
  draft,     \* what is on the screen
  next,      \* the address the second code of a new address was sent to
  asks,      \* calls of requestEmailCode on the way
  calls,     \* protected calls on the way
  asked,     \* number of codes asked for so far
  issued,    \* challenges of the server: by which request, for which draft
  live,      \* the challenge that is still good, 0 for none
  performed  \* what was done under a code, beside what the code was asked for

hook == <<phase, failed, held>>
vars == <<form, step, blocked, hook, draft, next, asks, calls, asked, issued, live, performed>>

Uploads == {"contractFile", "attachment"}
Blockable == {"attachment", "payrollConfirm", "editTransaction"}
WithFields == {"settings", "createTransaction", "editTransaction", "email", "login"}
NoData == {"deposit", "payrollConfirm"}
Forms == Uploads \cup WithFields \cup NoData

\* These forms ask for the code in their own submit handler.
AskOnSubmit == {"createTransaction", "editTransaction", "login"}

Asking == \E a \in asks : a.mine
Pending == \E c \in calls : c.mine

\* isSubmitting of a form that asks in its submit handler.
Submitting == Asking \/ Pending

-----------------------------------------------------------------------------
(* Which controls of a component can be used in the current state: the     *)
(* button that asks for a code (again), the one that sends, the one that   *)
(* gives up, and the fields.                                               *)

Waiting == phase = "awaiting-code"
GaveUp == phase = "idle" /\ failed

\* Mutant: the form can be given up while it asks.
DepositConfirmAlwaysCancels ==
  [ask    |-> GaveUp,
   submit |-> Waiting /\ ~Pending,
   cancel |-> ~Pending,
   fields |-> FALSE]

DepositConfirm ==
  [ask    |-> GaveUp,
   submit |-> Waiting /\ ~Pending,
   cancel |-> (Waiting /\ ~Pending) \/ GaveUp,
   fields |-> FALSE]

PayrollEntryConfirm ==
  [ask    |-> GaveUp /\ ~blocked,
   submit |-> Waiting /\ ~Pending /\ ~blocked,
   cancel |-> (Waiting /\ ~Pending) \/ GaveUp,
   fields |-> FALSE]

ContractFile ==
  [ask    |-> GaveUp,
   submit |-> Waiting /\ ~Pending,
   cancel |-> (Waiting /\ ~Pending) \/ GaveUp,
   fields |-> draft = NoDraft]

TransactionAttachment ==
  [ask    |-> GaveUp /\ ~blocked,
   submit |-> Waiting /\ ~Pending /\ ~blocked,
   cancel |-> (Waiting /\ ~Pending) \/ GaveUp,
   fields |-> draft = NoDraft /\ ~blocked]

PayrollSettingsForm ==
  [ask    |-> FALSE,
   submit |-> Waiting /\ ~Pending,
   cancel |-> ~Pending,
   fields |-> ~Pending]

\* Mutant: the fields can be changed while the form waits for the code.
CreateTransactionFormStaysOpen ==
  [ask    |-> phase = "idle" /\ ~Submitting,
   submit |-> Waiting /\ ~Submitting,
   cancel |-> ~Submitting,
   fields |-> ~Submitting]

CreateTransactionForm ==
  [ask    |-> phase = "idle" /\ ~Submitting,
   submit |-> Waiting /\ ~Submitting,
   cancel |-> ~Submitting,
   fields |-> ~Submitting /\ ~Waiting]

EditTransactionForm ==
  [ask    |-> phase = "idle" /\ ~Submitting /\ ~blocked,
   submit |-> Waiting /\ ~Submitting /\ ~blocked,
   cancel |-> FALSE,
   fields |-> ~Submitting /\ ~blocked /\ ~Waiting]

ChangeEmailFlow ==
  [ask    |-> GaveUp,
   submit |-> Waiting /\ ~Pending,
   cancel |-> ~Pending,
   fields |-> ~Pending]

LoginForm ==
  [ask    |-> phase = "idle" /\ ~Submitting,
   submit |-> Waiting /\ ~Submitting,
   cancel |-> Waiting /\ ~Submitting,
   fields |-> ~Waiting]

Controls ==
  CASE form = "deposit"           -> DepositConfirm
    [] form = "payrollConfirm"    -> PayrollEntryConfirm
    [] form = "contractFile"      -> ContractFile
    [] form = "attachment"        -> TransactionAttachment
    [] form = "settings"          -> PayrollSettingsForm
    [] form = "createTransaction" -> CreateTransactionForm
    [] form = "editTransaction"   -> EditTransactionForm
    [] form = "email"             -> ChangeEmailFlow
    [] form = "login"             -> LoginForm

-----------------------------------------------------------------------------
(* The hook                                                                *)

\* requestCode up to its await; draft' is what is on the screen.
RequestCode ==
  /\ asked < MaxAsks
  /\ asked' = asked + 1
  /\ asks' = asks \cup
       {[n |-> asked + 1, for |-> draft', challenge |-> 0, at |-> "sent", mine |-> TRUE]}
  /\ phase' = "requesting" /\ failed' = FALSE
  /\ UNCHANGED held

ResetHook == phase' = "idle" /\ failed' = FALSE /\ held' = 0

\* The answer of requestEmailCode reaches the hook, whatever it is doing.
Answer(a) ==
  /\ a.mine /\ a.at # "sent"
  /\ asks' = asks \ {a}
  /\ IF a.at = "issued"
       THEN phase' = "awaiting-code" /\ held' = a.challenge /\ UNCHANGED failed
       ELSE phase' = "idle" /\ failed' = TRUE /\ UNCHANGED held
  /\ UNCHANGED <<form, step, blocked, draft, next, calls, asked, issued, live, performed>>

-----------------------------------------------------------------------------
(* The user                                                                *)

StartsOpen == form \in {"login", "editTransaction"}

\* The button that opens a form.  All but the form of a new operation ask
\* for a code at once; the settings open with what is stored.
Open ==
  /\ step = "closed" /\ form \notin Uploads /\ ~StartsOpen
  /\ form = "payrollConfirm" => ~blocked
  /\ step' = "open"
  /\ IF form = "settings" THEN draft' \in Drafts ELSE draft' = NoDraft
  /\ IF form = "createTransaction" THEN UNCHANGED <<hook, asks, asked>> ELSE RequestCode
  /\ UNCHANGED <<form, blocked, next, calls, issued, live, performed>>

\* A file is chosen: handleSelect.
Choose(d) ==
  /\ form \in Uploads /\ Controls.fields
  /\ draft' = d /\ step' = "open"
  /\ RequestCode
  /\ UNCHANGED <<form, blocked, next, calls, issued, live, performed>>

Type(d) ==
  /\ form \in WithFields /\ step = "open" /\ Controls.fields
  /\ draft' = d
  /\ UNCHANGED <<form, step, blocked, hook, next, asks, calls, asked, issued, live, performed>>

\* The button that asks once more, or the first submit of a form that asks
\* in its submit handler.
Ask ==
  /\ step = "open" /\ Controls.ask
  /\ form \in AskOnSubmit => draft # NoDraft
  /\ UNCHANGED draft
  /\ RequestCode
  /\ UNCHANGED <<form, step, blocked, next, calls, issued, live, performed>>

\* The code of a letter is typed and sent with what is on the screen.
Submit(code) ==
  /\ step = "open" /\ Controls.submit
  /\ form \notin NoData => draft # NoDraft
  /\ calls' = calls \cup
       {[challenge |-> held, code |-> code, value |-> draft, at |-> "sent", mine |-> TRUE]}
  /\ UNCHANGED <<form, step, blocked, hook, draft, next, asks, asked, issued, live, performed>>

\* What giving up, and for most forms success, leaves behind.  The form of a
\* new operation unmounts; the login goes back to its first step.
Close ==
  /\ step' = IF StartsOpen THEN "open" ELSE "closed"
  /\ draft' = NoDraft /\ next' = NoDraft
  /\ ResetHook

Cancel ==
  /\ step = "open" /\ Controls.cancel
  /\ Close
  /\ UNCHANGED <<form, blocked, asks, calls, asked, issued, live, performed>>

\* The second step of a new address: submitNewCode, and its way back.
SubmitNewCode ==
  /\ step = "new-code" /\ ~Pending
  /\ calls' = calls \cup
       {[challenge |-> 0, code |-> 0, value |-> next, at |-> "sent", mine |-> TRUE]}
  /\ UNCHANGED <<form, step, blocked, hook, draft, next, asks, asked, issued, live, performed>>

LeaveNewCode ==
  /\ step = "done" \/ (step = "new-code" /\ ~Pending)
  /\ Close
  /\ UNCHANGED <<form, blocked, asks, calls, asked, issued, live, performed>>

\* The card is closed or another screen opened: the component unmounts, its
\* answers reach nobody.  At most one call is left behind, a bound.
Orphans(xs) == {[x EXCEPT !.mine = FALSE] : x \in {y \in xs : y.at = "sent"}}

Leave ==
  /\ \A c \in calls : c.mine
  /\ asks' = Orphans(asks) /\ calls' = Orphans(calls)
  /\ Close
  /\ UNCHANGED <<form, blocked, asked, issued, live, performed>>

\* The answer of a protected call.  A failure leaves the form as it was.
Result(c) ==
  /\ c.mine /\ c.at # "sent"
  /\ calls' = calls \ {c}
  /\ CASE c.at = "failed" -> UNCHANGED <<step, draft, next, hook>>
       [] c.at = "done" /\ form = "email" /\ step = "open" ->
            step' = "new-code" /\ next' = c.value /\ UNCHANGED <<draft, hook>>
       [] c.at = "done" /\ form = "email" /\ step = "new-code" ->
            step' = "done" /\ UNCHANGED <<draft, next, hook>>
       [] c.at = "done" /\ form # "email" -> Close
  /\ UNCHANGED <<form, blocked, asks, asked, issued, live, performed>>

\* Something else begins or ends on the card of the record (see Cards).
Block ==
  /\ form \in Blockable
  /\ blocked' = ~blocked
  /\ UNCHANGED <<form, step, hook, draft, next, asks, calls, asked, issued, live, performed>>

-----------------------------------------------------------------------------
(* The server and the network                                              *)

Answered(a, r) == (asks \ {a}) \cup (IF a.mine THEN {r} ELSE {})

\* A challenge is issued and its letter sent; the answer may be lost.
Issue(a) ==
  /\ a.at = "sent"
  /\ issued' = Append(issued, [ask |-> a.n, for |-> a.for])
  /\ live' = Len(issued')
  /\ \E at \in {"issued", "refused"} :
       asks' = Answered(a, [a EXCEPT !.at = at, !.challenge = Len(issued')])
  /\ UNCHANGED <<form, step, blocked, hook, draft, next, calls, asked, performed>>

Refuse(a) ==
  /\ a.at = "sent"
  /\ asks' = Answered(a, [a EXCEPT !.at = "refused"])
  /\ UNCHANGED <<form, step, blocked, hook, draft, next, calls, asked, issued, live, performed>>

CallEnded(c, outcomes) ==
  \E at \in outcomes :
    calls' = (calls \ {c}) \cup (IF c.mine THEN {[c EXCEPT !.at = at]} ELSE {})

\* The protected call is done under its code; the answer may be lost.
Perform(c) ==
  /\ c.at = "sent" /\ c.challenge # 0
  /\ c.challenge = live /\ c.code = live
  /\ live' = 0
  /\ performed' = performed \cup {[for |-> issued[live].for, value |-> c.value]}
  /\ CallEnded(c, {"done", "failed"})
  /\ UNCHANGED <<form, step, blocked, hook, draft, next, asks, asked, issued>>

\* The second code of a new address is right, wrong or late.
PerformNewCode(c) ==
  /\ c.at = "sent" /\ c.challenge = 0
  /\ CallEnded(c, {"done", "failed"})
  /\ UNCHANGED <<form, step, blocked, hook, draft, next, asks, asked, issued, live, performed>>

\* The code is not that of the live challenge, or the call fails and gives
\* the code back.
Decline(c) ==
  /\ c.at = "sent" /\ c.challenge # 0
  /\ CallEnded(c, {"failed"})
  /\ UNCHANGED <<form, step, blocked, hook, draft, next, asks, asked, issued, live, performed>>

-----------------------------------------------------------------------------

Init ==
  /\ form \in Forms
  /\ step = IF StartsOpen THEN "open" ELSE "closed"
  /\ blocked = FALSE
  /\ phase = "idle" /\ failed = FALSE /\ held = 0
  /\ draft = NoDraft /\ next = NoDraft
  /\ asks = {} /\ calls = {} /\ asked = 0
  /\ issued = <<>> /\ live = 0 /\ performed = {}

Next ==
  \/ Open
  \/ \E d \in Drafts : Choose(d) \/ Type(d)
  \/ Ask
  \/ \E code \in 1..Len(issued) : Submit(code)
  \/ Cancel
  \/ SubmitNewCode
  \/ LeaveNewCode
  \/ Leave
  \/ Block
  \/ \E a \in asks : Answer(a) \/ Issue(a) \/ Refuse(a)
  \/ \E c \in calls : Result(c) \/ Perform(c) \/ PerformNewCode(c) \/ Decline(c)

Spec == Init /\ [][Next]_vars

-----------------------------------------------------------------------------

\* A form that waits for a code holds the challenge of the last code it asked
\* for, so the letter that came last is the one that fits: nothing lets a
\* second request begin while the answer of the first may still come.  The
\* settings of the payroll and a new address can be given up while they ask,
\* and are left out (DepositConfirm, TransactionAttachment and the others).
HeldIsOfLastAsk ==
  form \notin {"settings", "email"} /\ Waiting => issued[held].ask = asked

\* What is done under a code is what was on the screen when the code was
\* asked for: the chosen file, the fields of an operation; and the address
\* that the second letter of a new address went to is the one on the screen.
PerformedAsShown ==
  /\ form \in Uploads \cup {"createTransaction", "editTransaction"} =>
       \A p \in performed : p.value = p.for
  /\ step = "new-code" => next = draft
=============================================================================
