----------------------------- MODULE EditForms -----------------------------
(***************************************************************************)
(* The forms that edit a record and send the difference: EditContractForm, *)
(* EditBookingForm, EditTransactionForm and ProfileForm.                   *)
(*                                                                         *)
(* A form takes its values from the record once, when it opens or is       *)
(* reset; the difference is taken when it is sent, from the record the     *)
(* query cache (for the profile, the session) holds at that moment.  The   *)
(* record may be read again in between: after another call on the same     *)
(* card, a reconnection, a refresh of the session.  Others write the row   *)
(* meanwhile, and the server writes the fields it is sent and no other.    *)
(***************************************************************************)
EXTENDS FiniteSets, Naturals

CONSTANTS
  Fields,    \* fields of a record
  Values,    \* what a field may hold
  First,     \* the value every field begins with
  MaxWrites  \* how often others write the row; a bound

VARIABLES
  form,     \* which of the forms is looked at
  row,      \* the row of the server
  seen,     \* the prop: what was last read of it
  open,     \* the form is on the screen
  values,   \* what its fields show
  touched,  \* fields the user has changed since the form got its values
  coded,    \* a code was asked for, the fields are locked
  call,     \* the PATCH on the way
  writes    \* how often others have written the row

vars == <<form, row, seen, open, values, touched, coded, call, writes>>

Forms == {"contract", "booking", "transaction", "profile"}

\* These two are opened and closed; the others stay with their screen.
OnDemand == {"contract", "booking"}

Records == [Fields -> Values]
NoCall == [at |-> "none"]
Sending == call # NoCall

-----------------------------------------------------------------------------
(* The server and the other users                                          *)

OtherWrites(f, v) ==
  /\ writes < MaxWrites /\ v # row[f]
  /\ row' = [row EXCEPT ![f] = v]
  /\ writes' = writes + 1
  /\ UNCHANGED <<form, seen, open, values, touched, coded, call>>

\* The record is read again, for whatever reason; the fields stay.
Refetch ==
  /\ seen # row
  /\ seen' = row
  /\ UNCHANGED <<form, row, open, values, touched, coded, call, writes>>

Patch ==
  /\ call.at = "sent"
  /\ row' = [f \in Fields |-> IF f \in call.fields THEN call.values[f] ELSE row[f]]
  /\ \E at \in {"done", "failed"} : call' = [call EXCEPT !.at = at, !.answer = row']
  /\ UNCHANGED <<form, seen, open, values, touched, coded, writes>>

Refuse ==
  /\ call.at = "sent"
  /\ call' = [call EXCEPT !.at = "failed"]
  /\ UNCHANGED <<form, row, seen, open, values, touched, coded, writes>>

-----------------------------------------------------------------------------
(* The form                                                                *)

\* toFormValues of the record that is known, as defaultValues or in reset.
FormValues(record) == values' = record /\ touched' = {}

Open ==
  /\ form \in OnDemand /\ ~open
  /\ open' = TRUE
  /\ FormValues(seen)
  /\ UNCHANGED <<form, row, seen, coded, call, writes>>

Type(f, v) ==
  /\ open /\ ~Sending /\ ~coded
  /\ v # values[f]
  /\ values' = [values EXCEPT ![f] = v]
  /\ touched' = touched \cup {f}
  /\ UNCHANGED <<form, row, seen, open, coded, call, writes>>

\* The payload: the fields that differ from the record as it is known now.
BuildDiff == {f \in Fields : values[f] # seen[f]}

\* The first submit of an operation only asks for the code.
AskCode ==
  /\ form = "transaction" /\ ~coded /\ ~Sending
  /\ BuildDiff # {}
  /\ coded' = TRUE
  /\ UNCHANGED <<form, row, seen, open, values, touched, call, writes>>

Submit ==
  /\ open /\ ~Sending /\ BuildDiff # {}
  /\ form = "transaction" => coded
  /\ call' = [at |-> "sent", fields |-> BuildDiff, values |-> values, answer |-> row]
  /\ UNCHANGED <<form, row, seen, open, values, touched, coded, writes>>

\* After a success the mutation waits for the record to be read again, which
\* may fail; the profile takes the answer of the PATCH.
Saved ==
  /\ call.at = "done"
  /\ call' = NoCall /\ coded' = FALSE
  /\ IF form = "profile" THEN seen' = call.answer ELSE seen' \in {row, seen}
  /\ open' = (form \notin OnDemand)
  /\ FormValues(IF form = "profile" THEN call.answer ELSE values)
  /\ UNCHANGED <<form, row, writes>>

\* What was typed is kept.
Failed ==
  /\ call.at = "failed"
  /\ call' = NoCall
  /\ UNCHANGED <<form, row, seen, open, values, touched, coded, writes>>

Cancel ==
  /\ form \in OnDemand /\ open /\ ~Sending
  /\ open' = FALSE
  /\ FormValues(seen)
  /\ UNCHANGED <<form, row, seen, coded, call, writes>>

-----------------------------------------------------------------------------

Init ==
  /\ form \in Forms
  /\ row = [f \in Fields |-> First] /\ seen = row
  /\ open = (form \notin OnDemand)
  /\ values = row /\ touched = {}
  /\ coded = FALSE /\ call = NoCall /\ writes = 0

Next ==
  \/ \E f \in Fields, v \in Values : OtherWrites(f, v) \/ Type(f, v)
  \/ Refetch \/ Patch \/ Refuse
  \/ Open \/ AskCode \/ Submit \/ Saved \/ Failed \/ Cancel

Spec == Init /\ [][Next]_vars

-----------------------------------------------------------------------------

\* Only what the user has changed is sent, as the comments over the payload
\* of EditContractForm and EditBookingForm say.
SendsOnlyWhatChanged ==
  form \in OnDemand /\ Sending => call.fields \subseteq touched
=============================================================================
